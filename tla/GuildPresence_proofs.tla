---------------------- MODULE GuildPresence_proofs ----------------------
(***************************************************************************)
(* What holds of a guild's row for any channels, handlers and bounds: the  *)
(* types, that the setup of a living channel goes only with a guild that   *)
(* was abandoned, and that the marker promises what the bot takes it for.  *)
(***************************************************************************)
EXTENDS GuildPresence, TLAPS

----------------------------------------------------------------------------
(* The records the actions build are of their types.                       *)
LEMMA NewRowType == ASSUME NEW b \in BOOLEAN PROVE NewRow(b) \in Row
<1>1. PurgeDays \in Nat BY PresenceConstants
<1> QED BY <1>1 DEF NewRow, Row

LEMMA NoRowType == NoRow \in Row
<1>1. PurgeDays \in Nat BY PresenceConstants
<1> QED BY <1>1 DEF NoRow, Row

LEMMA NoJobType == NoJob \in Job /\ NoCall \in Call
BY DEF NoJob, Job, NoCall, Call

(* Giving a process a job keeps the jobs' type.                             *)
LEMMA ToType ==
  ASSUME TypeOK, NEW x \in Processes, NEW j \in Job, To(x, j)
  PROVE  job' \in [Processes -> Job]
BY DEF TypeOK, To

LEMMA WithType ==
  ASSUME TypeOK, NEW x \in Processes,
         NEW at \in {"idle", "prune", "unkey", "read", "key", "mark", "restore", "commit",
                     "fetch", "rows", "insert", "rejoin", "softdelete", "abandoned",
                     "channels", "purge", "purgekeys", "unmark"},
         NEW chans \in SUBSET Channels,
         With(x, at, chans) \/ Goto(x, at) \/ Onto(x, at)
  PROVE  job' \in [Processes -> Job]
<1>1. job[x] \in Job BY DEF TypeOK
<1>2. /\ [job[x] EXCEPT !.at = at, !.chans = chans] \in Job
      /\ [job[x] EXCEPT !.at = at] \in Job
      /\ [NoJob EXCEPT !.at = at, !.call = job[x].call] \in Job
  BY <1>1, NoJobType DEF Job
<1> QED BY <1>2, ToType DEF With, Goto, Onto

LEMMA JobCallType ==
  ASSUME TypeOK, NEW x \in Processes
  PROVE  job[x].call \in Call /\ job[x].chans \in SUBSET Channels
BY DEF TypeOK, Job

(* What a field of the row may become.                                      *)
LEMMA RowTypes ==
  ASSUME TypeOK
  PROVE  /\ [row EXCEPT !.left = 0] \in Row
         /\ [row EXCEPT !.left = 0, !.fresh = TRUE] \in Row
         /\ [row EXCEPT !.left = 0, !.fresh = @ \/ ~Present] \in Row
         /\ [row EXCEPT !.migrated = TRUE] \in Row
         /\ Present => [row EXCEPT !.left = 1] \in Row
         /\ [row EXCEPT !.fresh = FALSE,
                        !.left = IF @ \in 1..PurgeDays THEN @ + 1 ELSE @] \in Row
<1>1. row \in Row /\ PurgeDays \in Nat /\ row.left \in 0..(PurgeDays + 1)
  BY PresenceConstants DEF TypeOK, Row
<1>2. (IF row.left \in 1..PurgeDays THEN row.left + 1 ELSE row.left) \in 0..(PurgeDays + 1)
  BY <1>1
<1>3. 0 \in 0..(PurgeDays + 1) /\ 1 \in 0..(PurgeDays + 1)
  BY <1>1
<1>4. Present \in BOOLEAN /\ row.fresh \in BOOLEAN
  BY <1>1 DEF Present, Row
<1>5. (row.fresh \/ ~Present) \in BOOLEAN
  BY <1>4
<1> QED BY <1>1, <1>2, <1>3, <1>5, Zenon DEF Row

----------------------------------------------------------------------------
(* Each group of actions keeps the types.                                   *)
LEMMA DiscordTypes ==
  ASSUME TypeOK,
         \/ Join \/ Kick \/ OutageBegins \/ OutageEnds \/ CallLost \/ BotRestarts
         \/ \E c \in Channels : ChannelCreated(c) \/ ChannelDeleted(c)
  PROVE  TypeOK'
<1>1. /\ [op |-> "new", chans |-> live] \in Call
      /\ [op |-> "delete", chans |-> {}] \in Call
  BY DEF TypeOK, Call
<1>2. ASSUME NEW what \in {"joins", "lost", "outages", "crashes"}, Count(what)
      PROVE  spent' \in [joins : Nat, lost : Nat, outages : Nat, crashes : Nat]
  BY <1>2 DEF Count, TypeOK
<1>3. CASE Join
  <2>1. spent' \in [joins : Nat, lost : Nat, outages : Nat, crashes : Nat]
    BY <1>2, <1>3 DEF Join
  <2>2. pending' \in BOOLEAN /\ calls' \subseteq Call
    BY <1>1, <1>3 DEF Join, Register, TypeOK
  <2> QED BY <1>3, <2>1, <2>2 DEF Join, TypeOK, cacheVars
<1>4. CASE Kick
  BY <1>1, <1>4 DEF Kick, TypeOK, cacheVars
<1>5. CASE OutageBegins
  <2>1. spent' \in [joins : Nat, lost : Nat, outages : Nat, crashes : Nat]
    BY <1>2, <1>5 DEF OutageBegins, Fault
  <2> QED BY <1>5, <2>1 DEF OutageBegins, TypeOK, cacheVars, botVars
<1>6. CASE OutageEnds
  BY <1>1, <1>6 DEF OutageEnds, TypeOK, cacheVars, botVars
<1>7. CASE CallLost
  <2>1. spent' \in [joins : Nat, lost : Nat, outages : Nat, crashes : Nat]
    BY <1>2, <1>7 DEF CallLost, Fault
  <2> QED BY <1>7, <2>1 DEF CallLost, TypeOK, cacheVars, discordVars
<1>8. CASE BotRestarts
  <2>1. spent' \in [joins : Nat, lost : Nat, outages : Nat, crashes : Nat]
    BY <1>2, <1>8 DEF BotRestarts, Fault
  <2> QED BY <1>8, <2>1 DEF BotRestarts, TypeOK, cacheVars, discordVars
<1>9. ASSUME NEW c \in Channels, ChannelCreated(c) PROVE TypeOK'
  BY <1>9, PresenceConstants DEF ChannelCreated, TypeOK, cacheVars, botVars
<1>10. ASSUME NEW c \in Channels, ChannelDeleted(c) PROVE TypeOK'
  BY <1>10 DEF ChannelDeleted, TypeOK, cacheVars, botVars
<1> QED BY <1>3, <1>4, <1>5, <1>6, <1>7, <1>8, <1>9, <1>10

LEMMA RequestTypes ==
  ASSUME TypeOK, SoftDelete \/ (\E c \in Channels : Enable(c))
  PROVE  TypeOK'
<1>1. CASE SoftDelete
  <2>1. row' \in Row /\ (~row'.known => row' = NoRow /\ rows = {})
    BY <1>1, RowTypes DEF SoftDelete, TypeOK, Present, Row
  <2> QED BY <1>1, <2>1 DEF SoftDelete, TypeOK, cacheVars, discordVars
<1>2. ASSUME NEW c \in Channels, Enable(c) PROVE TypeOK'
  <2>1. row' \in Row
    BY <1>2, RowTypes, NewRowType DEF Enable
  <2>2. row'.known
    BY <1>2 DEF Enable, NewRow, TypeOK, Row
  <2> QED BY <1>2, <2>1, <2>2 DEF Enable, TypeOK, botVars, discordVars
<1> QED BY <1>1, <1>2

LEMMA HandlerTypes ==
  ASSUME TypeOK, NEW x \in Handlers,
         \/ HandlerStep(x) \/ ActivatePresence(x) \/ CheckMembership(x)
         \/ \E chosen \in SUBSET live : Migrate(x, chosen)
  PROVE  TypeOK'
<1> x \in Processes
  BY DEF Processes
<1>1. job[x].call \in Call /\ job[x].chans \in SUBSET Channels
  BY JobCallType
<1>2. CASE ActivatePresence(x)
  <2>1. PICK k \in calls :
          /\ k.op = "new" /\ calls' = calls \ {k}
          /\ row' = IF row.known THEN [row EXCEPT !.left = 0, !.fresh = TRUE] ELSE NewRow(TRUE)
          /\ To(x, [NoJob EXCEPT !.at = "prune", !.call = k, !.chans = k.chans,
                                 !.seen = row'.migrated])
    BY <1>2 DEF ActivatePresence
  <2>2. row' \in Row
    BY <2>1, RowTypes, NewRowType
  <2>3. row'.known /\ row'.migrated \in BOOLEAN
    BY <2>1, <2>2 DEF NewRow, TypeOK, Row
  <2>4. k \in Call /\ k.chans \in SUBSET Channels
    BY <2>1 DEF TypeOK, Call
  <2>5. [NoJob EXCEPT !.at = "prune", !.call = k, !.chans = k.chans,
                      !.seen = row'.migrated] \in Job
    BY <2>3, <2>4 DEF NoJob, Job
  <2>6. job' \in [Processes -> Job]
    BY <2>1, <2>5, ToType
  <2> QED BY <1>2, <2>1, <2>2, <2>3, <2>6 DEF ActivatePresence, TypeOK, cacheVars, discordVars
<1>3. CASE PruneStaleChannels(x)
  <2>1. rows \ job[x].chans \in SUBSET Channels
    BY DEF TypeOK
  <2>2. ASSUME With(x, "unkey", rows \ job[x].chans) PROVE job' \in [Processes -> Job]
    BY <2>1, <2>2, WithType
  <2>3. ASSUME Onto(x, "read") PROVE job' \in [Processes -> Job]
    BY <1>1, <2>3, WithType
  <2>4. ASSUME To(x, NoJob) PROVE job' \in [Processes -> Job]
    BY <2>4, ToType, NoJobType
  <2>5. job' \in [Processes -> Job]
    BY <1>3, <2>2, <2>3, <2>4 DEF PruneStaleChannels, AfterPrune, Done
  <2> QED BY <1>3, <2>5 DEF PruneStaleChannels, TypeOK, cacheVars, discordVars, botVars
<1>4. CASE UnkeyPruned(x)
  <2>1. job' \in [Processes -> Job]
    BY <1>1, <1>4, WithType, ToType, NoJobType DEF UnkeyPruned, AfterPrune, Done, TypeOK
  <2> QED BY <1>4, <2>1 DEF UnkeyPruned, TypeOK, discordVars, botVars
<1>5. CASE ReadServing(x)
  <2>1. job' \in [Processes -> Job]
    BY <1>5, WithType DEF ReadServing, TypeOK
  <2> QED BY <1>5, <2>1 DEF ReadServing, TypeOK, cacheVars, discordVars, botVars
<1>6. CASE SetEntries(x)
  <2>1. job' \in [Processes -> Job]
    BY <1>1, <1>6, WithType DEF SetEntries
  <2> QED BY <1>1, <1>6, <2>1 DEF SetEntries, TypeOK, discordVars, botVars
<1>7. CASE SetMarker(x)
  <2>1. job' \in [Processes -> Job]
    BY <1>7, ToType, NoJobType DEF SetMarker, Done
  <2> QED BY <1>7, <2>1 DEF SetMarker, TypeOK, discordVars, botVars
<1>8. CASE RestorePresence(x)
  <2>1. job' \in [Processes -> Job]
    BY <1>8, ToType, NoJobType DEF RestorePresence, Done
  <2>2. row' \in Row
    BY <1>8, RowTypes, NewRowType DEF RestorePresence
  <2>3. row'.known
    BY <1>8 DEF RestorePresence, NewRow, TypeOK, Row
  <2> QED BY <1>8, <2>1, <2>2, <2>3 DEF RestorePresence, TypeOK, cacheVars, discordVars, botVars
<1>9. CASE CommitMigration(x)
  <2>1. job' \in [Processes -> Job]
    BY <1>1, <1>9, WithType DEF CommitMigration
  <2>2. row' \in Row
    BY <1>9, RowTypes, NewRowType DEF CommitMigration
  <2>3. row'.known
    BY <1>9 DEF CommitMigration, NewRow, TypeOK, Row
  <2> QED BY <1>1, <1>9, <2>1, <2>2, <2>3
      DEF CommitMigration, TypeOK, cacheVars, discordVars, botVars
<1>10. CASE CheckMembership(x)
  <2>1. [NoJob EXCEPT !.at = "restore"] \in Job
    BY NoJobType DEF Job
  <2>2. job' \in [Processes -> Job]
    BY <1>10, <2>1, ToType DEF CheckMembership
  <2> QED BY <1>10, <2>2 DEF CheckMembership, TypeOK, cacheVars, discordVars, botVars
<1>11. ASSUME NEW chosen \in SUBSET live, Migrate(x, chosen) PROVE TypeOK'
  <2>1. [NoJob EXCEPT !.at = "commit", !.chans = chosen] \in Job
    BY NoJobType DEF Job, TypeOK
  <2>2. job' \in [Processes -> Job]
    BY <1>11, <2>1, ToType DEF Migrate
  <2> QED BY <1>11, <2>2 DEF Migrate, TypeOK, cacheVars, discordVars, botVars
<1> QED BY <1>2, <1>3, <1>4, <1>5, <1>6, <1>7, <1>8, <1>9, <1>10, <1>11
    DEF HandlerStep, SyncStep

LEMMA NightTypes ==
  ASSUME TypeOK, StartNight \/ NightStep
  PROVE  TypeOK'
<1> Night \in Processes
  BY DEF Processes
<1>1. job[Night].call \in Call /\ job[Night].chans \in SUBSET Channels /\ job[Night] \in Job
  BY JobCallType DEF TypeOK
<1>2. CASE StartNight
  <2>1. [NoJob EXCEPT !.at = "fetch"] \in Job
    BY NoJobType DEF Job
  <2>2. job' \in [Processes -> Job]
    BY <1>2, <2>1, ToType DEF StartNight
  <2>3. row' \in Row
    BY <1>2, RowTypes DEF StartNight
  <2>4. ~row'.known => row' = NoRow /\ rows = {}
    <3>1. ASSUME ~row'.known PROVE row = NoRow /\ rows = {}
      BY <1>2, <3>1 DEF StartNight, TypeOK, Row
    <3>2. ASSUME row = NoRow PROVE row' = NoRow
      <4>1. NoRow.left = 0 /\ 0 \notin 1..PurgeDays
        BY PresenceConstants DEF NoRow
      <4>2. row' = [NoRow EXCEPT !.fresh = FALSE, !.left = 0]
        BY <1>2, <3>2, <4>1 DEF StartNight, NoRow
      <4> QED BY <4>2 DEF NoRow
    <3> QED BY <3>1, <3>2
  <2> QED BY <1>2, <2>2, <2>3, <2>4 DEF StartNight, TypeOK, cacheVars, discordVars, botVars
<1>3. CASE FetchLive
  <2>1. [job[Night] EXCEPT !.at = "rows", !.seen = member] \in Job
    BY <1>1 DEF Job, TypeOK
  <2>2. job' \in [Processes -> Job]
    BY <1>3, <2>1, ToType DEF FetchLive
  <2> QED BY <1>3, <2>2 DEF FetchLive, TypeOK, cacheVars, discordVars, botVars
<1>4. CASE SweepRows
  <2>1. job' \in [Processes -> Job]
    BY <1>1, <1>4, WithType DEF SweepRows
  <2> QED BY <1>4, <2>1 DEF SweepRows, TypeOK, cacheVars, discordVars, botVars
<1>5. CASE SweepInsert
  <2>1. job' \in [Processes -> Job]
    BY <1>1, <1>5, WithType DEF SweepInsert
  <2>2. row' \in Row
    BY <1>5, NewRowType DEF SweepInsert, TypeOK
  <2>3. row'.known
    BY <1>5 DEF SweepInsert, NewRow
  <2> QED BY <1>5, <2>1, <2>2, <2>3 DEF SweepInsert, TypeOK, cacheVars, discordVars, botVars
<1>6. CASE SweepRestore
  <2>1. job' \in [Processes -> Job]
    BY <1>1, <1>6, WithType DEF SweepRestore
  <2>2. row' \in Row
    BY <1>6, RowTypes DEF SweepRestore
  <2>3. ASSUME ~row'.known PROVE row' = NoRow /\ rows = {}
    <3>1. row = NoRow /\ rows = {}
      BY <1>6, <2>3 DEF SweepRestore, TypeOK, Row
    <3>2. row' = [NoRow EXCEPT !.left = 0]
      BY <1>6, <3>1 DEF SweepRestore
    <3> QED BY <3>1, <3>2 DEF NoRow
  <2> QED BY <1>6, <2>1, <2>2, <2>3 DEF SweepRestore, TypeOK, cacheVars, discordVars, botVars
<1>7. CASE SweepSoftDelete
  <2>1. job' \in [Processes -> Job]
    BY <1>1, <1>7, WithType DEF SweepSoftDelete
  <2>2. row' \in Row
    BY <1>7, RowTypes DEF SweepSoftDelete, TypeOK
  <2>3. ~row'.known => row' = NoRow /\ rows = {}
    BY <1>7 DEF SweepSoftDelete, TypeOK, Row, Present
  <2> QED BY <1>7, <2>1, <2>2, <2>3 DEF SweepSoftDelete, TypeOK, cacheVars, discordVars, botVars
<1>8. CASE ListAbandoned
  <2>1. job' \in [Processes -> Job]
    BY <1>1, <1>8, WithType, ToType, NoJobType DEF ListAbandoned, Done
  <2> QED BY <1>8, <2>1 DEF ListAbandoned, TypeOK, cacheVars, discordVars, botVars
<1>9. CASE ReadChannels
  <2>1. job' \in [Processes -> Job]
    BY <1>9, WithType DEF ReadChannels, TypeOK
  <2> QED BY <1>9, <2>1 DEF ReadChannels, TypeOK, cacheVars, discordVars, botVars
<1>10. CASE Purge
  <2>1. job' \in [Processes -> Job]
    BY <1>1, <1>10, WithType, ToType, NoJobType DEF Purge, Done
  <2> QED BY <1>10, <2>1, NoRowType DEF Purge, TypeOK, cacheVars, discordVars, botVars
<1>11. CASE PurgeKeys
  <2>1. job' \in [Processes -> Job]
    BY <1>1, <1>11, WithType DEF PurgeKeys
  <2> QED BY <1>11, <2>1 DEF PurgeKeys, TypeOK, discordVars, botVars
<1>12. CASE Unmark
  <2>1. job' \in [Processes -> Job]
    BY <1>12, ToType, NoJobType DEF Unmark, Done
  <2>2. row.migrated \in BOOLEAN
    BY DEF TypeOK, Row
  <2> QED BY <1>12, <2>1, <2>2 DEF Unmark, TypeOK, discordVars, botVars
<1> QED BY <1>2, <1>3, <1>4, <1>5, <1>6, <1>7, <1>8, <1>9, <1>10, <1>11, <1>12 DEF NightStep

LEMMA FaultTypes ==
  ASSUME TypeOK, BackendRestarts \/ \E x \in Processes : Fail(x)
  PROVE  TypeOK'
<1>1. ASSUME NEW what \in {"lost", "crashes"}, Fault(what)
      PROVE  spent' \in [joins : Nat, lost : Nat, outages : Nat, crashes : Nat]
  BY <1>1 DEF Fault, Count, TypeOK
<1>2. CASE BackendRestarts
  <2>1. job' \in [Processes -> Job]
    BY <1>2, NoJobType DEF BackendRestarts
  <2>2. calls' \subseteq Call
    <3>1. \A y \in Handlers : job[y].call \in Call
      BY JobCallType DEF Processes
    <3> QED BY <1>2, <3>1 DEF BackendRestarts, TypeOK
  <2>3. marker' \in BOOLEAN
    <3>1. row.migrated \in BOOLEAN
      BY DEF TypeOK, Row
    <3> QED BY <1>2, <3>1 DEF BackendRestarts
  <2>4. spent' \in [joins : Nat, lost : Nat, outages : Nat, crashes : Nat]
    BY <1>1, <1>2 DEF BackendRestarts
  <2> QED BY <1>2, <2>1, <2>2, <2>3, <2>4 DEF BackendRestarts, TypeOK, discordVars
<1>3. ASSUME NEW x \in Processes, Fail(x) PROVE TypeOK'
  <2>1. job[x].call \in Call /\ job[x].chans \in SUBSET Channels
    BY JobCallType
  <2>2. job' \in [Processes -> Job]
    BY <1>3, <2>1, WithType, ToType, NoJobType DEF Fail, Done
  <2>3. calls' \subseteq Call
    BY <1>3, <2>1 DEF Fail, TypeOK
  <2>4. spent' \in [joins : Nat, lost : Nat, outages : Nat, crashes : Nat]
    BY <1>1, <1>3 DEF Fail
  <2> QED BY <1>3, <2>2, <2>3, <2>4 DEF Fail, TypeOK, cacheVars, discordVars
<1> QED BY <1>2, <1>3

----------------------------------------------------------------------------
(* Every reachable state is well typed, and channel rows hang on the guild   *)
(* row, whatever meets.                                                     *)
THEOREM PresenceTypeCorrect == Spec => []TypeOK
<1>1. Init => TypeOK
  <2> SUFFICES ASSUME Init PROVE TypeOK
    OBVIOUS
  <2>1. row \in Row /\ (~row.known => row = NoRow /\ rows = {})
    BY NoRowType, NewRowType DEF Init, NewRow, Row
  <2>2. job \in [Processes -> Job]
    BY NoJobType DEF Init
  <2> QED BY <2>1, <2>2 DEF Init, TypeOK
<1>2. TypeOK /\ [Next]_vars => TypeOK'
  <2> SUFFICES ASSUME TypeOK, [Next]_vars PROVE TypeOK'
    OBVIOUS
  <2>1. CASE UNCHANGED vars
    BY <2>1 DEF vars, discordVars, botVars, cacheVars, TypeOK
  <2> QED BY <2>1, DiscordTypes, RequestTypes, HandlerTypes, NightTypes, FaultTypes
      DEF Next, Deliver
<1> QED BY <1>1, <1>2, PTL DEF Spec

----------------------------------------------------------------------------
(* A registration, on its way or in a handler's hands, lists every channel   *)
(* that lives and was there from the beginning: such channels only ever go.  *)
Lists(chans) == live \ Created \subseteq chans
SentLists    == \A k \in calls : k.op = "new" => Lists(k.chans)
HeldLists    == \A x \in Processes : job[x].call.op = "new" => Lists(job[x].call.chans)
PruneLists   == \A x \in Handlers : At(x, "prune") => Lists(job[x].chans)
SetupInv     == SentLists /\ HeldLists /\ PruneLists
(* A call on its way or in hands lists them: what is added to calls.         *)
LEMMA SetupStep ==
  ASSUME TypeOK, SetupInv, [Next]_vars
  PROVE  /\ SetupInv'
         /\ \A c \in ((rows \ rows') \cap live') \ Created : Abandoned
<1> USE DEF SetupInv, SentLists, HeldLists, PruneLists, Lists, At
<1>0. /\ \A x \in Processes : job[x] \in Job
      /\ \A x \in Handlers : x \in Processes /\ x # Night
      /\ DOMAIN job = Processes /\ Night \in Processes
  BY PresenceConstants DEF TypeOK, Processes
<1> DEFINE Safe == \A c \in ((rows \ rows') \cap live') \ Created : Abandoned
           Keeps == live' \ Created \subseteq live \ Created
<1>1. ASSUME Keeps, UNCHANGED job, calls' \subseteq calls, rows \subseteq rows' \/ rows' = rows
      PROVE  SetupInv' /\ Safe
  BY <1>1
<1>2. CASE Join
  BY <1>2 DEF Join, Register
<1>3. CASE Kick
  BY <1>3 DEF Kick
<1>4. CASE OutageBegins
  BY <1>1, <1>4 DEF OutageBegins, botVars
<1>5. CASE OutageEnds
  BY <1>5 DEF OutageEnds, botVars
<1>6. CASE CallLost
  BY <1>1, <1>6 DEF CallLost, discordVars
<1>7. CASE BotRestarts
  BY <1>1, <1>7 DEF BotRestarts, discordVars
<1>8. CASE SoftDelete
  BY <1>1, <1>8 DEF SoftDelete, discordVars
<1>9. ASSUME NEW c \in Channels, ChannelCreated(c) PROVE SetupInv' /\ Safe
  BY <1>1, <1>9 DEF ChannelCreated, botVars
<1>10. ASSUME NEW c \in Channels, ChannelDeleted(c) PROVE SetupInv' /\ Safe
  BY <1>10 DEF ChannelDeleted, botVars
<1>11. ASSUME NEW c \in Channels, Enable(c) PROVE SetupInv' /\ Safe
  BY <1>1, <1>11 DEF Enable, discordVars, botVars
<1>12. CASE UNCHANGED vars
  BY <1>1, <1>12 DEF vars, discordVars, botVars
(* A process goes on: its call stays, or it has none.                        *)
<1>13. ASSUME NEW x \in Processes, NEW j, To(x, j),
              j.call = job[x].call \/ j.call = NoCall, x # Night => j.at # "prune",
              Keeps, calls' = calls
       PROVE  SetupInv'
  <2>1. \A y \in Processes : job'[y] = IF y = x THEN j ELSE job[y]
    BY <1>0, <1>13 DEF To
  <2>2. SentLists'
    BY <1>13
  <2>3. HeldLists'
    BY <1>0, <1>13, <2>1 DEF NoCall
  <2>4. PruneLists'
    BY <1>0, <1>13, <2>1
  <2> QED BY <2>2, <2>3, <2>4
<1>14. ASSUME NEW x \in Processes, NEW at, NEW chans,
              With(x, at, chans) \/ Goto(x, at) \/ Onto(x, at), at # "prune",
              Keeps, calls' = calls
       PROVE  SetupInv'
  <2> DEFINE j == [job[x] EXCEPT !.at = at, !.chans = chans]
             k == [job[x] EXCEPT !.at = at]
             o == [NoJob EXCEPT !.at = at, !.call = job[x].call]
  <2>1. /\ j.call = job[x].call /\ k.call = job[x].call /\ o.call = job[x].call
        /\ j.at = at /\ k.at = at /\ o.at = at
    BY <1>0 DEF Job, NoJob
  <2>2. ASSUME With(x, at, chans) PROVE SetupInv'
    <3>1. To(x, j)
      BY <2>2 DEF With
    <3> HIDE DEF j
    <3> QED BY <1>13, <1>14, <2>1, <3>1
  <2>3. ASSUME Goto(x, at) PROVE SetupInv'
    <3>1. To(x, k)
      BY <2>3 DEF Goto
    <3> HIDE DEF k
    <3> QED BY <1>13, <1>14, <2>1, <3>1
  <2>4. ASSUME Onto(x, at) PROVE SetupInv'
    <3>1. To(x, o)
      BY <2>4 DEF Onto
    <3> HIDE DEF o
    <3> QED BY <1>13, <1>14, <2>1, <3>1
  <2> QED BY <1>14, <2>2, <2>3, <2>4
<1>15. ASSUME NEW x \in Processes, Done(x), Keeps, calls' = calls PROVE SetupInv'
  <2>1. To(x, NoJob) /\ NoJob.call = NoCall /\ NoJob.at # "prune"
    BY <1>15 DEF Done, NoJob
  <2> HIDE DEF SetupInv
  <2> QED BY <1>13, <1>15, <2>1
<1>16. UNCHANGED discordVars => Keeps
  BY DEF discordVars
<1>17. ASSUME NEW x \in Handlers, ActivatePresence(x) PROVE SetupInv' /\ Safe
  <2>1. PICK k \in calls :
          /\ k.op = "new" /\ calls' = calls \ {k}
          /\ To(x, [NoJob EXCEPT !.at = "prune", !.call = k, !.chans = k.chans,
                                 !.seen = row'.migrated])
    BY <1>17 DEF ActivatePresence
  <2>2. /\ \A y \in Processes \ {x} : job'[y] = job[y]
        /\ job'[x].call = k /\ job'[x].chans = k.chans
    BY <1>0, <2>1 DEF To, NoJob
  <2>3. Keeps /\ rows' = rows /\ Lists(k.chans)
    BY <1>16, <1>17, <2>1 DEF ActivatePresence
  <2>4. Lists(k.chans)'
    BY <2>3
  <2>5. SentLists'
    BY <2>1, <2>3
  <2>6. HeldLists'
    BY <2>2, <2>3, <2>4
  <2>7. PruneLists'
    BY <1>0, <2>2, <2>3, <2>4
  <2> QED BY <2>3, <2>5, <2>6, <2>7
<1>18. ASSUME NEW x \in Handlers, PruneStaleChannels(x) PROVE SetupInv' /\ Safe
  <2>1. Safe
    BY <1>18 DEF PruneStaleChannels, discordVars
  <2>2. Keeps /\ calls' = calls
    BY <1>16, <1>18 DEF PruneStaleChannels, botVars
  <2>3. \/ With(x, "unkey", rows \ job[x].chans) \/ Onto(x, "read") \/ Done(x)
    BY <1>18 DEF PruneStaleChannels, AfterPrune
  <2> QED BY <1>0, <1>14, <1>15, <2>1, <2>2, <2>3
<1>19. ASSUME NEW x \in Handlers,
              UnkeyPruned(x) \/ SyncStep(x) \/ RestorePresence(x) \/ CommitMigration(x)
       PROVE  SetupInv' /\ Safe
  <2>1. Keeps /\ calls' = calls /\ rows \subseteq rows'
    BY <1>16, <1>19
    DEF UnkeyPruned, SyncStep, ReadServing, SetEntries, SetMarker, RestorePresence,
        CommitMigration, botVars
  <2>2. \/ With(x, IF rows = {} THEN "mark" ELSE "key", rows)
        \/ Onto(x, "read") \/ Onto(x, "mark") \/ Done(x)
    BY <1>19 DEF UnkeyPruned, AfterPrune, SyncStep, ReadServing, SetEntries, SetMarker,
                 RestorePresence, CommitMigration
  <2> QED BY <1>0, <1>14, <1>15, <2>1, <2>2
<1>20. ASSUME NEW x \in Handlers,
              CheckMembership(x) \/ \E chosen \in SUBSET live : Migrate(x, chosen)
       PROVE  SetupInv' /\ Safe
  <2>1. Keeps /\ calls' = calls /\ rows' = rows
    BY <1>16, <1>20 DEF CheckMembership, Migrate, botVars
  <2> DEFINE j == [NoJob EXCEPT !.at = "restore"]
             k(chosen) == [NoJob EXCEPT !.at = "commit", !.chans = chosen]
  <2>2. /\ j.call = NoCall /\ j.at # "prune"
        /\ \A chosen : k(chosen).call = NoCall /\ k(chosen).at # "prune"
    BY DEF NoJob
  <2>3. To(x, j) \/ \E chosen : To(x, k(chosen))
    BY <1>20 DEF CheckMembership, Migrate
  <2> HIDE DEF j, k
  <2>4. SetupInv'
    BY <1>0, <1>13, <2>1, <2>2, <2>3
  <2> QED BY <2>1, <2>4
<1>21. CASE StartNight
  <2>1. Keeps /\ calls' = calls /\ rows' = rows
    BY <1>16, <1>21 DEF StartNight, botVars
  <2> DEFINE j == [NoJob EXCEPT !.at = "fetch"]
  <2>2. To(Night, j) /\ j.call = NoCall
    BY <1>21 DEF StartNight, NoJob
  <2> HIDE DEF j
  <2>3. SetupInv'
    BY <1>0, <1>13, <2>1, <2>2
  <2> QED BY <2>1, <2>3
<1>22. CASE NightStep
  <2>1. Keeps /\ calls' = calls
    BY <1>16, <1>22
    DEF NightStep, FetchLive, SweepRows, SweepInsert, SweepRestore, SweepSoftDelete,
        ListAbandoned, ReadChannels, Purge, PurgeKeys, Unmark, botVars
  <2>2. Safe
    BY <1>22
    DEF NightStep, FetchLive, SweepRows, SweepInsert, SweepRestore, SweepSoftDelete,
        ListAbandoned, ReadChannels, Purge, PurgeKeys, Unmark
  <2>3. \/ \E at, chans : Goto(Night, at) \/ With(Night, at, chans) \/ Onto(Night, at)
        \/ Done(Night)
        \/ To(Night, [job[Night] EXCEPT !.at = "rows", !.seen = member])
    BY <1>22
    DEF NightStep, FetchLive, SweepRows, SweepInsert, SweepRestore, SweepSoftDelete,
        ListAbandoned, ReadChannels, Purge, PurgeKeys, Unmark
  <2>4. ASSUME NEW at, NEW chans
        PROVE  /\ [job[Night] EXCEPT !.at = at, !.chans = chans].call = job[Night].call
               /\ [job[Night] EXCEPT !.at = at].call = job[Night].call
               /\ [NoJob EXCEPT !.at = at, !.call = job[Night].call].call = job[Night].call
               /\ [job[Night] EXCEPT !.at = "rows", !.seen = member].call = job[Night].call
               /\ NoJob.call = NoCall
    BY <1>0 DEF NoJob, Job
  <2>5. SetupInv'
    BY <1>0, <1>13, <2>1, <2>3, <2>4 DEF Goto, With, Onto, Done
  <2> QED BY <2>2, <2>5
<1>23. CASE BackendRestarts
  <2>1. Keeps /\ rows' = rows /\ NoJob.call.op # "new" /\ NoJob.at # "prune"
    BY <1>16, <1>23 DEF BackendRestarts, NoJob, NoCall
  <2>2. \A x \in Processes : job'[x] = NoJob
    BY <1>0, <1>23 DEF BackendRestarts
  <2>3. SentLists'
    BY <1>0, <1>23, <2>1 DEF BackendRestarts
  <2>4. HeldLists' /\ PruneLists'
    BY <1>0, <2>1, <2>2
  <2> QED BY <2>1, <2>3, <2>4
<1>24. ASSUME NEW x \in Processes, Fail(x) PROVE SetupInv' /\ Safe
  <2>1. Keeps /\ rows' = rows
    BY <1>16, <1>24 DEF Fail
  <2>2. \E j : To(x, j) /\ (j.call = job[x].call \/ j.call = NoCall) /\ j.at # "prune"
    <3> DEFINE o == [NoJob EXCEPT !.at = "abandoned", !.call = job[x].call]
    <3>1. o.call = job[x].call /\ o.at # "prune" /\ NoJob.call = NoCall /\ NoJob.at # "prune"
      BY DEF NoJob
    <3>2. To(x, o) \/ To(x, NoJob)
      BY <1>24 DEF Fail, Onto, Done
    <3> HIDE DEF o
    <3> QED BY <3>1, <3>2
  <2>3. calls' \subseteq calls \cup {job[x].call}
    BY <1>24 DEF Fail
  <2>4. PICK j : To(x, j) /\ (j.call = job[x].call \/ j.call = NoCall) /\ j.at # "prune"
    BY <2>2
  <2>5. \A y \in Processes : job'[y] = IF y = x THEN j ELSE job[y]
    BY <1>0, <2>4 DEF To
  <2>6. SentLists'
    BY <2>1, <2>3
  <2>7. HeldLists' /\ PruneLists'
    BY <1>0, <2>1, <2>4, <2>5 DEF NoCall
  <2> QED BY <2>1, <2>6, <2>7
<1> HIDE DEF SetupInv, Safe, Keeps
<1>25. ASSUME NEW x \in Handlers, \/ HandlerStep(x) \/ CheckMembership(x)
                                   \/ \E chosen \in SUBSET live : Migrate(x, chosen)
       PROVE  SetupInv' /\ Safe
  BY <1>18, <1>19, <1>20, <1>25 DEF HandlerStep
<1>26. CASE Deliver
  BY <1>8, <1>17, <1>26 DEF Deliver, Safe
<1>27. SetupInv' /\ Safe
  BY <1>2, <1>3, <1>4, <1>5, <1>6, <1>7, <1>9, <1>10, <1>11, <1>12, <1>21, <1>22, <1>23,
     <1>24, <1>25, <1>26
  DEF Next, Safe
<1> QED BY <1>27 DEF Safe

----------------------------------------------------------------------------
(* The setup of a channel that was there from the beginning and still lives  *)
(* goes only with an abandoned guild: guilds.ts's purge and prune, whatever   *)
(* the nightly job, the dashboard, retries, outages and restarts do.        *)
THEOREM SetupSurvives == Spec => ConfigSurvives
<1>1. Init => SetupInv
  BY DEF Init, SetupInv, SentLists, HeldLists, PruneLists, At, NoJob, NoCall, Processes
<1>2. TypeOK /\ SetupInv /\ [Next]_vars =>
        SetupInv' /\ [\A c \in ((rows \ rows') \cap live') \ Created : Abandoned]_vars
  BY SetupStep
<1> QED BY <1>1, <1>2, PresenceTypeCorrect, PTL DEF Spec, ConfigSurvives

----------------------------------------------------------------------------
(* A handler that registers, migrates or syncs works on a guild whose row is *)
(* there, and is not abandoned: a purge and such a handler exclude each other.*)
Registers(j) == j.at \in {"prune", "unkey"}
Syncs(j)     == j.at \in {"read", "key", "mark"}
OnRow(j)     == Registers(j) \/ Syncs(j) \/ j.at = "commit"
OnMigrated(j) == Syncs(j) \/ (Registers(j) /\ j.seen)
RowStays == \A x \in Handlers :
  /\ OnRow(job[x]) => row.known /\ ~Abandoned
  /\ OnMigrated(job[x]) => row.migrated

(* A serving channel is on the allowlist, or is owed to it, or a handler that *)
(* will read it or has read it is about to put it there.                     *)
Puts(j, c) == j.at = "read" \/ (j.at = "key" /\ c \in j.chans)
Keyed == \A c \in rows \ owed : c \in keys \/ \E x \in Handlers : Puts(job[x], c)

(* A migrated guild has the marker, or a handler is about to set it; and only *)
(* a migrated guild has it, or one whose purge will take it.                 *)
Marked   == marker /\ ~awry => row.migrated \/ Cleaning
WillMark == row.migrated /\ ~awry => marker \/ \E x \in Handlers : OnMigrated(job[x])

EntriesInv == RowStays /\ Keyed /\ Marked /\ WillMark

LEMMA RowFacts ==
  ASSUME TypeOK
  PROVE  /\ \A x \in Processes : job[x] \in Job
         /\ \A x \in Handlers : x \in Processes /\ x # Night
         /\ DOMAIN job = Processes /\ Night \in Processes
         /\ row \in Row /\ PurgeDays \in Nat /\ PurgeDays # 0
         /\ row.left \in Nat /\ row.known \in BOOLEAN /\ row.migrated \in BOOLEAN
         /\ row.migrated => row.known
         /\ NewRow(TRUE).known /\ NewRow(TRUE).migrated /\ NewRow(TRUE).left = 0
         /\ NewRow(FALSE).known /\ NewRow(FALSE).left = 0
         /\ ~NoRow.known /\ ~NoRow.migrated /\ NoRow.left = 0
BY PresenceConstants DEF TypeOK, Processes, Row, NewRow, NoRow

(* What Discord, the bot and requests that work on no job change.            *)
LEMMA JobsRest ==
  ASSUME TypeOK, EntriesInv, UNCHANGED job,
         row'.known = row.known, row'.migrated = row.migrated, Abandoned' => Abandoned,
         UNCHANGED <<marker, awry>>,
         \A c \in rows' \ owed' : c \in keys' \/ (c \in rows \ owed /\ c \notin keys)
  PROVE  EntriesInv'
<1>1. RowStays'
  BY DEF EntriesInv, RowStays, OnRow, OnMigrated, Registers, Syncs
<1>2. Keyed'
  BY DEF EntriesInv, Keyed
<1>3. Marked' /\ WillMark'
  BY DEF EntriesInv, Marked, WillMark, Cleaning, At
<1> QED BY <1>1, <1>2, <1>3 DEF EntriesInv

(* What a handler's next step may change.                                    *)
LEMMA HandlerMoves ==
  ASSUME TypeOK, EntriesInv, NEW x \in Handlers, NEW j, To(x, j),
         OnRow(j) => row'.known /\ ~Abandoned',
         OnMigrated(j) => row'.migrated,
         row.known => row'.known /\ (Abandoned' => Abandoned),
         row.migrated => row'.migrated,
         marker' /\ ~awry' => row'.migrated \/ (marker /\ ~awry),
         row'.migrated /\ ~awry' =>
           \/ marker' \/ OnMigrated(j)
           \/ row.migrated /\ ~awry /\ ~marker /\ ~OnMigrated(job[x]),
         \A c \in rows' \ owed' :
           c \in keys' \/ Puts(j, c) \/ (c \in rows \ owed /\ c \notin keys /\ ~Puts(job[x], c))
  PROVE  EntriesInv'
<1>0. Handlers \subseteq Processes /\ x # Night /\ Night \in Processes
  BY RowFacts
<1>1. \A y \in Processes : job'[y] = IF y = x THEN j ELSE job[y]
  BY DEF To, TypeOK
<1>2. RowStays'
  BY <1>0, <1>1 DEF EntriesInv, RowStays, OnRow, OnMigrated, Registers, Syncs
<1>3. Cleaning' = Cleaning
  BY <1>0, <1>1 DEF Cleaning, At
<1>4. Keyed'
  <2> SUFFICES ASSUME NEW c \in rows' \ owed', c \notin keys', ~Puts(j, c)
               PROVE  \E y \in Handlers : Puts(job'[y], c)
    BY <1>0, <1>1 DEF Keyed, Puts
  <2>1. PICK y \in Handlers : Puts(job[y], c)
    BY DEF EntriesInv, Keyed
  <2>2. job'[y] = job[y]
    BY <1>0, <1>1, <2>1
  <2> QED BY <2>1, <2>2
<1>5. Marked'
  BY <1>3 DEF EntriesInv, Marked
<1>6. WillMark'
  <2> SUFFICES ASSUME row'.migrated, ~awry', ~marker', ~OnMigrated(j)
               PROVE  \E y \in Handlers : OnMigrated(job'[y])
    BY <1>0, <1>1 DEF WillMark, OnMigrated, Registers, Syncs
  <2>1. PICK y \in Handlers : OnMigrated(job[y])
    BY DEF EntriesInv, WillMark
  <2>2. job'[y] = job[y]
    BY <1>0, <1>1, <2>1
  <2> QED BY <2>1, <2>2
<1> QED BY <1>2, <1>4, <1>5, <1>6 DEF EntriesInv

(* What a step of the nightly job may change.                                *)
LEMMA NightMoves ==
  ASSUME TypeOK, EntriesInv, NEW j, To(Night, j),
         \/ Idle
         \/ row.known => row'.known /\ (Abandoned' => Abandoned)
         \/ Abandoned,
         row.migrated => row'.migrated \/ Abandoned,
         row'.migrated => row.migrated,
         marker' /\ ~awry' =>
           \/ row'.migrated \/ j.at \in {"purgekeys", "unmark"}
           \/ (~row.migrated /\ ~Cleaning /\ marker /\ ~awry),
         row'.migrated /\ ~awry' => ~awry /\ marker' = marker,
         \A c \in rows' \ owed' : c \in keys' \/ (c \in rows \ owed /\ c \notin keys)
  PROVE  EntriesInv'
<1>0. Handlers \subseteq Processes /\ Night \notin Handlers /\ Night \in Processes
  BY RowFacts
<1>1. \A y \in Processes : job'[y] = IF y = Night THEN j ELSE job[y]
  BY DEF To, TypeOK
<1>2. (\A x \in Handlers : job'[x] = job[x]) /\ job'[Night] = j
  BY <1>0, <1>1
<1>3. RowStays'
  <2> SUFFICES ASSUME NEW x \in Handlers
               PROVE  /\ OnRow(job[x]) => row'.known /\ ~Abandoned'
                      /\ OnMigrated(job[x]) => row'.migrated
    BY <1>2 DEF RowStays
  <2>1. Idle => ~OnRow(job[x])
    BY DEF Idle, At, OnRow, Registers, Syncs
  <2>2. OnMigrated(job[x]) => OnRow(job[x])
    BY DEF OnMigrated, OnRow
  <2>3. /\ OnRow(job[x]) => row.known /\ ~Abandoned
        /\ OnMigrated(job[x]) => row.migrated
    BY DEF EntriesInv, RowStays
  <2> QED BY <2>1, <2>2, <2>3
<1>4. Keyed'
  BY <1>2 DEF EntriesInv, Keyed
<1>5. Marked'
  BY <1>2 DEF EntriesInv, Marked, Cleaning, At
<1>6. WillMark'
  BY <1>2 DEF EntriesInv, WillMark
<1> QED BY <1>3, <1>4, <1>5, <1>6 DEF EntriesInv

----------------------------------------------------------------------------
(* Discord, the bot, and requests of one step.                               *)
LEMMA OutsideEntries ==
  ASSUME TypeOK, EntriesInv,
         \/ Join \/ Kick \/ OutageBegins \/ OutageEnds \/ CallLost \/ BotRestarts \/ SoftDelete
         \/ \E c \in Channels : ChannelCreated(c) \/ ChannelDeleted(c)
         \/ UNCHANGED vars
  PROVE  EntriesInv'
<1>1. CASE Join
  BY <1>1, JobsRest DEF Join, cacheVars, Abandoned
<1>2. CASE Kick
  BY <1>2, JobsRest DEF Kick, cacheVars, Abandoned
<1>3. CASE OutageBegins
  BY <1>3, JobsRest DEF OutageBegins, cacheVars, Abandoned
<1>4. CASE OutageEnds
  BY <1>4, JobsRest DEF OutageEnds, cacheVars, Abandoned
<1>5. CASE CallLost
  BY <1>5, JobsRest DEF CallLost, cacheVars, Abandoned
<1>6. CASE BotRestarts
  BY <1>6, JobsRest DEF BotRestarts, cacheVars, Abandoned
<1>7. CASE SoftDelete
  <2>1. /\ row'.known = row.known /\ row'.migrated = row.migrated
        /\ row'.left > PurgeDays => row.left > PurgeDays
    BY <1>7, RowFacts DEF SoftDelete, Row
  <2>2. UNCHANGED <<rows, marker, keys, owed, awry, job>>
    BY <1>7 DEF SoftDelete, cacheVars
  <2> QED BY <2>1, <2>2, JobsRest DEF Abandoned
<1>8. ASSUME NEW c \in Channels, ChannelCreated(c) PROVE EntriesInv'
  BY <1>8, JobsRest DEF ChannelCreated, cacheVars, Abandoned
<1>9. ASSUME NEW c \in Channels, ChannelDeleted(c) PROVE EntriesInv'
  BY <1>9, JobsRest DEF ChannelDeleted, Abandoned
<1>10. CASE UNCHANGED vars
  BY <1>10, JobsRest DEF vars, cacheVars, Abandoned
<1> QED BY <1>1, <1>2, <1>3, <1>4, <1>5, <1>6, <1>7, <1>8, <1>9, <1>10

LEMMA EnableEntries ==
  ASSUME TypeOK, EntriesInv, NEW c \in Channels, Enable(c)
  PROVE  EntriesInv'
<1>1. row'.known /\ row'.migrated /\ (row.known => row'.left = row.left)
  BY RowFacts DEF Enable, Row
<1>2. /\ UNCHANGED job /\ marker' = TRUE /\ awry' = FALSE
      /\ rows' = rows \cup {c} /\ keys' = keys \cup {c} /\ owed' = owed \ {c}
  BY DEF Enable
<1>3. RowStays'
  BY <1>1, <1>2 DEF EntriesInv, RowStays, OnRow, OnMigrated, Registers, Syncs, Abandoned
<1>4. Keyed'
  BY <1>2 DEF EntriesInv, Keyed
<1>5. Marked' /\ WillMark'
  BY <1>1, <1>2 DEF Marked, WillMark
<1> QED BY <1>3, <1>4, <1>5 DEF EntriesInv

(* A handler's steps: registering, and what follows for a migrated guild.    *)
LEMMA RegisterEntries ==
  ASSUME TypeOK, EntriesInv, NEW x \in Handlers,
         ActivatePresence(x) \/ PruneStaleChannels(x) \/ UnkeyPruned(x)
  PROVE  EntriesInv'
<1>0. /\ OnRow(job[x]) => row.known /\ ~Abandoned
      /\ OnMigrated(job[x]) => row.migrated
  BY DEF EntriesInv, RowStays
<1>1. CASE ActivatePresence(x)
  <2>1. PICK k \in calls :
          /\ row' = IF row.known THEN [row EXCEPT !.left = 0, !.fresh = TRUE] ELSE NewRow(TRUE)
          /\ To(x, [NoJob EXCEPT !.at = "prune", !.call = k, !.chans = k.chans,
                                 !.seen = row'.migrated])
    BY <1>1 DEF ActivatePresence
  <2> DEFINE j == [NoJob EXCEPT !.at = "prune", !.call = k, !.chans = k.chans,
                                !.seen = row'.migrated]
  <2>2. j.at = "prune" /\ j.seen = row'.migrated
    BY DEF NoJob
  <2>3. To(x, j)
    BY <2>1
  <2> HIDE DEF j
  <2>4. /\ row'.known /\ row'.left = 0 /\ (row.known => row'.migrated = row.migrated)
        /\ ~row.known => row'.migrated
    BY <2>1, RowFacts DEF Row
  <2>5. UNCHANGED <<rows, marker, keys, owed, awry>> /\ At(x, "idle")
    BY <1>1 DEF ActivatePresence, cacheVars
  <2>6. ~Abandoned' /\ (row.migrated => row'.migrated)
    BY <2>4, RowFacts DEF Abandoned
  <2>7. OnMigrated(j) <=> row'.migrated
    BY <2>2 DEF OnMigrated, Registers, Syncs
  <2>8. \A c \in rows' \ owed' :
          c \in keys' \/ (c \in rows \ owed /\ c \notin keys /\ ~Puts(job[x], c))
    BY <2>5 DEF Puts, At
  <2>9. /\ OnRow(j) => row'.known /\ ~Abandoned'
        /\ OnMigrated(j) => row'.migrated
        /\ row.known => row'.known /\ (Abandoned' => Abandoned)
    BY <2>4, <2>6, <2>7
  <2>10. /\ marker' /\ ~awry' => row'.migrated \/ (marker /\ ~awry)
         /\ row'.migrated /\ ~awry' => OnMigrated(j)
    BY <2>5, <2>7
  <2>11. \A c \in rows' \ owed' :
           c \in keys' \/ Puts(j, c) \/ (c \in rows \ owed /\ c \notin keys /\ ~Puts(job[x], c))
    BY <2>8
  <2> QED BY <2>3, <2>6, <2>9, <2>10, <2>11, HandlerMoves
(* What comes after the prune.                                               *)
<1>2. ASSUME AfterPrune(x), Registers(job[x])
      PROVE  \E j : /\ To(x, j) /\ (OnMigrated(j) <=> OnMigrated(job[x])) /\ (OnRow(j) => OnRow(job[x]))
  <2> DEFINE o == [NoJob EXCEPT !.at = "read", !.call = job[x].call]
  <2>1. o.at = "read" /\ NoJob.at = "idle"
    BY DEF NoJob
  <2>2. (job[x].seen /\ To(x, o)) \/ (~job[x].seen /\ To(x, NoJob))
    BY <1>2 DEF AfterPrune, Onto, Done
  <2> HIDE DEF o
  <2> QED BY <1>2, <2>1, <2>2 DEF OnRow, OnMigrated, Registers, Syncs
<1>3. ASSUME NEW j, To(x, j), OnMigrated(j) <=> OnMigrated(job[x]), OnRow(j) => OnRow(job[x]),
             UNCHANGED <<row, marker, awry>>, Registers(job[x]),
             \A c \in rows' \ owed' : c \in keys' \/ (c \in rows \ owed /\ c \notin keys)
      PROVE  EntriesInv'
  <2>1. Abandoned' = Abandoned
    BY <1>3 DEF Abandoned
  <2>2. \A c : ~Puts(job[x], c)
    BY <1>3 DEF Puts, Registers
  <2> QED BY <1>0, <1>3, <2>1, <2>2, HandlerMoves
<1>4. CASE PruneStaleChannels(x)
  <2>1. /\ Registers(job[x]) /\ rows' \subseteq rows /\ owed' = owed \cap rows'
        /\ UNCHANGED <<row, keys, marker, awry>>
    BY <1>4 DEF PruneStaleChannels, At, Registers
  <2>2. \A c \in rows' \ owed' : c \in keys' \/ (c \in rows \ owed /\ c \notin keys)
    BY <2>1
  <2>3. CASE rows \subseteq job[x].chans
    <3>1. AfterPrune(x)
      BY <1>4, <2>3 DEF PruneStaleChannels
    <3> QED BY <1>2, <1>3, <2>1, <2>2, <3>1
  <2>4. CASE ~(rows \subseteq job[x].chans)
    <3> DEFINE j == [job[x] EXCEPT !.at = "unkey", !.chans = rows \ job[x].chans]
    <3>1. To(x, j)
      BY <1>4, <2>4 DEF PruneStaleChannels, With
    <3>2. j.at = "unkey" /\ j.seen = job[x].seen
      BY RowFacts DEF Job
    <3> HIDE DEF j
    <3>3. OnRow(job[x]) /\ (OnMigrated(j) <=> OnMigrated(job[x]))
      BY <2>1, <3>2 DEF OnRow, OnMigrated, Registers, Syncs
    <3> QED BY <1>3, <2>1, <2>2, <3>1, <3>3
  <2> QED BY <2>3, <2>4
<1>5. CASE UnkeyPruned(x)
  <2>1. /\ Registers(job[x]) /\ AfterPrune(x)
        /\ keys' = keys \ job[x].chans /\ owed' = owed \cup (rows \cap job[x].chans)
        /\ UNCHANGED <<row, rows, marker, awry>>
    BY <1>5 DEF UnkeyPruned, At, Registers
  <2>2. \A c \in rows' \ owed' : c \in keys' \/ (c \in rows \ owed /\ c \notin keys)
    BY <2>1
  <2> QED BY <1>2, <1>3, <2>1, <2>2
<1> QED BY <1>1, <1>4, <1>5

LEMMA SyncEntries ==
  ASSUME TypeOK, EntriesInv, NEW x \in Handlers, SyncStep(x)
  PROVE  EntriesInv'
<1>0. Syncs(job[x])
  BY DEF SyncStep, ReadServing, SetEntries, SetMarker, At, Syncs
<1>1. row.known /\ ~Abandoned /\ row.migrated
  BY <1>0 DEF EntriesInv, RowStays, OnRow, OnMigrated
<1>2. Abandoned' <=> Abandoned
  BY DEF SyncStep, ReadServing, SetEntries, SetMarker, Abandoned
<1>3. CASE ReadServing(x)
  <2> DEFINE at == IF rows = {} THEN "mark" ELSE "key"
             j  == [job[x] EXCEPT !.at = at, !.chans = rows]
  <2>1. To(x, j) /\ UNCHANGED <<row, rows, marker, keys, owed, awry>>
    BY <1>3 DEF ReadServing, With, cacheVars
  <2>2. j.at = at /\ j.chans = rows
    BY RowFacts DEF Job
  <2>3. at \in {"mark", "key"} /\ (at = "mark" => rows = {})
    OBVIOUS
  <2> HIDE DEF at, j
  <2>4. OnMigrated(j) /\ \A c \in rows' : Puts(j, c)
    BY <2>1, <2>2, <2>3 DEF OnMigrated, Syncs, Puts
  <2> QED BY <1>1, <1>2, <2>1, <2>4, HandlerMoves
<1>4. CASE SetEntries(x)
  <2> DEFINE o == [NoJob EXCEPT !.at = "mark", !.call = job[x].call]
  <2>1. /\ To(x, o) /\ keys' = keys \cup job[x].chans /\ owed' = owed \ job[x].chans
        /\ UNCHANGED <<row, rows, marker, awry>> /\ job[x].at = "key"
    BY <1>4 DEF SetEntries, Onto, At
  <2>2. OnMigrated(o)
    BY DEF NoJob, OnMigrated, Syncs
  <2> HIDE DEF o
  <2>3. \A c \in rows' \ owed' :
          c \in keys' \/ (c \in rows \ owed /\ c \notin keys /\ ~Puts(job[x], c))
    BY <2>1 DEF Puts
  <2> QED BY <1>1, <1>2, <2>1, <2>2, <2>3, HandlerMoves
<1>5. CASE SetMarker(x)
  <2>1. /\ To(x, NoJob) /\ UNCHANGED <<row, rows, keys, owed>> /\ marker' = TRUE
        /\ job[x].at = "mark"
    BY <1>5 DEF SetMarker, Done, At
  <2>2. ~OnRow(NoJob) /\ ~OnMigrated(NoJob)
    BY DEF NoJob, OnRow, OnMigrated, Registers, Syncs
  <2>3. \A c \in rows' \ owed' :
          c \in keys' \/ (c \in rows \ owed /\ c \notin keys /\ ~Puts(job[x], c))
    BY <2>1 DEF Puts
  <2> QED BY <1>1, <1>2, <2>1, <2>2, <2>3, HandlerMoves
<1> QED BY <1>3, <1>4, <1>5 DEF SyncStep

(* The dashboard's requests.                                                 *)
LEMMA DashboardEntries ==
  ASSUME TypeOK, EntriesInv, NEW x \in Handlers,
         \/ CheckMembership(x) \/ RestorePresence(x) \/ CommitMigration(x)
         \/ \E chosen \in SUBSET live : Migrate(x, chosen)
  PROVE  EntriesInv'
<1>0. \A at : at \in {"idle", "restore", "commit"} /\ job[x].at = at =>
        ~OnMigrated(job[x]) /\ \A c : ~Puts(job[x], c)
  BY DEF OnMigrated, Registers, Syncs, Puts
<1>1. CASE CheckMembership(x)
  <2> DEFINE j == [NoJob EXCEPT !.at = "restore"]
  <2>1. To(x, j) /\ UNCHANGED <<row, rows, keys, marker, owed, awry>> /\ job[x].at = "idle"
    BY <1>1 DEF CheckMembership, At, cacheVars
  <2>2. ~OnRow(j) /\ ~OnMigrated(j)
    BY DEF NoJob, OnRow, OnMigrated, Registers, Syncs
  <2> HIDE DEF j
  <2>3. Abandoned' = Abandoned
    BY <2>1 DEF Abandoned
  <2> QED BY <1>0, <2>1, <2>2, <2>3, HandlerMoves
<1>2. CASE RestorePresence(x)
  <2>1. /\ To(x, NoJob) /\ UNCHANGED <<rows, keys, marker, owed, awry>>
        /\ job[x].at = "restore"
    BY <1>2 DEF RestorePresence, Done, At, cacheVars
  <2>2. /\ row'.known /\ row'.left = 0 /\ (row.known => row'.migrated = row.migrated)
        /\ ~row.known => ~row'.migrated
    BY <1>2, RowFacts DEF RestorePresence, Row, NewRow
  <2>3. ~Abandoned' /\ (row.migrated <=> row'.migrated)
    BY <2>2, RowFacts DEF Abandoned
  <2>4. ~OnRow(NoJob) /\ ~OnMigrated(NoJob)
    BY DEF NoJob, OnRow, OnMigrated, Registers, Syncs
  <2> QED BY <1>0, <2>1, <2>2, <2>3, <2>4, HandlerMoves
<1>3. ASSUME NEW chosen \in SUBSET live, Migrate(x, chosen) PROVE EntriesInv'
  <2> DEFINE j == [NoJob EXCEPT !.at = "commit", !.chans = chosen]
  <2>1. /\ To(x, j) /\ UNCHANGED <<row, rows, keys, marker, owed, awry>>
        /\ job[x].at = "idle" /\ Present
    BY <1>3 DEF Migrate, At, cacheVars
  <2>2. ~OnMigrated(j)
    BY DEF NoJob, OnMigrated, Registers, Syncs
  <2> HIDE DEF j
  <2>3. row.known /\ ~Abandoned /\ Abandoned' = Abandoned
    BY <2>1, RowFacts DEF Present, Abandoned
  <2> QED BY <1>0, <2>1, <2>2, <2>3, HandlerMoves
<1>4. CASE CommitMigration(x)
  <2> DEFINE o == [NoJob EXCEPT !.at = "read", !.call = job[x].call]
  <2>1. To(x, o) /\ UNCHANGED <<keys, marker, owed, awry>> /\ job[x].at = "commit"
    BY <1>4 DEF CommitMigration, Onto, At, cacheVars
  <2>2. OnMigrated(o) /\ \A c : Puts(o, c)
    BY DEF NoJob, OnMigrated, Syncs, Puts
  <2> HIDE DEF o
  <2>3. row.known /\ ~Abandoned
    BY <2>1 DEF EntriesInv, RowStays, OnRow
  <2>4. row'.known /\ row'.migrated /\ row'.left = row.left
    BY <1>4, <2>3, RowFacts DEF CommitMigration, Row
  <2>5. ~Abandoned'
    BY <2>3, <2>4 DEF Abandoned
  <2> QED BY <2>1, <2>2, <2>3, <2>4, <2>5, HandlerMoves
<1> QED BY <1>1, <1>2, <1>3, <1>4

(* The nightly job.                                                          *)
LEMMA NightEntries ==
  ASSUME TypeOK, EntriesInv, StartNight \/ NightStep
  PROVE  EntriesInv'
<1>0. /\ row \in Row /\ PurgeDays \in Nat /\ PurgeDays # 0 /\ job[Night] \in Job
      /\ row.left \in Nat /\ row.known \in BOOLEAN /\ row.migrated \in BOOLEAN
  BY RowFacts
<1>1. \A at, chans :
         /\ [job[Night] EXCEPT !.at = at, !.chans = chans].at = at
         /\ [job[Night] EXCEPT !.at = at].at = at
         /\ [NoJob EXCEPT !.at = at, !.call = job[Night].call].at = at
         /\ [job[Night] EXCEPT !.at = "rows", !.seen = member].at = "rows"
  BY <1>0 DEF NoJob, Job
<1>2. NoJob.at = "idle"
  BY DEF NoJob
(* The row may change, the allowlist does not.                               *)
<1>3. ASSUME NEW j, To(Night, j), UNCHANGED <<rows, marker, keys, owed, awry>>, ~Cleaning,
             row'.migrated = row.migrated,
             Idle \/ (row.known => row'.known /\ (Abandoned' => Abandoned))
      PROVE  EntriesInv'
  BY <1>3, NightMoves
<1>4. CASE StartNight
  <2> DEFINE j == [NoJob EXCEPT !.at = "fetch"]
  <2>1. To(Night, j) /\ Idle /\ At(Night, "idle") /\ UNCHANGED <<rows, marker, keys, owed, awry>>
    BY <1>4 DEF StartNight, cacheVars
  <2> HIDE DEF j
  <2>2. row'.migrated = row.migrated
    BY <1>0, <1>4 DEF StartNight, Row
  <2>3. ~Cleaning
    BY <2>1 DEF Cleaning, At
  <2> QED BY <1>3, <2>1, <2>2, <2>3
<1>5. CASE FetchLive \/ SweepRows \/ ListAbandoned \/ ReadChannels
  <2>1. UNCHANGED <<row, rows, marker, keys, owed, awry>> /\ ~Cleaning
    BY <1>5 DEF FetchLive, SweepRows, ListAbandoned, ReadChannels, At, Cleaning, cacheVars
  <2>2. \E j : To(Night, j)
    BY <1>5 DEF FetchLive, SweepRows, ListAbandoned, ReadChannels, Onto, Goto, Done, With
  <2>3. Abandoned' = Abandoned
    BY <2>1 DEF Abandoned
  <2> QED BY <1>3, <2>1, <2>2, <2>3
<1>6. CASE SweepInsert \/ SweepRestore \/ SweepSoftDelete
  <2>1. /\ UNCHANGED <<rows, marker, keys, owed, awry>> /\ ~Cleaning /\ \E j : To(Night, j)
    BY <1>6 DEF SweepInsert, SweepRestore, SweepSoftDelete, At, Cleaning, Goto, cacheVars
  <2>2. /\ row.known => row'.known /\ (row'.left = row.left \/ row'.left \in {0, 1})
        /\ row'.migrated = row.migrated
    <3>1. ~row.known => row.migrated = FALSE
      BY RowFacts
    <3>2. NewRow(FALSE).migrated = FALSE
      BY DEF NewRow
    <3>3. CASE SweepInsert
      <4>1. row' = IF row.known THEN row ELSE NewRow(FALSE)
        BY <3>3 DEF SweepInsert
      <4> QED BY <3>1, <3>2, <4>1
    <3>4. CASE SweepRestore
      BY <1>0, <3>4 DEF SweepRestore, Row
    <3>5. CASE SweepSoftDelete
      BY <1>0, <3>5 DEF SweepSoftDelete, Row
    <3> QED BY <1>6, <3>3, <3>4, <3>5
  <2>3. row.known => row'.known /\ (Abandoned' => Abandoned)
    BY <1>0, <2>2 DEF Abandoned
  <2> QED BY <1>3, <2>1, <2>2, <2>3
<1>7. CASE Purge
  <2>1. UNCHANGED <<marker, keys, awry>> /\ At(Night, "purge")
    BY <1>7 DEF Purge
  <2>2. ~Cleaning
    BY <2>1 DEF Cleaning, At
  <2>3. CASE ~Abandoned
    <3>1. To(Night, NoJob) /\ UNCHANGED <<row, rows, owed>>
      BY <1>7, <2>3 DEF Purge, Done
    <3> QED BY <1>3, <2>1, <2>2, <3>1 DEF Abandoned
  <2>4. CASE Abandoned
    <3> DEFINE at == IF job[Night].chans = {} THEN "unmark" ELSE "purgekeys"
               j  == [job[Night] EXCEPT !.at = at]
    <3>1. To(Night, j) /\ row' = NoRow /\ rows' = {}
      BY <1>7, <2>4 DEF Purge, Goto
    <3>2. j.at \in {"purgekeys", "unmark"}
      BY <1>1
    <3> HIDE DEF at, j
    <3>3. ~row'.known /\ ~row'.migrated
      BY <3>1, RowFacts
    <3> QED BY <2>1, <2>4, <3>1, <3>2, <3>3, NightMoves
  <2> QED BY <2>3, <2>4
<1>8. CASE PurgeKeys
  <2> DEFINE o == [NoJob EXCEPT !.at = "unmark", !.call = job[Night].call]
  <2>1. /\ To(Night, o) /\ UNCHANGED <<row, rows, marker, awry>>
        /\ keys' = keys \ job[Night].chans /\ owed' = owed \cup (rows \cap job[Night].chans)
    BY <1>8 DEF PurgeKeys, Onto
  <2>2. o.at = "unmark"
    BY <1>1
  <2> HIDE DEF o
  <2>3. \A c \in rows' \ owed' : c \in keys' \/ (c \in rows \ owed /\ c \notin keys)
    BY <2>1
  <2>4. Abandoned' = Abandoned
    BY <2>1 DEF Abandoned
  <2> QED BY <2>1, <2>2, <2>3, <2>4, NightMoves
<1>9. CASE Unmark
  <2>1. /\ To(Night, NoJob) /\ UNCHANGED <<row, rows, keys, owed>>
        /\ marker' = FALSE /\ awry' = row.migrated
    BY <1>9 DEF Unmark, Done
  <2>2. Abandoned' = Abandoned
    BY <2>1 DEF Abandoned
  <2> QED BY <2>1, <2>2, NightMoves
<1> QED BY <1>4, <1>5, <1>6, <1>7, <1>8, <1>9 DEF NightStep

(* A restart reads every row again; a failed await leaves what it says.      *)
LEMMA FaultEntries ==
  ASSUME TypeOK, EntriesInv, BackendRestarts \/ \E x \in Processes : Fail(x)
  PROVE  EntriesInv'
<1>0. NoJob.at = "idle" /\ ~OnRow(NoJob) /\ ~OnMigrated(NoJob)
  BY DEF NoJob, OnRow, OnMigrated, Registers, Syncs
<1>1. CASE BackendRestarts
  <2>1. /\ keys' = rows /\ UNCHANGED <<row, rows>> /\ marker' = (marker \/ row.migrated)
        /\ awry' = ((awry /\ ~row.migrated) \/ Cleaning)
    BY <1>1 DEF BackendRestarts
  <2>2. \A x \in Processes : job'[x] = NoJob
    BY <1>1 DEF BackendRestarts
  <2>3. RowStays'
    BY <1>0, <2>2, RowFacts DEF RowStays
  <2>4. Keyed' /\ WillMark'
    BY <2>1 DEF Keyed, WillMark
  <2>5. Marked'
    BY <2>1 DEF EntriesInv, Marked
  <2> QED BY <2>3, <2>4, <2>5 DEF EntriesInv
<1>2. ASSUME NEW x \in Processes, Fail(x) PROVE EntriesInv'
  <2>1. /\ UNCHANGED <<row, rows, marker, keys>>
        /\ owed' = owed \cup (IF At(x, "read") \/ At(x, "key") THEN rows \ keys ELSE {})
        /\ awry' = (awry \/ At(x, "prune") \/ At(x, "unkey") \/ At(x, "read") \/ At(x, "key")
                         \/ At(x, "mark") \/ At(x, "purgekeys") \/ At(x, "unmark"))
    BY <1>2 DEF Fail
  <2> DEFINE o == [NoJob EXCEPT !.at = "abandoned", !.call = job[x].call]
  <2>2. o.at = "abandoned"
    BY DEF NoJob
  <2>3. To(x, o) \/ To(x, NoJob)
    BY <1>2 DEF Fail, Onto, Done
  <2> HIDE DEF o
  <2>4. PICK j : To(x, j) /\ j.at \in {"abandoned", "idle"}
    BY <1>0, <2>2, <2>3
  <2>5. \A y \in Processes : job'[y] = IF y = x THEN j ELSE job[y]
    BY <2>4, RowFacts DEF To
  <2>6. ~OnRow(j) /\ ~OnMigrated(j) /\ Abandoned' = Abandoned
    BY <2>1, <2>4 DEF OnRow, OnMigrated, Registers, Syncs, Abandoned
  <2>7. RowStays'
    BY <2>1, <2>5, <2>6, RowFacts DEF EntriesInv, RowStays
  <2>8. Keyed'
    <3> SUFFICES ASSUME NEW c \in rows' \ owed', c \notin keys'
                 PROVE  \E y \in Handlers : Puts(job'[y], c)
      BY DEF Keyed, Puts
    <3>1. PICK y \in Handlers : Puts(job[y], c)
      BY <2>1 DEF EntriesInv, Keyed
    <3>2. y # x
      BY <2>1, <3>1 DEF Puts, At
    <3> QED BY <2>5, <3>1, <3>2, RowFacts
  <2>9. Marked'
    <3> SUFFICES ASSUME marker', ~awry', ~row'.migrated PROVE Cleaning'
      BY DEF Marked
    <3>1. Cleaning /\ ~At(x, "purgekeys") /\ ~At(x, "unmark")
      BY <2>1 DEF EntriesInv, Marked
    <3>2. x # Night
      BY <3>1 DEF Cleaning
    <3> QED BY <2>5, <3>1, <3>2, RowFacts DEF Cleaning, At
  <2>10. WillMark'
    <3> SUFFICES ASSUME row'.migrated, ~awry', ~marker'
                 PROVE  \E y \in Handlers : OnMigrated(job'[y])
      BY DEF WillMark, OnMigrated, Registers, Syncs
    <3>1. PICK y \in Handlers : OnMigrated(job[y])
      BY <2>1 DEF EntriesInv, WillMark
    <3>2. y # x
      BY <2>1, <3>1 DEF OnMigrated, Registers, Syncs, At
    <3> QED BY <2>5, <3>1, <3>2, RowFacts
  <2> QED BY <2>7, <2>8, <2>9, <2>10 DEF EntriesInv
<1> QED BY <1>1, <1>2

(* For any channels and any number of handlers: once no request is under way, *)
(* every serving channel is on the allowlist and exactly a migrated guild has *)
(* the marker (syncMigratedGuildCache, purge, initialize), but for what a     *)
(* failed await left undone and what a purge's or a prune's cleaning up took  *)
(* from a row that is newer.                                                 *)
THEOREM MarkerIsTrue == Spec => []AllowlistStands
<1>1. Init => EntriesInv
  <2> SUFFICES ASSUME Init PROVE EntriesInv
    OBVIOUS
  <2>1. \A x \in Processes : job[x].at = "idle"
    BY DEF Init, NoJob
  <2>2. RowStays
    BY <2>1 DEF RowStays, OnRow, OnMigrated, Registers, Syncs, Processes
  <2>3. ~row.migrated
    BY DEF Init, NewRow, NoRow
  <2>4. Keyed /\ Marked /\ WillMark
    BY <2>3 DEF Init, Keyed, Marked, WillMark
  <2> QED BY <2>2, <2>4 DEF EntriesInv
<1>2. TypeOK /\ EntriesInv /\ [Next]_vars => EntriesInv'
  BY OutsideEntries, EnableEntries, RegisterEntries, SyncEntries, DashboardEntries,
     NightEntries, FaultEntries DEF Next, Deliver, HandlerStep
<1>3. EntriesInv => AllowlistStands
  <2> SUFFICES ASSUME EntriesInv, Idle
               PROVE  /\ rows \ owed \subseteq keys
                      /\ ~awry /\ ~Cleaning => (marker <=> row.migrated)
    BY DEF AllowlistStands
  <2>1. \A x \in Handlers : ~OnMigrated(job[x]) /\ \A c : ~Puts(job[x], c)
    BY DEF Idle, At, OnMigrated, Registers, Syncs, Puts
  <2>2. rows \ owed \subseteq keys
    BY <2>1 DEF EntriesInv, Keyed
  <2>3. ~awry /\ ~Cleaning => (marker <=> row.migrated)
    BY <2>1 DEF EntriesInv, Marked, WillMark
  <2> QED BY <2>2, <2>3
<1> QED BY <1>1, <1>2, <1>3, PresenceTypeCorrect, PTL DEF Spec
=============================================================================
