----------------------------- MODULE PublishState -----------------------------
(***************************************************************************)
(* Whether the bot can publish in a guild's channels, as the dashboard     *)
(* shows it: a Redis hash that the bot fills from its gateway cache        *)
(* (services/permissions.ts) and that a read of the dashboard fills where  *)
(* it is empty (backend services/publishState.ts, botPermissions.ts), from *)
(* Discord reads that are cached and kept (services/discord.ts).           *)
(*                                                                         *)
(* The bot's permissions are what its roles grant, the roles it holds, and *)
(* an overwrite of each channel.                                           *)
(***************************************************************************)
EXTENDS Integers, FiniteSets

CONSTANTS
  News,          (* channels                                                 *)
  Writers,       (* bound: pushes and reads at a time                        *)
  MaxTurns       (* bound: permission changes, and what fails or is missed   *)

ASSUME PublishAssumption == MaxTurns \in Nat

VARIABLES
  permits,       (* the roles that matter grant the permissions              *)
  holds,         (* the bot holds such a role                                *)
  kind,          (* each channel: no announcement channel ("none": deleted,  *)
                 (* converted, not yet created), or one whose overwrite lets *)
                 (* the bot publish ("open") or not ("closed")               *)
  listening,     (* the gateway delivers the guild's events                  *)
  gateway,       (* the bot's gateway cache: [roles, member, list]           *)
  hash,          (* channel_permissions:{guildId}                            *)
  recent, kept,  (* discordReadCache and lastKnownGood: a copy of each route *)
  job,           (* each writer: a push or a read                            *)
  muddled,       (* history: the channels of which the hash may tell what    *)
                 (* was: see Missed and Land                                 *)
  turns          (* of the bounded kind, so far                              *)

discord == <<permits, holds, kind, listening, gateway>>
pubVars == <<discord, hash, recent, kept, job, muddled, turns>>

ChannelKinds == {"none", "open", "closed"}
IsNews(k) == k \in {"open", "closed"}
Entry(state, c) ==
  IF state.roles /\ state.member /\ state.list[c] = "open" THEN "yes" ELSE "no"

Now == [roles |-> permits, member |-> holds, list |-> kind]
Truth(c) == Entry(Now, c)

Routes == {"list", "roles", "member"}
Unread == <<>>
NoEntries == [c \in News |-> "none"]
Nothing == [r \in Routes |-> Unread]
NoJob == [at |-> "idle", full |-> FALSE, entries |-> NoEntries, got |-> Nothing,
          stale |-> {}, old |-> {}]

PublishInit ==
  /\ permits = TRUE /\ holds = TRUE /\ kind \in [News -> {"open", "none"}]
  /\ listening = TRUE /\ gateway = Now
  /\ hash = NoEntries /\ recent = Nothing /\ kept = Nothing
  /\ job = [w \in Writers |-> NoJob]
  /\ muddled = {} /\ turns = 0

Turn == turns < MaxTurns /\ turns' = turns + 1

-----------------------------------------------------------------------------
(* The bot.                                                                *)

(* What becomes of the reports under way when the truth of chans changes:  *)
(* what they say of them is old from then on.                              *)
Outdated(chans) == [w \in Writers |->
  IF job[w] = NoJob THEN NoJob ELSE [job[w] EXCEPT !.old = @ \cup chans]]

(* syncChannels: entries computed off the cache, and a call nobody retries.*)
(* It is of no account what the gateway has not told.                      *)
Push(jobs, w, cache, chans, full) ==
  /\ job[w] = NoJob
  /\ job' = [jobs EXCEPT ![w] = [NoJob EXCEPT !.at = "sent", !.full = full,
       !.entries = [c \in News |-> IF c \in chans THEN Entry(cache, c) ELSE "none"],
       !.old = {c \in News : Entry(cache, c) # Entry(Now', c)}]]

Announcements(cache) == {c \in News : IsNews(cache.list[c])}

(* evictGuildChannels and evictGuildRoles: a call nobody retries either.   *)
(* The bot's own member is not evicted.                                    *)
Evict(route, told) ==
  recent' \in {recent} \cup (IF told THEN {[recent EXCEPT ![route] = Unread]} ELSE {})

(* channelCreate, channelDelete, channelUpdate: the candidate list changes *)
(* with a membership; an announcement channel is pushed.                   *)
ChannelMoves(w, c, k) ==
  /\ Turn /\ kind[c] # k
  /\ kind' = [kind EXCEPT ![c] = k] /\ UNCHANGED <<permits, holds, listening, hash, kept>>
  /\ gateway' = IF listening THEN [gateway EXCEPT !.list[c] = k] ELSE gateway
  /\ Evict("list", listening /\ IsNews(k) # IsNews(kind[c]))
  /\ IF listening /\ IsNews(k) THEN Push(Outdated({c}), w, gateway', {c}, FALSE)
     ELSE job' = Outdated({c})
  /\ muddled' = IF listening THEN muddled ELSE muddled \cup {c}

(* A change to what the roles grant, or to which of them the bot holds:    *)
(* every announcement channel is pushed.                                   *)
RolesMove(w) ==
  /\ Turn /\ UNCHANGED <<kind, listening, hash, kept>>
  /\ gateway' = IF listening THEN [gateway EXCEPT !.roles = permits', !.member = holds']
                ELSE gateway
  /\ IF listening THEN Push(Outdated(News), w, gateway', Announcements(gateway), FALSE)
     ELSE job' = Outdated(News)
  /\ muddled' = IF listening THEN muddled ELSE News

(* Of a role; the list of roles is evicted.                                *)
RoleUpdate(w) ==
  /\ permits' = ~permits /\ holds' = holds
  /\ RolesMove(w) /\ Evict("roles", listening)

GuildMemberUpdate(w) ==
  /\ holds' = ~holds /\ permits' = permits
  /\ RolesMove(w) /\ UNCHANGED recent

(* A role that the bot holds is deleted: the list of roles is evicted, and *)
(* nothing is pushed.                                                      *)
RoleDelete ==
  /\ permits /\ holds /\ Turn /\ permits' = FALSE
  /\ gateway' = IF listening THEN [gateway EXCEPT !.roles = FALSE] ELSE gateway
  /\ Evict("roles", listening)
  /\ job' = Outdated(News) /\ muddled' = News
  /\ UNCHANGED <<holds, kind, listening, hash, kept>>

(* /ap enable pushes the channel it was used on.                           *)
EnablePushes(w, c) ==
  /\ IsNews(gateway.list[c])
  /\ UNCHANGED <<discord, hash, recent, kept, muddled, turns>>
  /\ Push(job, w, gateway, {c}, FALSE)

(* A re-identify: the guild comes back with its state, and nothing is      *)
(* pushed.                                                                 *)
GatewayDrops ==
  /\ listening /\ Turn /\ listening' = FALSE
  /\ UNCHANGED <<permits, holds, kind, gateway, hash, recent, kept, job, muddled>>

GatewayReturns ==
  /\ ~listening /\ listening' = TRUE /\ gateway' = Now
  /\ UNCHANGED <<permits, holds, kind, hash, recent, kept, job, muddled, turns>>

(* The bot starts, or joins: the full push, and in the latter case a list  *)
(* that is read anew.                                                      *)
Sweep(w) ==
  /\ Evict("list", TRUE)
  /\ listening' = TRUE /\ gateway' = Now
  /\ UNCHANGED <<permits, holds, kind, hash, kept, muddled, turns>>
  /\ Push(job, w, gateway', Announcements(gateway'), TRUE)

-----------------------------------------------------------------------------
(* writeGuild: its Redis commands.                                         *)

At(w, at) == job' = [job EXCEPT ![w].at = at]
End(w) == job' = [job EXCEPT ![w] = NoJob]
Reported(w) == {c \in News : job[w].entries[c] # "none"}

StaleFields(w) ==
  /\ job[w].at = "sent" /\ job[w].full
  /\ job' = [job EXCEPT ![w].at = "drop",
       ![w].stale = {c \in News : hash[c] # "none"} \ Reported(w)]
  /\ UNCHANGED <<discord, hash, recent, kept, muddled, turns>>

DropStale(w) ==
  /\ job[w].at = "drop" /\ At(w, "store")
  /\ hash' = [c \in News |-> IF c \in job[w].stale THEN "none" ELSE hash[c]]
  /\ UNCHANGED <<discord, recent, kept, muddled, turns>>

(* What is stored sets a channel right, unless it has changed since.       *)
Store(w) ==
  /\ job[w].at = "store" \/ (job[w].at = "sent" /\ ~job[w].full)
  /\ hash' = [c \in News |-> IF c \in Reported(w) THEN job[w].entries[c] ELSE hash[c]]
  /\ muddled' = (muddled \ Reported(w)) \cup (Reported(w) \cap job[w].old)
  /\ End(w) /\ UNCHANGED <<discord, recent, kept, turns>>

(* The push is lost, or a Redis command fails.                             *)
WriteLost(w) ==
  /\ job[w].at \in {"sent", "drop", "store"} /\ Turn
  /\ End(w) /\ muddled' = muddled \cup Reported(w)
  /\ UNCHANGED <<discord, hash, recent, kept>>

HashExpires ==
  /\ hash # NoEntries /\ hash' = NoEntries
  /\ UNCHANGED <<discord, recent, kept, job, muddled, turns>>

-----------------------------------------------------------------------------
(* The dashboard's read.                                                   *)

(* cachedGet of one route: a recent copy, else Discord's answer, which is  *)
(* cached and kept, else the copy kept.  Without one the call fails.       *)
CachedGet(route, answer) ==
  IF recent[route] # Unread
  THEN answer = recent[route] /\ UNCHANGED <<recent, kept, turns>>
  ELSE \/ /\ answer = <<Now[route]>> /\ UNCHANGED turns
          /\ recent' = [recent EXCEPT ![route] = answer]
          /\ kept' = [kept EXCEPT ![route] = answer]
       \/ Turn /\ answer = kept[route] /\ UNCHANGED <<recent, kept>>

CopiesOf(route) == {recent[route], kept[route], <<Now[route]>>}

(* getChannelsForDashboard, up to HGETALL: the announcement channels of    *)
(* the list that the hash has no entry for, all of them if it cannot be    *)
(* read.                                                                   *)
Misses(list, known) == {c \in News : IsNews(list[c]) /\ known[c] = "none"}

ReadDashboard(w) ==
  /\ job[w] = NoJob
  /\ \E list \in CopiesOf("list"), known \in {hash, NoEntries} :
       /\ CachedGet("list", list)
       /\ job' = IF list = Unread \/ Misses(list[1], known) = {} THEN job
                 ELSE [job EXCEPT ![w] = [NoJob EXCEPT !.at = "misses", !.got.list = list,
                         !.stale = Misses(list[1], known),
                         !.old = {c \in News : list[1][c] # kind[c]}]]
  /\ UNCHANGED <<discord, hash, muddled>>

(* getPublishMap asks for the roles and for the member at once.  What is   *)
(* computed of both is written back; a failure is shown and not stored.    *)
WriteBack(w, entries, old) ==
  job' = [job EXCEPT ![w] = [NoJob EXCEPT !.at = "store", !.old = old,
            !.entries = [c \in News |-> IF c \in job[w].stale THEN entries[c] ELSE "none"]]]

Got(w, route, answer) ==
  LET got == [job[w].got EXCEPT ![route] = answer]
      old == IF answer = <<Now[route]>> THEN job[w].old ELSE News
      seen == [r \in Routes |-> got[r][1]]
  IN  IF \A r \in Routes : got[r] # Unread
      THEN WriteBack(w, [c \in News |-> Entry(seen, c)], old)
      ELSE job' = [job EXCEPT ![w].got = got, ![w].old = old]

(* A mutation: the default for a failed read is stored like an answer.     *)
ReadAnyhow(w, route) ==
  /\ job[w].at = "misses" /\ job[w].got[route] = Unread
  /\ \E answer \in CopiesOf(route) :
       /\ CachedGet(route, answer)
       /\ IF answer = Unread THEN WriteBack(w, [c \in News |-> "no"], job[w].old)
          ELSE Got(w, route, answer)
  /\ UNCHANGED <<discord, hash, muddled>>

ReadRoute(w, route) ==
  /\ job[w].at = "misses" /\ job[w].got[route] = Unread
  /\ \E answer \in CopiesOf(route) :
       /\ CachedGet(route, answer)
       /\ IF answer = Unread THEN End(w) ELSE Got(w, route, answer)
  /\ UNCHANGED <<discord, hash, muddled>>

(* The TTL of what is cached.  What is kept is kept for an hour, longer    *)
(* than a behaviour.                                                       *)
CopyAges(r) ==
  /\ recent[r] # Unread /\ recent' = [recent EXCEPT ![r] = Unread]
  /\ UNCHANGED <<discord, hash, kept, job, muddled, turns>>

PublishNext ==
  \/ \E w \in Writers :
       \/ \E c \in News : EnablePushes(w, c) \/ \E k \in ChannelKinds : ChannelMoves(w, c, k)
       \/ RoleUpdate(w) \/ GuildMemberUpdate(w) \/ Sweep(w)
       \/ StaleFields(w) \/ DropStale(w) \/ Store(w) \/ WriteLost(w)
       \/ ReadDashboard(w) \/ ReadRoute(w, "roles") \/ ReadRoute(w, "member")
  \/ RoleDelete \/ GatewayDrops \/ GatewayReturns \/ HashExpires
  \/ \E r \in Routes : CopyAges(r)

Copies(route) ==
  {Unread} \cup {<<v>> : v \in IF route = "list" THEN [News -> ChannelKinds] ELSE BOOLEAN}

PublishTypeOK ==
  /\ permits \in BOOLEAN /\ holds \in BOOLEAN
  /\ kind \in [News -> ChannelKinds] /\ listening \in BOOLEAN
  /\ gateway \in [roles : BOOLEAN, member : BOOLEAN, list : [News -> ChannelKinds]]
  /\ hash \in [News -> {"none", "yes", "no"}]
  /\ \A r \in Routes : recent[r] \in Copies(r) /\ kept[r] \in Copies(r)
  /\ \A w \in Writers :
       /\ job[w].at \in {"idle", "sent", "drop", "store", "misses"}
       /\ job[w].stale \subseteq News /\ job[w].old \subseteq News
       /\ job[w].got.list \in Copies("list")
  /\ muddled \subseteq News /\ turns \in 0..MaxTurns

(* What the hash says of an announcement channel is true, or a report that *)
(* is, is on its way, however reports, reads and changes overlap and       *)
(* whatever fails, except in three cases: a change of which no report was  *)
(* made or which was lost, a deleted role among them; a report that a      *)
(* change overtook; and what was computed from a copy that was old by      *)
(* then.  The next true report ends each.  In particular a failed read     *)
(* does nothing: "a failure is never persisted" (publishState.ts:103).     *)
Awaited(c) == \E w \in Writers : c \in Reported(w) \ job[w].old

ReportsStand ==
  \A c \in News \ muddled :
    IsNews(kind[c]) /\ ~Awaited(c) => hash[c] \in {"none", Truth(c)}
=============================================================================
