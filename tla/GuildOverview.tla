---------------------------- MODULE GuildOverview ----------------------------
(***************************************************************************)
(* What a guild is told of its channels: the reply of /ap overview         *)
(* (apps/bot/src/handlers/ap/overview.ts) and the dashboard's Overview     *)
(* with its notices and its badge (channel-status.tsx, guild-notices.tsx,  *)
(* use-guild-attention.ts).  The bot reads the rows from the backend and,  *)
(* an await later, the channels from its own cache; the page is composed   *)
(* of two reads, the guild list and the guild.  Neither orders the rows it *)
(* reads: both sort them by what Discord says of the channels.             *)
(***************************************************************************)
EXTENDS Naturals, Sequences, FiniteSets, Listings

CONSTANTS
  Channels,   (* the guild's channels: numbers, in sidebar order             *)
  Roots,      (* those outside every category, which the sidebar has first   *)
  MaxListed,  (* MAX_LISTED_CHANNELS                                         *)
  MaxPaused,  (* MAX_LISTED_PAUSED                                           *)
  FreeCap     (* freeChannelLimit                                            *)

ASSUME OverviewAssumption ==
  /\ Channels \subseteq Nat /\ IsFiniteSet(Channels)
  /\ Roots \subseteq Channels /\ \A c \in Roots, d \in Channels \ Roots : c < d
  /\ {MaxListed, MaxPaused, FreeCap} \subseteq Nat \ {0}

VARIABLES
  site,       (* the guild: [rows, health, migrated, plan]                   *)
  listedLive, (* hasSubscription of a guild list read for a page, or "none"  *)
  rendered,   (* the dashboard's payload on screen: a site, and its live     *)
  dismissed,  (* the browser's marker of the paused notice                   *)
  overview    (* the command: [at, seen] and its reply                       *)

guildPage == <<listedLive, rendered, dismissed>>
overviewVars == <<site, guildPage, overview>>

RowStates == {"off", "serving", "paused", "pausedRules"}

(* A channel Discord lists as an announcement channel, with the bot's      *)
(* permissions or without; one converted to text; and one that neither     *)
(* Discord's list nor the bot's cache has, deleted or hidden from it.      *)
Health == {"ok", "denied", "text", "hidden"}

(* A channel as a surface shows it: can the bot publish in it?             *)
Verdicts == [id : Channels, ok : BOOLEAN]

Sites == [rows : [Channels -> RowStates], health : [Channels -> Health],
          migrated : BOOLEAN, plan : {"free", "live", "ending"}]

NoReply == [view |-> "none", list |-> <<>>, more |-> 0, blocked |-> 0,
            paused |-> <<>>, reason |-> "none", cache |-> "none"]

OverviewTypeOK ==
  /\ site \in Sites
  /\ listedLive \in {"none", "live", "free"} /\ rendered.live \in BOOLEAN /\ rendered.site \in Sites
  /\ dismissed \in BOOLEAN
  /\ overview.at \in {"idle", "read", "replied"} /\ overview.seen \in Sites
  /\ overview.reply.view \in {"none", "error", "legacy", "empty", "list"}
  /\ overview.reply.list \in Seq(Verdicts) /\ Len(overview.reply.list) <= MaxListed
  /\ overview.reply.paused \in Seq(Channels) /\ Len(overview.reply.paused) <= MaxPaused

-----------------------------------------------------------------------------
(* Lists of channels.                                                      *)

Announces(h) == h \in {"ok", "denied"}
Visible(s) == {c \in Channels : s.health[c] # "hidden"}
Hidden(s) == Channels \ Visible(s)
Serving(s) == {c \in Channels : s.rows[c] = "serving"}
Paused(s) == {c \in Channels : s.rows[c] \in {"paused", "pausedRules"}}

Broken == {r \in Verdicts : ~r.ok}

(* The dashboard's: Discord's list, sorted, then the rows of the hidden    *)
(* ones in the order the database gives them.                              *)
DashboardOrder(s, stored) ==
  Ascending({c \in Visible(s) : Announces(s.health[c]) \/ s.rows[c] # "off"})
    \o Those(stored, {c \in Hidden(s) : s.rows[c] # "off"})

DashboardRow(s, c) == [id |-> c, ok |-> s.health[c] = "ok"]

(* Its rows of one kind, what cannot publish first.                        *)
DashboardList(s, S, stored) ==
  LET shown == Those(DashboardOrder(s, stored), S)
  IN FirstThose([i \in DOMAIN shown |-> DashboardRow(s, shown[i])], Broken)

(* The bot's.  What its cache cannot resolve has no category and the last  *)
(* of positions: it sinks below the channels outside every category, by    *)
(* id, and stays above all others.  Without a cache the backend's order    *)
(* stands.  "order" is either: of the channels without a place.            *)
Unplaced(s, cache) == IF cache = "none" THEN Channels ELSE Hidden(s)

BotOrder(s, S, cache, order) ==
  LET placed == S \ Unplaced(s, cache)
  IN Ascending(placed \cap Roots) \o Those(order, S) \o Ascending(placed \ Roots)

CanPublish(s, c, cache) ==
  CASE cache = "none" -> TRUE
    [] s.health[c] = "text" -> FALSE
    [] cache = "guild" -> TRUE
    [] OTHER -> s.health[c] = "ok"

(* A mutation: the rows are listed in sidebar order.                       *)
InSidebarOrder(s, cache, order) ==
  LET ids == BotOrder(s, Serving(s), cache, order)
  IN [i \in DOMAIN ids |-> [id |-> ids[i], ok |-> CanPublish(s, ids[i], cache)]]

BuildOverviewChannels(s, cache, order) ==
  LET ids == BotOrder(s, Serving(s), cache, order)
  IN FirstThose([i \in DOMAIN ids |-> [id |-> ids[i], ok |-> CanPublish(s, ids[i], cache)]],
                Broken)

-----------------------------------------------------------------------------
(* /ap overview.                                                           *)

(* The filters sentence is for a guild whose paused channels all have a    *)
(* rule, whatever the cap.                                                 *)
PausedReason(s) ==
  IF Paused(s) = {} THEN "none"
  ELSE IF \A c \in Paused(s) : s.rows[c] = "pausedRules" THEN "filters" ELSE "cap"

LegacyReply(s, cache) ==
  LET all == {c \in Channels : Announces(s.health[c]) /\ cache # "none"} IN
  [NoReply EXCEPT !.view = "legacy", !.cache = cache, !.more = Cardinality(all),
     !.blocked = IF cache = "member" THEN Cardinality({c \in all : s.health[c] # "ok"}) ELSE 0]

Reply(s, cache, order) ==
  LET built == BuildOverviewChannels(s, cache, order)
      paused == BotOrder(s, Paused(s), cache, order)
  IN IF ~s.migrated THEN LegacyReply(s, cache)
     ELSE [view |-> IF Serving(s) = {} /\ Paused(s) = {} THEN "empty" ELSE "list",
           list |-> Shorten(built, MaxListed),
           more |-> Len(built) - Len(Shorten(built, MaxListed)),
           blocked |-> Len(Those(built, Broken)),
           paused |-> Shorten(paused, MaxPaused), reason |-> PausedReason(s),
           cache |-> cache]

OverviewIs(o) == overview' = o /\ UNCHANGED <<site, guildPage>>

(* getGuildChannels answers, or nothing does.                              *)
RunOverview ==
  /\ overview.at # "read"
  /\ \/ OverviewIs([at |-> "read", seen |-> site, reply |-> NoReply])
     \/ OverviewIs([at |-> "replied", seen |-> site,
                    reply |-> [NoReply EXCEPT !.view = "error"]])

(* The rows as they were read, the channels as they are now.               *)
ShowOverview(cache) ==
  /\ overview.at = "read"
  /\ LET s == [overview.seen EXCEPT !.health = site.health]
     IN \E order \in Orders(Unplaced(s, cache)) :
          OverviewIs([at |-> "replied", seen |-> s, reply |-> Reply(s, cache, order)])

-----------------------------------------------------------------------------
(* The dashboard.                                                          *)

OverLimitPaused(p) == p.site.plan = "free" /\ Paused(p.site) # {} /\ ~p.live

(* Unlike the bot, the page asks for the cap as well.                      *)
PausedForFiltersOnly(p) ==
  /\ \A c \in Paused(p.site) : p.site.rows[c] = "pausedRules"
  /\ Cardinality(Serving(p.site)) < FreeCap

NeedsFixing(p) ==
  IF p.site.migrated THEN {c \in Serving(p.site) : p.site.health[c] # "ok"} ELSE {}

Notices ==
  {n \in {"misconfigured", "migration", "paused", "premiumEnding"} :
     CASE n = "misconfigured" -> NeedsFixing(rendered) # {}
       [] n = "migration" -> ~rendered.site.migrated
       [] n = "paused" -> OverLimitPaused(rendered) /\ ~dismissed
       [] n = "premiumEnding" -> /\ rendered.site.plan = "ending"
                                 /\ Cardinality(Serving(rendered.site)) > FreeCap}

(* One item per notice, however many channels are broken.                  *)
BadgeCount == Cardinality(Notices)

(* The layout's guild list, then the guild: a visit, or a refresh.         *)
ReadGuildList ==
  /\ listedLive = "none" /\ listedLive' = IF site.plan = "free" THEN "free" ELSE "live"
  /\ UNCHANGED <<site, rendered, dismissed, overview>>

(* A render outside the limit clears the marker.                           *)
ReadGuild ==
  /\ listedLive # "none" /\ listedLive' = "none"
  /\ rendered' = [live |-> listedLive = "live", site |-> site]
  /\ dismissed' = (dismissed /\ OverLimitPaused(rendered'))
  /\ UNCHANGED <<site, overview>>

DismissPaused ==
  /\ "paused" \in Notices /\ dismissed' = TRUE
  /\ UNCHANGED <<site, listedLive, rendered, overview>>

-----------------------------------------------------------------------------
(* The guild's rows, channels and plan change.                             *)

SiteIs(s) == site' = s /\ UNCHANGED <<guildPage, overview>>

SiteChanges ==
  \/ \E c \in Channels, r \in RowStates :
       site.migrated /\ r # site.rows[c] /\ SiteIs([site EXCEPT !.rows[c] = r])
  \/ \E c \in Channels, h \in Health :
       h # site.health[c] /\ SiteIs([site EXCEPT !.health[c] = h])
  \/ \E p \in {"free", "live", "ending"} :
       p # site.plan /\ SiteIs([site EXCEPT !.plan = p])
  \/ ~site.migrated /\ SiteIs([site EXCEPT !.migrated = TRUE])

OverviewInit ==
  /\ site \in {s \in Sites : s.migrated \/ Serving(s) \cup Paused(s) = {}}
  /\ rendered = [live |-> site.plan # "free", site |-> site]
  /\ listedLive = "none" /\ dismissed = FALSE
  /\ overview = [at |-> "idle", seen |-> site, reply |-> NoReply]

OverviewNext ==
  \/ RunOverview \/ (\E cache \in {"none", "guild", "member"} : ShowOverview(cache))
  \/ ReadGuildList \/ ReadGuild \/ DismissPaused

-----------------------------------------------------------------------------
(* What the reply of /ap overview says beside the page, of the same rows   *)
(* and channels, for a bot that knows its own permissions.                 *)

(* What one list names is on the other, and two of them that have a place  *)
(* in the sidebar stand in the same order.  Those hidden from the bot may  *)
(* not, though "the two surfaces can't disagree" (overview.ts:97).         *)
InPageOrder(list, all, placed) ==
  /\ Values(list) \subseteq Values(all)
  /\ \A x, y \in Values(list) \cap placed : Precedes(list, x, y) => Precedes(all, x, y)

(* The two count the same channels and the same broken ones; the reply     *)
(* lists rows of the page with its verdicts and in its order, paused       *)
(* channels as well; and the cap leaves out a broken channel only if all   *)
(* it lists are broken.                                                    *)
SaysAsPage(s, r, stored) ==
  LET all == DashboardList(s, IF s.migrated THEN Serving(s) ELSE Channels, stored)
      paused == Those(DashboardOrder(s, stored), Paused(s))
  IN /\ r.blocked = Len(Those(all, Broken))
     /\ IF r.view = "legacy" THEN r.more = Len(all)
        ELSE /\ r.more = Len(all) - Len(r.list)
             /\ r.more > 0 => Len(r.list) = MaxListed
             /\ r.blocked = Cardinality(NeedsFixing([site |-> s]))
             /\ InPageOrder(r.list, all, {x \in Verdicts : x.id \in Visible(s)})
             /\ \/ Broken \cap Values(all) \subseteq Values(r.list)
                \/ Values(r.list) \subseteq Broken
             /\ InPageOrder(r.paused, paused, Visible(s))

(* "Mirrors statusRank" (overview.ts:136), and "truncation only ever drops *)
(* healthy rows" (:36): whatever the order in which the page read its own. *)
OverviewAgrees ==
  (overview.at = "replied" /\ overview.reply.cache = "member")
    => \A stored \in Orders(Hidden(overview.seen)) :
         SaysAsPage(overview.seen, overview.reply, stored)
=============================================================================
