------------------------------ MODULE MCSurfaces ------------------------------
(***************************************************************************)
(* The surfaces a guild's admins hold, each in a behaviour of its own: the *)
(* panel of /ap filters, its clock, the dashboard's filter editor, the     *)
(* switch of one channel, the two switches of Rollover, the two overviews, *)
(* the purchase, and the publish state the dashboard shows.  A behaviour   *)
(* chooses one surface and leaves the others as they begin, so that one    *)
(* run checks them all.                                                    *)
(***************************************************************************)
EXTENDS FilterPanel, PanelClock, RuleEditor, ChannelSwitch, RolloverSwitch,
        GuildOverview, Checkout, PublishState, TLC

CONSTANTS
  Surfaces,   (* those of the run                                            *)
  MaxOutside  (* bound: changes made elsewhere, for each surface             *)

VARIABLES
  surface,    (* the one in use                                              *)
  outside     (* changes made elsewhere so far                               *)

scope == <<surface, outside>>

QuietSite == [rows |-> [c \in Channels |-> "off"], health |-> [c \in Channels |-> "ok"],
              migrated |-> TRUE, plan |-> "free"]

(* Only the surface in use has a choice of beginnings.  A behaviour of the *)
(* panel has a failing call or a change made elsewhere.  An overview       *)
(* begins with rows for all channels, two of which serve, or in a guild    *)
(* that has not migrated.                                                  *)
Init ==
  /\ surface \in Surfaces
  /\ RulesInit /\ (row.filters # <<>> <=> surface = "switch")
  /\ PanelInit /\ (surface # "panel" => faults = 0)
  /\ outside = IF faults = 0 THEN 0 ELSE MaxOutside + 1
  /\ ClockInit /\ SwitchInit /\ EditorInit /\ (surface # "editor" => ~mounted)
  /\ RolloverInit /\ (surface # "rollover" => ~setting)
  /\ IF surface # "overview" THEN site = QuietSite
     ELSE /\ site \in Sites /\ site.plan = "free"
          /\ site.migrated => /\ \A c \in Channels : site.rows[c] \in {"serving", "paused"}
                              /\ Cardinality(Serving(site)) >= 2
  /\ OverviewInit
  /\ CheckoutInit /\ (surface # "checkout" => migratedAt)
  /\ PublishInit /\ (surface # "publish" => \A c \in News : kind[c] = "open")

Elsewhere(A) == outside < MaxOutside /\ outside' = outside + 1 /\ A
Within(A) == A /\ UNCHANGED outside

PanelTurn ==
  /\ surface = "panel"
  /\ \/ Within(PanelNext) \/ Within(TabNext) \/ Elsewhere(LoseManager)
     \/ \E m \in Modes, k \in Kinds : Elsewhere(TabSaves(m, <<k>>))
     \/ Elsewhere(RowMoves) /\ UNCHANGED panel
  /\ UNCHANGED <<surface, clock, editor, switch, setters, overviewVars, sale, pubVars>>

ClockTurn ==
  /\ surface = "clock" /\ Within(ClockNext)
  /\ UNCHANGED <<surface, rules, panel, editor, switch, setters, overviewVars, sale, pubVars>>

EditorTurn ==
  /\ surface = "editor" /\ (Within(EditorNext) \/ Elsewhere(Others))
  /\ UNCHANGED <<surface, panel, clock, switch, setters, overviewVars, sale, pubVars>>

SwitchTurn ==
  /\ surface = "switch"
  /\ \/ Within(SwitchNext) \/ Elsewhere(Surroundings)
     \/ Elsewhere(RulesNext) /\ UNCHANGED switch
  /\ UNCHANGED <<surface, panel, clock, editor, setters, overviewVars, sale, pubVars>>

RolloverTurn ==
  /\ surface = "rollover" /\ Within(RolloverNext)
  /\ UNCHANGED <<surface, rules, panel, clock, editor, switch, overviewVars, sale, pubVars>>

OverviewTurn ==
  /\ surface = "overview" /\ (Within(OverviewNext) \/ Elsewhere(SiteChanges))
  /\ UNCHANGED <<surface, rules, panel, clock, editor, switch, setters, sale, pubVars>>

CheckoutTurn ==
  /\ surface = "checkout" /\ Within(CheckoutNext)
  /\ UNCHANGED <<surface, rules, panel, clock, editor, switch, setters, overviewVars, pubVars>>

PublishTurn ==
  /\ surface = "publish" /\ Within(PublishNext)
  /\ UNCHANGED <<surface, rules, panel, clock, editor, switch, setters, overviewVars, sale>>

Next ==
  \/ PanelTurn \/ ClockTurn \/ EditorTurn \/ SwitchTurn
  \/ RolloverTurn \/ OverviewTurn \/ CheckoutTurn \/ PublishTurn

TypeOK ==
  /\ RulesTypeOK /\ PanelTypeOK /\ ClockTypeOK /\ EditorTypeOK /\ SwitchTypeOK
  /\ RolloverTypeOK /\ OverviewTypeOK /\ CheckoutTypeOK /\ PublishTypeOK

(* Only the panel tells the two kinds of keyword condition apart; in the   *)
(* editor, a row of which a part is refused stands alone; of the two       *)
(* overviews a behaviour uses one; a change made elsewhere overlaps the     *)
(* panel's handlers one at a time; one dashboard is read at a time.        *)
OnScreen(k) == \E i \in DOMAIN screen.conds : screen.conds[i] = k
Sizes ==
  /\ surface # "panel" =>
       ~OnScreen("long") /\ \A i \in DOMAIN row.filters : row.filters[i].kind # "long"
  /\ OnScreen("mixed") => Len(screen.conds) = 1
  /\ overview.at # "idle" => listedLive = "none" /\ ~dismissed
  /\ surface = "panel" /\ outside \in 1..MaxOutside =>
       Cardinality({s \in Slots : handler[s] # Idle}) <= 1
  /\ Cardinality({w \in Writers : job[w].at = "misses"}) <= 1

(* Slots, calls, presses, buyers and writers are the same model values.    *)
Symmetry == Permutations(Slots)
=============================================================================
