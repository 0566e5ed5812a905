---------------------------- MODULE RolloverSwitch ---------------------------
(***************************************************************************)
(* The guild's Rollover setting in the hands of its two switches: the      *)
(* panel of /ap rollover (apps/bot/src/handlers/ap/rollover.ts), whose     *)
(* presses overlap, and the card of the Channels tab (rollover-card.tsx),  *)
(* which shows a change before it is made.  Each PUT is one step; inside   *)
(* it is SetRollover of ChannelServing.                                    *)
(***************************************************************************)
EXTENDS Naturals

CONSTANT Presses  (* bound: presses of the panel at work                     *)

VARIABLES
  setting,    (* the guild row's rolloverEnabled                             *)
  entitled,   (* the guild is on Premium                                     *)
  rollPanel,  (* the panel: [open, shows, on]                                *)
  press,      (* each press: [at, enabled, answer]                           *)
  card,       (* the card: [enabled, data, locked]; serverEnabled is data    *)
  put,        (* the card's call: [at, next, previous, answer]               *)
  refreshing, (* a router.refresh of the card's is not done                  *)
  crossed     (* history: since the page was loaded, a change of the card's  *)
              (* has met a change of what is in effect by others, or its own *)
              (* refresh: one that landed during its call, or was pending    *)

setters == <<setting, entitled, rollPanel, press, card, put, refreshing, crossed>>

NoPress == [at |-> "idle", enabled |-> FALSE, answer |-> "none"]
NoPut == [at |-> "idle", next |-> FALSE, previous |-> FALSE, answer |-> "none"]
PutAnswers == {"none", "on", "off", "inactive", "failed"}

RolloverTypeOK ==
  /\ setting \in BOOLEAN /\ entitled \in BOOLEAN
  /\ rollPanel \in [open : BOOLEAN, shows : {"on", "off", "notice"}, on : BOOLEAN]
  /\ press \in [Presses -> [at : {"idle", "sent", "answered"}, enabled : BOOLEAN,
                            answer : PutAnswers]]
  /\ card \in [enabled : BOOLEAN, data : BOOLEAN, locked : BOOLEAN]
  /\ put \in [at : {"idle", "sent", "answered"}, next : BOOLEAN, previous : BOOLEAN,
              answer : PutAnswers]
  /\ refreshing \in BOOLEAN /\ crossed \in BOOLEAN

(* rolloverInEffect                                                        *)
Effective == entitled /\ setting
Shown(on) == IF on THEN "on" ELSE "off"

(* The panel opens only under Premium, on what it read.                    *)
RolloverInit ==
  /\ setting \in BOOLEAN /\ entitled = TRUE
  /\ rollPanel = [open |-> TRUE, shows |-> Shown(Effective), on |-> Effective]
  /\ press = [p \in Presses |-> NoPress]
  /\ card = [enabled |-> Effective, data |-> Effective, locked |-> FALSE]
  /\ put = NoPut /\ refreshing = FALSE /\ crossed = FALSE

(* PUT .../rollover: only turning it on asks for the plan, and the answer  *)
(* is what is in effect.  A failure can be before the write or after it.   *)
PutRollover(enabled, a) ==
  /\ a \in PutAnswers \ {"none"}
  /\ CASE enabled /\ ~entitled -> a \in {"inactive", "failed"} /\ UNCHANGED setting
       [] a = "failed" -> setting' \in {setting, enabled}
       [] OTHER -> setting' = enabled /\ a = Shown(entitled /\ enabled)

(* Whether the card is in the middle of a change.                          *)
Changing == put # NoPut \/ refreshing
Crosses == crossed' = (crossed \/ (Changing /\ Effective' # Effective))

-----------------------------------------------------------------------------
(* The panel.                                                              *)

Renders(on) == rollPanel' = [rollPanel EXCEPT !.shows = Shown(on), !.on = on]
Replaced(open) == rollPanel' = [rollPanel EXCEPT !.shows = "notice", !.open = open]

(* A press is acknowledged, its member checked, and the call made for the  *)
(* state its button was drawn with.                                        *)
PressToggle(p) ==
  /\ rollPanel.open /\ rollPanel.shows # "notice" /\ press[p] = NoPress
  /\ press' = [press EXCEPT ![p] = [at |-> "sent", enabled |-> rollPanel.shows = "off",
                                    answer |-> "none"]]
  /\ UNCHANGED <<setting, entitled, rollPanel, card, put, refreshing, crossed>>

(* A member without Manage Server ends it.                                 *)
PressForbidden ==
  /\ rollPanel.open /\ rollPanel.shows # "notice" /\ Replaced(FALSE)
  /\ UNCHANGED <<setting, entitled, press, card, put, refreshing, crossed>>

PressLands(p) ==
  /\ press[p].at = "sent"
  /\ \E a \in PutAnswers :
       /\ PutRollover(press[p].enabled, a)
       /\ press' = [press EXCEPT ![p].at = "answered", ![p].answer = a]
  /\ UNCHANGED <<entitled, rollPanel, card, put, refreshing>> /\ Crosses

(* Its outcome is drawn over what another press drew since: a failure with *)
(* the state last confirmed, a lapsed plan instead of the panel.           *)
PressAnswered(p) ==
  /\ press[p].at = "answered"
  /\ CASE press[p].answer \in {"on", "off"} -> Renders(press[p].answer = "on")
       [] press[p].answer = "inactive" -> Replaced(FALSE)
       [] OTHER -> Renders(rollPanel.on) \/ Replaced(rollPanel.open)
  /\ press' = [press EXCEPT ![p] = NoPress]
  /\ UNCHANGED <<setting, entitled, card, put, refreshing, crossed>>

(* Ten minutes without a press.                                            *)
PanelIdle ==
  /\ rollPanel.open /\ press = [p \in Presses |-> NoPress] /\ Replaced(FALSE)
  /\ UNCHANGED <<setting, entitled, press, card, put, refreshing, crossed>>

-----------------------------------------------------------------------------
(* The card.                                                               *)

CardToggle ==
  /\ ~card.locked /\ put = NoPut
  /\ card' = [card EXCEPT !.enabled = ~@]
  /\ put' = [at |-> "sent", next |-> ~card.enabled, previous |-> card.enabled,
             answer |-> "none"]
  /\ crossed' = (crossed \/ refreshing)
  /\ UNCHANGED <<setting, entitled, rollPanel, press, refreshing>>

PutLands ==
  /\ put.at = "sent"
  /\ \E a \in PutAnswers :
       PutRollover(put.next, a) /\ put' = [put EXCEPT !.at = "answered", !.answer = a]
  /\ UNCHANGED <<entitled, rollPanel, press, card, refreshing, crossed>>

(* A mutation: after a failure the card keeps what it showed ahead.        *)
KeptAhead == IF put.answer \in {"on", "off"} THEN put.answer = "on" ELSE put.next

(* What it shows then: the answer, or after a failure what it showed       *)
(* before.                                                                 *)
Settled == IF put.answer \in {"on", "off"} THEN put.answer = "on" ELSE put.previous

PutAnswered ==
  /\ put.at = "answered" /\ put' = NoPut /\ refreshing' = TRUE
  /\ card' = [card EXCEPT !.enabled = Settled]
  /\ UNCHANGED <<setting, entitled, rollPanel, press, crossed>>

(* A refresh lands: what the server says replaces what the card shows when *)
(* it differs from what the server said before.                            *)
CardRefresh ==
  /\ card' = [data |-> Effective, locked |-> ~entitled,
              enabled |-> IF card.data # Effective THEN Effective ELSE card.enabled]
  /\ (refreshing \/ card' # card) /\ refreshing' = FALSE
  /\ crossed' = (crossed \/ put # NoPut)
  /\ UNCHANGED <<setting, entitled, rollPanel, press, put>>

(* The page is loaded anew.                                                *)
CardReload ==
  /\ put = NoPut /\ refreshing' = FALSE /\ crossed' = FALSE
  /\ card' = [enabled |-> Effective, data |-> Effective, locked |-> ~entitled]
  /\ UNCHANGED <<setting, entitled, rollPanel, press, put>>

PlanFlips ==
  /\ entitled' = ~entitled
  /\ UNCHANGED <<setting, rollPanel, press, card, put, refreshing>> /\ Crosses

RolloverNext ==
  \/ \E p \in Presses : PressToggle(p) \/ PressLands(p) \/ PressAnswered(p)
  \/ PressForbidden \/ PanelIdle
  \/ CardToggle \/ PutLands \/ PutAnswered \/ CardRefresh \/ CardReload \/ PlanFlips

-----------------------------------------------------------------------------
(* "The write may have landed before the failure; re-sync to server truth" *)
(* (rollover-card.tsx:57): once its calls are answered and its refreshes   *)
(* have landed, the card shows what the server said last, also after a     *)
(* call that failed behind its write, was refused, or was made from a page *)
(* that was out of date.  It need not where the change met another's, or a *)
(* refresh of its own: what the server says is then no news, and the card  *)
(* stays wrong until the setting changes again or the page is loaded anew. *)
CardSettles == ~Changing /\ ~crossed => card.enabled = card.data
=============================================================================
