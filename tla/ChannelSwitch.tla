---------------------------- MODULE ChannelSwitch ----------------------------
(***************************************************************************)
(* Turning one channel on and off: the switch of the dashboard's Channels  *)
(* tab (channel-config.tsx) and the commands /ap enable and /ap disable    *)
(* (apps/bot/src/handlers/ap).  Each works from what it read before: the   *)
(* tab from the list it rendered, the command from its first answer.  The  *)
(* member is asked before a rule is deleted, and the write comes later.    *)
(***************************************************************************)
EXTENDS FilterRules

CONSTANT Calls  (* bound: calls of the tab in flight                         *)

VARIABLES
  room,       (* the guild's other channels leave a place under the free cap *)
  announces,  (* Discord lists the channel as an announcement channel        *)
  listed,     (* what the tab renders: [row, free, announces]                *)
  dialog,     (* the dialog it shows: [what, clear, saw]                     *)
  busy,       (* pendingChannelId is this channel                            *)
  call,       (* the tab's calls: [op, at, clear, asked, saw, answer]        *)
  command     (* the command at work: [at, clear, asked, saw]                *)

tab == <<listed, dialog, busy, call>>
switch == <<room, announces, tab, command>>

NoDialog == [what |-> "none", clear |-> FALSE, saw |-> {}]
NoCall == [op |-> "none", at |-> "idle", clear |-> FALSE, asked |-> FALSE,
           saw |-> {}, answer |-> "none"]
NoCommand == [at |-> "idle", clear |-> FALSE, asked |-> FALSE, saw |-> {}]

Listing == [row |-> row, free |-> ~premium, announces |-> announces]

SwitchTypeOK ==
  /\ room \in BOOLEAN /\ announces \in BOOLEAN /\ busy \in BOOLEAN
  /\ listed.row \in Rows /\ listed.free \in BOOLEAN
  /\ dialog.what \in {"none", "filtersBlocked", "guide", "disable", "limit"}
  /\ dialog.saw \subseteq 1..MaxIds
  /\ \A c \in Calls : /\ call[c].op \in {"none", "enable", "disable"}
                      /\ call[c].at \in {"idle", "sent", "answered"}
                      /\ call[c].saw \subseteq 1..MaxIds
  /\ command.at \in {"idle", "enable", "choice", "retry", "status", "confirm", "delete"}
  /\ command.saw \subseteq 1..MaxIds

SwitchInit ==
  /\ room = TRUE /\ announces = TRUE /\ listed = Listing
  /\ dialog = NoDialog /\ busy = FALSE
  /\ call = [c \in Calls |-> NoCall] /\ command = NoCommand

-----------------------------------------------------------------------------
(* The two routes, for the tab and the bot alike.                          *)

Result(a, r) == [answer |-> a, row |-> r]

(* A mutation: a free guild's rule is dropped without its consent.         *)
AddUnasked(clear) ==
  IF ~announces THEN Result("notAnnouncement", row)
  ELSE IF row.state = "serving" THEN Result("conflict", row)
  ELSE IF ~premium /\ ~room THEN Result("limit", row)
  ELSE Result("ok", IF Exists /\ premium THEN [row EXCEPT !.state = "serving"] ELSE NewRow)

(* Channels.add: the type, the conflict, the cap, then the rule that a free*)
(* guild cannot run, which is dropped with consent and never restored.     *)
AddChannel(clear) ==
  IF ~announces THEN Result("notAnnouncement", row)
  ELSE IF row.state = "serving" THEN Result("conflict", row)
  ELSE IF ~premium /\ ~room THEN Result("limit", row)
  ELSE IF ~Exists THEN Result("ok", NewRow)
  ELSE LET dropped == row.filters # <<>> /\ ~premium IN
       IF dropped /\ ~clear THEN Result("filters", row)
       ELSE Result("ok", [row EXCEPT !.state = "serving",
                            !.filters = IF dropped THEN <<>> ELSE @])

(* Channels.remove leaves nothing of the channel, and nothing is fine.     *)
RemoveChannel == Result("ok", NoRow)

-----------------------------------------------------------------------------
(* The Channels tab.                                                       *)

ListedOn == listed.row.state = "serving"
ListedIds == IdsOf(listed.row.filters)

Reload ==
  /\ listed # Listing /\ listed' = Listing
  /\ UNCHANGED <<rules, room, announces, dialog, busy, call, command>>

Ask(what, clear) ==
  dialog' = [what |-> what, clear |-> clear, saw |-> ListedIds] /\ UNCHANGED <<busy, call>>

Send(c, op, clear, asked, saw) ==
  /\ call[c] = NoCall
  /\ call' = [call EXCEPT ![c] = [op |-> op, at |-> "sent", clear |-> clear,
                                  asked |-> asked, saw |-> saw, answer |-> "none"]]
  /\ busy' = TRUE /\ dialog' = NoDialog

(* toggleFor, off to on: a free guild is asked about the rule it sees      *)
(* before it is walked through the guide.                                  *)
SwitchOn ==
  /\ dialog = NoDialog /\ ~busy /\ ~ListedOn /\ listed.announces
  /\ IF listed.free /\ ListedIds # {} THEN Ask("filtersBlocked", FALSE) ELSE Ask("guide", FALSE)
  /\ UNCHANGED <<rules, room, announces, listed, command>>

(* On to off, or Disable in the row's Fix dialog, which has no busy state. *)
SwitchOff(c) ==
  /\ dialog = NoDialog /\ ListedOn /\ busy => ~listed.announces
  /\ IF ListedIds # {} THEN Ask("disable", FALSE) ELSE Send(c, "disable", FALSE, FALSE, ListedIds)
  /\ UNCHANGED <<rules, room, announces, listed, command>>

ClearFilters ==
  /\ dialog.what = "filtersBlocked"
  /\ dialog' = [dialog EXCEPT !.what = "guide", !.clear = TRUE]
  /\ UNCHANGED <<rules, room, announces, listed, busy, call, command>>

ConfirmGuide(c) ==
  /\ dialog.what = "guide" /\ Send(c, "enable", dialog.clear, dialog.clear, dialog.saw)
  /\ UNCHANGED <<rules, room, announces, listed, command>>

ConfirmDisable(c) ==
  /\ dialog.what = "disable" /\ Send(c, "disable", FALSE, TRUE, dialog.saw)
  /\ UNCHANGED <<rules, room, announces, listed, command>>

CloseDialog ==
  /\ dialog # NoDialog /\ dialog' = NoDialog
  /\ UNCHANGED <<rules, room, announces, listed, busy, call, command>>

(* Another channel is toggled: pendingChannelId names one channel only.    *)
ToggleOther ==
  /\ busy /\ busy' = FALSE
  /\ UNCHANGED <<rules, room, announces, listed, dialog, call, command>>

(* The route runs, or refuses with a 5xx; either answer can be lost.       *)
Land(c) ==
  /\ call[c].at = "sent"
  /\ LET o == IF call[c].op = "enable" THEN AddChannel(call[c].clear) ELSE RemoveChannel IN
     \/ /\ row' = o.row
        /\ \E a \in {o.answer, "lost"} :
             call' = [call EXCEPT ![c].at = "answered", ![c].answer = a]
     \/ /\ UNCHANGED row
        /\ call' = [call EXCEPT ![c].at = "answered", ![c].answer = "failed"]
  /\ UNCHANGED <<premium, fresh, room, announces, listed, dialog, busy, command>>

(* handleToggleChannel: two answers open a dialog, the others are toasts.  *)
Answered(c) ==
  /\ call[c].at = "answered"
  /\ call' = [call EXCEPT ![c] = NoCall] /\ busy' = FALSE
  /\ dialog' = CASE call[c].answer = "filters" ->
                      [what |-> "filtersBlocked", clear |-> FALSE, saw |-> call[c].saw]
                 [] call[c].answer = "limit" -> [NoDialog EXCEPT !.what = "limit"]
                 [] OTHER -> dialog
  /\ UNCHANGED <<rules, room, announces, listed, command>>

-----------------------------------------------------------------------------
(* The commands.  One replies before the next is run.                      *)

Commanding(h) == command' = h /\ UNCHANGED <<room, announces, tab>>

(* Both check the member in the channel, and enable the bot's permissions. *)
RunEnable ==
  command.at = "idle" /\ Commanding([NoCommand EXCEPT !.at = "enable"]) /\ UNCHANGED rules

(* A refusal for the rule is a choice, offered for a minute.               *)
EnableAnswers ==
  /\ command.at = "enable"
  /\ LET o == AddChannel(FALSE) IN
     /\ row' = o.row
     /\ Commanding(IF o.answer = "filters"
                   THEN [NoCommand EXCEPT !.at = "choice", !.saw = IdsOf(row.filters)]
                   ELSE NoCommand)
  /\ UNCHANGED <<premium, fresh>>

ChooseClear ==
  /\ command.at = "choice"
  /\ Commanding([command EXCEPT !.at = "retry", !.clear = TRUE, !.asked = TRUE])
  /\ UNCHANGED rules

RetryAnswers ==
  /\ command.at = "retry" /\ row' = AddChannel(command.clear).row
  /\ Commanding(NoCommand) /\ UNCHANGED <<premium, fresh>>

RunDisable ==
  command.at = "idle" /\ Commanding([NoCommand EXCEPT !.at = "status"]) /\ UNCHANGED rules

(* A paused channel reads as not enabled.                                  *)
StatusAnswers ==
  /\ command.at = "status"
  /\ Commanding(IF row.state # "serving" THEN NoCommand
                ELSE [NoCommand EXCEPT !.saw = IdsOf(row.filters),
                        !.at = IF row.filters # <<>> THEN "confirm" ELSE "delete"])
  /\ UNCHANGED rules

ChooseDisable ==
  /\ command.at = "confirm"
  /\ Commanding([command EXCEPT !.at = "delete", !.asked = TRUE]) /\ UNCHANGED rules

(* The reply says disabled whether the call succeeded or not.              *)
DeleteAnswers ==
  /\ command.at = "delete" /\ row' = RemoveChannel.row
  /\ Commanding(NoCommand) /\ UNCHANGED <<premium, fresh>>

(* A call fails or throws, a choice is declined, or its minute is over.    *)
CommandEnds ==
  command.at # "idle" /\ Commanding(NoCommand) /\ UNCHANGED rules

-----------------------------------------------------------------------------
RoomChanges ==
  /\ room' = ~room
  /\ UNCHANGED <<rules, announces, tab, command>>

ChannelConverted ==
  /\ announces' = ~announces
  /\ UNCHANGED <<rules, room, tab, command>>

TabStep ==
  \/ Reload \/ SwitchOn \/ ClearFilters \/ CloseDialog \/ ToggleOther
  \/ \E c \in Calls : \/ SwitchOff(c) \/ ConfirmGuide(c) \/ ConfirmDisable(c)
                      \/ Land(c) \/ Answered(c)

CommandStep ==
  \/ RunEnable \/ EnableAnswers \/ ChooseClear \/ RetryAnswers
  \/ RunDisable \/ StatusAnswers \/ ChooseDisable \/ DeleteAnswers \/ CommandEnds

SwitchNext == TabStep \/ CommandStep
Surroundings == RoomChanges \/ ChannelConverted

-----------------------------------------------------------------------------
(* Enabling never deletes a condition unless the member agreed to it in    *)
(* that very exchange; disabling never deletes, unconfirmed, one that its  *)
(* surface had read: whatever the plan, the cap, another tab or the other  *)
(* surface did between the reading and the write, and whichever call was   *)
(* answered first.  (One added since the reading goes without a word.)     *)
Deleted == IdsOf(row.filters) \ IdsOf(row'.filters)

WarnedBeforeLoss ==
  [][ /\ \A c \in Calls :
           (call[c].at = "sent" /\ call'[c].at # "sent" /\ ~call[c].asked)
             => Deleted \cap (IF call[c].op = "enable" THEN Deleted ELSE call[c].saw) = {}
      /\ (command' # command /\ ~command.asked)
             => Deleted \cap (IF command.at = "enable" THEN Deleted ELSE command.saw) = {}
    ]_<<rules, switch>>
=============================================================================
