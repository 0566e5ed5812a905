----------------------------- MODULE FilterPanel -----------------------------
(***************************************************************************)
(* The bot's /ap filters panel (apps/bot/src/handlers/ap/filter): one      *)
(* ephemeral message of one member, edited in place.  Every press starts a *)
(* handler of the panel's collector, and handlers overlap: each await ends *)
(* an action, and the member presses what the last edit left on screen.    *)
(*                                                                         *)
(* The panel is what its last edit shows (view); the buttons follow from   *)
(* it.  Its timers are in PanelClock.                                      *)
(***************************************************************************)
EXTENDS FilterRules

CONSTANTS
  Slots,      (* bound: handlers at a time                                   *)
  PerPage,    (* CONDITIONS_PER_PAGE                                         *)
  MaxFaults   (* bound: failing backend calls, with one handler at a time    *)

ASSUME PanelAssumption == PerPage \in Nat \ {0} /\ MaxFaults \in Nat

VARIABLES
  open,       (* the collector runs                                          *)
  view,       (* what the panel shows: [what, ids, mode, page, id]           *)
  page,       (* the page kept across renders                                *)
  pendingType,(* the type picked and not yet added, or "none"                *)
  handler,    (* each slot: a handler of one press                           *)
  form,       (* the slot whose form is on the member's screen, or NoForm    *)
  manager,    (* the member may manage the channel                           *)
  faults,     (* failures still to come                                      *)
  draft       (* a save of the dashboard's, or NoDraft: [at, seen, filters,  *)
              (* mode, from]                                                 *)

panel == <<open, view, page, pendingType, handler, form, manager, faults, draft>>

NoForm == "none"
Notice == [what |-> "notice", ids |-> <<>>, mode |-> "all", page |-> 0, id |-> 0]
Idle == [act |-> "none", id |-> 0, at |-> "idle", seen |-> NoRow,
         type |-> "none", kind |-> "none", last |-> FALSE, lost |-> FALSE]

NoDraft == [at |-> "none", seen |-> NoRow, filters |-> <<>>, mode |-> "all", from |-> 0]

Acts == {"none", "add", "focus", "page", "any", "all", "edit", "remove",
         "confirm", "back"}
Views == {"list", "focus", "confirm", "notice"}

(* How far the backend is with a handler's call.                           *)
RouteStages == {"check", "list", "store", "undo"}

PanelTypeOK ==
  /\ open \in BOOLEAN /\ manager \in BOOLEAN /\ faults \in 0..MaxFaults
  /\ view.what \in Views /\ view.mode \in Modes
  /\ view.ids \in BoundedSeq(1..MaxIds, MaxIds)
  /\ page \in Nat /\ view.page \in Nat /\ view.id \in 0..MaxIds
  /\ pendingType \in Types \cup {"none"}
  /\ \A s \in Slots :
       /\ handler[s].act \in Acts /\ handler[s].id \in 0..MaxIds
       /\ handler[s].at \in {"idle", "read", "show", "form"} \cup RouteStages
       /\ handler[s].seen \in Rows /\ handler[s].lost \in BOOLEAN
       /\ handler[s].kind \in Kinds \cup {"none"}
  /\ form \in Slots \cup {NoForm}
  /\ draft.at \in {"none", "store", "undo"} /\ draft.seen \in Rows
  /\ draft.filters \in BoundedSeq(Conditions, MaxIds) /\ draft.mode \in Modes
  /\ draft.from \in 0..MaxIds

-----------------------------------------------------------------------------
(* The views.                                                              *)

Pages(fs) == IF fs = <<>> THEN 1 ELSE (Len(fs) + PerPage - 1) \div PerPage

(* The page a list view shows: the one asked for, if there still is one.   *)
Clamp(fs, p) == IF p >= Pages(fs) THEN Pages(fs) - 1 ELSE p

OnPage(ids, p) ==
  {ids[i] : i \in {j \in DOMAIN ids : j > p * PerPage /\ j <= (p + 1) * PerPage}}

Button(act, id) == [act |-> act, id |-> id]

ListButtons(ids, mode, p) ==
  {Button("add", 0)}
    \cup {Button("focus", id) : id \in OnPage(ids, p)}
    \cup {Button(m, 0) : m \in IF Len(ids) > 1 THEN Modes \ {mode} ELSE {}}
    \cup {Button("page", n) : n \in {n \in 0..Pages(ids) - 1 : n + 1 = p \/ n = p + 1}}

FocusButtons(id) == {Button("back", 0), Button("edit", id), Button("remove", id)}
ConfirmButtons(id) == {Button("back", 0), Button("confirm", id), Button("focus", id)}

Buttons ==
  CASE view.what = "list" -> ListButtons(view.ids, view.mode, view.page)
    [] view.what = "focus" -> FocusButtons(view.id)
    [] view.what = "confirm" -> ConfirmButtons(view.id)
    [] view.what = "notice" -> {}

ShowList(seen, p) ==
  /\ page' = Clamp(seen.filters, p)
  /\ view' = [what |-> "list", ids |-> IdList(seen.filters), mode |-> seen.mode,
              page |-> page', id |-> 0]

ShowOne(what, id) ==
  view' = [Notice EXCEPT !.what = what, !.id = id] /\ UNCHANGED page

ShowNotice == view' = Notice /\ UNCHANGED page

(* Whether the form that would edit a condition can carry its values.      *)
FitsEditModal(c) == c.kind # "long"

-----------------------------------------------------------------------------
(* The member.                                                             *)

Become(s, h) == handler' = [handler EXCEPT ![s] = h]
Finish(s) == Become(s, Idle)

(* The command's own checks are those of the panel's first read.           *)
PanelInit ==
  /\ open = TRUE /\ page = 0 /\ pendingType = "none"
  /\ view = [Notice EXCEPT !.what = "list", !.ids = IdList(row.filters), !.mode = row.mode]
  /\ handler = [s \in Slots |-> Idle]
  /\ form = NoForm /\ manager = TRUE /\ faults \in {0, MaxFaults} /\ draft = NoDraft

(* A pick is recorded without a render.                                    *)
PickType(t) ==
  /\ open /\ manager /\ view.what = "list" /\ form = NoForm
  /\ pendingType # t /\ pendingType' = t
  /\ UNCHANGED <<rules, draft, open, view, page, handler, form, manager, faults>>

(* Every press re-checks the member, and ends the panel on a refusal.      *)
PressDenied ==
  /\ open /\ ~manager /\ Buttons # {}
  /\ ShowNotice /\ open' = FALSE /\ form' = NoForm
  /\ UNCHANGED <<rules, draft, pendingType, handler, manager, faults>>

Press(s, b) ==
  /\ open /\ manager /\ b \in Buttons /\ form = NoForm
  /\ handler[s] = Idle
  /\ faults > 0 => handler = [t \in Slots |-> Idle]
  /\ b.act = "add" => pendingType # "none"
  /\ Become(s, [Idle EXCEPT !.act = b.act, !.id = b.id,
                  !.at = IF b.act \in {"any", "all", "confirm"}
                         THEN "list" ELSE "read"])
  /\ UNCHANGED <<rules, draft, open, view, page, pendingType, form, manager, faults>>

Dismiss ==
  /\ form # NoForm /\ form' = NoForm
  /\ UNCHANGED <<rules, draft, open, view, page, pendingType, handler, manager, faults>>

LoseManager ==
  /\ manager /\ manager' = FALSE
  /\ UNCHANGED <<rules, draft, open, view, page, pendingType, handler, form, faults>>

-----------------------------------------------------------------------------
(* The handlers.                                                           *)

(* readState: a paused channel is not enabled, and a failed read shows     *)
(* nothing either.                                                         *)
Read(s) ==
  /\ handler[s].at = "read"
  /\ \E failed \in BOOLEAN :
       /\ failed => faults > 0
       /\ faults' = IF failed THEN faults - 1 ELSE faults
       /\ Become(s, [handler[s] EXCEPT !.at = "show",
            !.seen = IF failed \/ row.state # "serving" THEN NoRow ELSE row])
  /\ UNCHANGED <<rules, draft, open, view, page, pendingType, form, manager>>

Seen(s) == handler[s].seen
Gone(s) == handler[s].id \notin IdsOf(Seen(s).filters)
Target(s) == Seen(s).filters[Position(Seen(s).filters, handler[s].id)]

(* The branches of route that need no form.                                *)
Route(s) ==
  LET h == handler[s] IN
  IF Seen(s).state # "serving" \/ (h.act = "add" /\ pendingType = "none") THEN ShowNotice
  ELSE CASE h.act = "page" -> ShowList(Seen(s), h.id)
         [] h.act = "back" ->
              ShowList(Seen(s), IF h.last THEN Pages(Seen(s).filters) - 1 ELSE page)
         [] h.act \in {"focus", "remove"} ->
              IF Gone(s) THEN ShowList(Seen(s), page)
              ELSE ShowOne(IF h.act = "remove" THEN "confirm" ELSE "focus",
                           h.id)
         [] OTHER -> ShowList(Seen(s), page)

NeedsForm(s) ==
  /\ Seen(s).state = "serving"
  /\ \/ handler[s].act = "add" /\ Len(Seen(s).filters) < Limit /\ pendingType # "none"
     \/ handler[s].act = "edit" /\ ~Gone(s) /\ FitsEditModal(Target(s))

Show(s) ==
  /\ handler[s].at = "show" /\ ~NeedsForm(s)
  /\ Route(s) /\ Finish(s)
  /\ UNCHANGED <<rules, draft, open, pendingType, form, manager, faults>>

(* showModal: the type is the one picked when the form opens.              *)
OpenForm(s) ==
  /\ handler[s].at = "show" /\ NeedsForm(s)
  /\ form' = s
  /\ Become(s, [handler[s] EXCEPT !.at = "form", !.seen = NoRow,
       !.type = IF handler[s].act = "add" THEN pendingType ELSE TypeOf(Target(s).kind)])
  /\ UNCHANGED <<rules, draft, open, view, page, pendingType, manager, faults>>

(* awaitModalSubmit runs out, whether the form was dismissed or not.       *)
Lapse(s) ==
  /\ handler[s].at = "form"
  /\ Finish(s) /\ form' = IF form = s THEN NoForm ELSE form
  /\ UNCHANGED <<rules, draft, open, view, page, pendingType, manager, faults>>

(* extractModalValues: a form without values, with too many, or with what  *)
(* is no webhook id goes back to the list.                                 *)
SubmitInvalid(s) ==
  /\ form = s /\ handler[s].at = "form" /\ manager
  /\ form' = NoForm /\ Become(s, [Idle EXCEPT !.act = "back", !.at = "read"])
  /\ UNCHANGED <<rules, draft, open, view, page, pendingType, manager, faults>>

SubmitDenied(s) ==
  /\ form = s /\ handler[s].at = "form" /\ ~manager
  /\ form' = NoForm /\ Finish(s) /\ ShowNotice
  /\ UNCHANGED <<rules, draft, open, pendingType, manager, faults>>

Submit(s, k) ==
  /\ form = s /\ handler[s].at = "form" /\ manager
  /\ k # "long" /\ TypeOf(k) = handler[s].type
  /\ form' = NoForm
  /\ Become(s, [handler[s] EXCEPT !.at = "check", !.kind = k])
  /\ UNCHANGED <<rules, draft, open, view, page, pendingType, manager, faults>>

-----------------------------------------------------------------------------
(* The call of a handler.  It shows the list with a notice once it has an  *)
(* answer.  A pick is spent only once it has become a condition.           *)

Answer(s, ok) ==
  LET added == ok /\ handler[s].act = "add" IN
  IF handler[s].lost THEN Finish(s) /\ UNCHANGED pendingType
  ELSE /\ Become(s, [Idle EXCEPT !.act = "back", !.at = "read", !.last = added])
       /\ pendingType' = IF added THEN "none" ELSE pendingType

(* Adding and updating ask the row first; a condition added gets its id    *)
(* then.                                                                   *)
RouteChecks(s) ==
  /\ handler[s].at = "check"
  /\ LET h == handler[s]
         passes == IF h.act = "add" THEN MayAdd ELSE MayUpdate(h.id)
     IN  IF ~passes THEN Answer(s, FALSE) /\ UNCHANGED fresh
         ELSE /\ IF h.act = "add" THEN Mint(<<h.kind>>) ELSE UNCHANGED fresh
              /\ Become(s, [h EXCEPT !.at = "list", !.id = IF h.act = "add" THEN fresh' ELSE @])
              /\ UNCHANGED pendingType
  /\ UNCHANGED <<row, premium, draft, open, view, page, form, manager, faults>>

(* Of what it reads it needs the conditions or the mode, as it writes.     *)
NeededBy(h) ==
  IF h.act \in Modes THEN [NoRow EXCEPT !.mode = row.mode]
  ELSE [NoRow EXCEPT !.filters = row.filters]

RouteReads(s) ==
  /\ handler[s].at = "list"
  /\ IF Exists /\ (handler[s].act = "edit" => MayUpdate(handler[s].id))
     THEN Become(s, [handler[s] EXCEPT !.at = "store", !.seen = NeededBy(handler[s])]) /\ UNCHANGED pendingType
     ELSE Answer(s, FALSE)
  /\ UNCHANGED <<rules, draft, open, view, page, form, manager, faults>>

(* The write: the list made of the one it read, or the mode.               *)
Outcome(h) ==
  CASE h.act = "add" -> UpdateRow(AddFilter(h.seen.filters, h.id, h.kind), row.mode)
    [] h.act = "edit" -> UpdateRow(UpdateFilter(h.seen.filters, h.id, h.kind), row.mode)
    [] h.act = "confirm" -> UpdateRow(RemoveFilter(h.seen.filters, h.id), row.mode)
    [] OTHER -> UpdateRow(row.filters, h.act)

(* The row is written, and then the cache, or not: it is to be put back.   *)
RouteStores(s) ==
  /\ handler[s].at = "store" /\ Outcome(handler[s])
  /\ \/ Answer(s, TRUE) /\ UNCHANGED faults
     \/ /\ faults > 0 /\ faults' = faults - 1
        /\ Become(s, [handler[s] EXCEPT !.at = "undo"]) /\ UNCHANGED pendingType
  /\ UNCHANGED <<premium, fresh, draft, open, view, page, form, manager>>

RouteUndoes(s) ==
  /\ handler[s].at = "undo" /\ Answer(s, FALSE)
  /\ IF handler[s].act \in Modes THEN UpdateRow(row.filters, Seen(s).mode)
     ELSE UpdateRow(Seen(s).filters, row.mode)
  /\ UNCHANGED <<premium, fresh, draft, open, view, page, form, manager, faults>>

(* The database fails: before the write, or when it is to be put back.     *)
RouteFails(s) ==
  /\ handler[s].at \in RouteStages /\ faults > 0 /\ faults' = faults - 1
  /\ Answer(s, FALSE)
  /\ UNCHANGED <<rules, draft, open, view, page, form, manager>>

(* The call throws at the bot: the failure replaces the panel, and the     *)
(* backend, if the call has reached it, goes on.                           *)
CallThrows(s) ==
  /\ handler[s].at \in RouteStages /\ ~handler[s].lost
  /\ faults > 0 /\ faults' = faults - 1
  /\ ShowNotice
  /\ \/ Become(s, [handler[s] EXCEPT !.lost = TRUE])
     \/ /\ handler[s].at = IF handler[s].act \in {"add", "edit"} THEN "check" ELSE "list"
        /\ Finish(s)
  /\ UNCHANGED <<rules, draft, open, pendingType, form, manager>>

CallStep(s) ==
  \/ RouteChecks(s) \/ RouteReads(s) \/ RouteStores(s) \/ RouteUndoes(s)
  \/ RouteFails(s) \/ CallThrows(s)

-----------------------------------------------------------------------------
(* The idle timer: no handler is at work (PanelClock), and the panel says  *)
(* that it is closed.                                                      *)
IdleOut ==
  /\ open /\ \A s \in Slots : handler[s].at \in {"idle", "form"} \/ handler[s].lost
  /\ form = NoForm
  /\ open' = FALSE /\ ShowNotice
  /\ UNCHANGED <<rules, draft, pendingType, handler, form, manager, faults>>

HandlerStep(s) ==
  \/ \E b \in Buttons : Press(s, b)
  \/ Read(s) \/ Show(s) \/ OpenForm(s) \/ Lapse(s)
  \/ SubmitInvalid(s) \/ SubmitDenied(s) \/ (\E k \in Kinds : Submit(s, k))
  \/ CallStep(s)

PanelNext ==
  \/ \E t \in Types : PickType(t)
  \/ PressDenied \/ Dismiss \/ IdleOut
  \/ \E s \in Slots : HandlerStep(s)

-----------------------------------------------------------------------------
(* A save of the dashboard's beside the panel.  It reads the row again as  *)
(* it checks it: what comes between can as well come before or after.      *)
TabSaves(m, kinds) ==
  /\ draft = NoDraft /\ MaySetFilters(kinds) /\ Mint(kinds)
  /\ draft' = [at |-> "store", seen |-> row, filters |-> NewRule(kinds), mode |-> m,
               from |-> fresh]
  /\ UNCHANGED <<row, premium, open, view, page, pendingType, handler, form, manager, faults>>

TabStores ==
  /\ draft.at = "store" /\ UpdateRow(draft.filters, draft.mode)
  /\ draft' \in {NoDraft, [draft EXCEPT !.at = "undo"]}

TabUndone ==
  draft.at = "undo" /\ UpdateRow(draft.seen.filters, draft.seen.mode) /\ draft' = NoDraft

(* The database fails: before the write, or when it is to be put back.     *)
TabFails == draft # NoDraft /\ draft' = NoDraft /\ UNCHANGED row

TabNext ==
  /\ TabStores \/ TabUndone \/ TabFails
  /\ UNCHANGED <<premium, fresh, open, view, page, pendingType, handler, form, manager, faults>>

-----------------------------------------------------------------------------
(* The member is told "That condition is no longer in the filter"          *)
(* (panel.ts:76).  A condition that is gone comes back only with a call    *)
(* that read the rule while it was there: never through a button, a form   *)
(* or a handler that still names it, nor through a save of the dashboard's *)
(* that was begun later, whatever fails and is put back.                   *)
WritesBack(s, id) ==
  /\ handler[s].at \in {"store", "undo"} /\ handler'[s] # handler[s]
  /\ id \in IdsOf(Seen(s).filters) \/ (handler[s].act = "add" /\ id = handler[s].id)

DraftWritesBack(id) ==
  /\ draft.at \in {"store", "undo"} /\ draft' # draft
  /\ id \in IdsOf(draft.seen.filters) \/ id > draft.from

ReturnsWithItsReader ==
  \A id \in 1..fresh :
    (id \notin IdsOf(row.filters) /\ id \in IdsOf(row'.filters))
      => DraftWritesBack(id) \/ \E s \in Slots : WritesBack(s, id)

GoneStaysGone == [][ReturnsWithItsReader]_panel
=============================================================================
