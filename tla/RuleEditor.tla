------------------------------ MODULE RuleEditor -----------------------------
(***************************************************************************)
(* The dashboard's filter editor (apps/web/src/components/dashboard/       *)
(* filter-config.tsx): one channel's rule in a form that is saved as a     *)
(* whole.  What is on screen is the form's own: it is loaded once, and     *)
(* only a save's answer touches it again.  The member edits on while a     *)
(* save is in flight, and others change the row.                           *)
(***************************************************************************)
EXTENDS FilterRules, Listings

CONSTANT ScreenKinds  (* what a row of the form can hold: see Cleaned        *)

ASSUME ScreenAssumption ==
  Kinds \subseteq ScreenKinds /\ ScreenKinds \subseteq Kinds \cup {"none", "mixed", "bad"}

VARIABLES
  mounted,    (* the editor is on screen                                     *)
  base,       (* baseline, the rule last loaded or saved: [mode, conds]      *)
  screen,     (* the form: [mode, conds]                                     *)
  save,       (* the save in flight, or NoSave: its form, the row its route  *)
              (* read, touched as it was then, its answer                    *)
  touched     (* history: the row may not be what base says: others changed  *)
              (* it since base was right, or a failed save was not put back  *)

editor == <<mounted, base, screen, save, touched>>

Forms == [mode : Modes, conds : BoundedSeq(ScreenKinds, Limit)]
Blank == [mode |-> "all", conds |-> <<>>]
NoSave == [at |-> "none", form |-> Blank, seen |-> NoRow, was |-> FALSE,
           answer |-> "none"]
Answers == {"none", "ok", "refused", "expired", "lost"}

EditorTypeOK ==
  /\ mounted \in BOOLEAN /\ touched \in BOOLEAN
  /\ base \in Forms /\ screen \in Forms
  /\ save.at \in {"none", "sent", "store", "undo", "answered", "stuck"}
  /\ save.form \in Forms /\ save.answer \in Answers
  /\ save.seen \in Rows /\ save.was \in BOOLEAN

(* A row without values ("none") is not populated; of one whose values are *)
(* partly ("mixed") or all ("bad") refused, the valid ones are stored.     *)
Populated(cs) == TheRest(cs, {"none"})
Cleaned(cs) ==
  [i \in DOMAIN cs |-> CASE cs[i] = "mixed" -> "word"
                         [] cs[i] = "bad" -> "none"
                         [] OTHER -> cs[i]]
Savable(cs) == Populated(Cleaned(cs))

Dirty == screen.mode # base.mode \/ Populated(screen.conds) # base.conds
Saving == save # NoSave

KindsOf(fs) == [i \in DOMAIN fs |-> fs[i].kind]
Loaded == [mode |-> row.mode, conds |-> KindsOf(row.filters)]

EditorInit ==
  /\ mounted \in BOOLEAN /\ base = IF mounted THEN Loaded ELSE Blank
  /\ screen = base /\ save = NoSave /\ touched = FALSE

(* Opening the page, or another channel and back: the form is loaded.      *)
Mount ==
  /\ ~mounted /\ row.state = "serving"
  /\ mounted' = TRUE /\ base' = Loaded /\ screen' = Loaded
  /\ touched' = FALSE /\ UNCHANGED <<rules, save>>

(* Another channel is chosen or the page is left: the edits are dropped.   *)
(* A save in flight then lands, if it does, as another tab's would.        *)
Leave == mounted' = FALSE /\ base' = Blank /\ screen' = Blank /\ save' = NoSave
Unmount == mounted /\ Leave /\ UNCHANGED <<rules, touched>>

Edit(s) == mounted /\ screen' = s /\ UNCHANGED <<rules, mounted, base, save, touched>>

ChooseMode(m) == m # screen.mode /\ Edit([screen EXCEPT !.mode = m])

AddCondition ==
  /\ Len(screen.conds) < Limit
  /\ Edit([screen EXCEPT !.conds = Append(@, "none")])
ChangeRow(i, k) == k # screen.conds[i] /\ Edit([screen EXCEPT !.conds[i] = k])
RemoveRow(i) == Edit([screen EXCEPT !.conds = RemoveAt(@, i)])
Revert == Dirty /\ ~Saving /\ Edit(base)

Save ==
  /\ mounted /\ Dirty /\ ~Saving
  /\ save' = [NoSave EXCEPT !.at = "sent", !.form = screen]
  /\ UNCHANGED <<rules, mounted, base, screen, touched>>

(* PUT /filters.  A refusal is a 4xx or 5xx; the session can have expired, *)
(* and any answer can be lost.                                             *)
SaveAnswered(answers) ==
  \E a \in answers \cup {"lost"} :
    save' = [NoSave EXCEPT !.at = "answered", !.answer = a,
               !.form = IF a = "ok" THEN save.form ELSE @]

(* The route checks the row and reads it again: what comes between can as  *)
(* well come before the one or after the other.                            *)
PutReads ==
  /\ save.at = "sent"
  /\ \/ /\ MaySetFilters(Savable(save.form.conds))
        /\ save' = [save EXCEPT !.at = "store", !.seen = row, !.was = touched]
     \/ SaveAnswered({"refused", "expired"})
  /\ UNCHANGED <<rules, mounted, base, screen, touched>>

(* The row is written, and then the cache, or not: it is to be put back.   *)
PutStores ==
  /\ save.at = "store"
  /\ \/ LET kinds == Savable(save.form.conds) IN
        /\ Mint(kinds) /\ UpdateRow(NewRule(kinds), save.form.mode)
        /\ touched' = (touched /\ ~Exists)
        /\ SaveAnswered({"ok"}) \/ save' = [save EXCEPT !.at = "undo", !.form = Blank]
     \/ SaveAnswered({"refused"}) /\ UNCHANGED <<row, fresh, touched>>
  /\ UNCHANGED <<premium, mounted, base, screen>>

(* What the route read is put back, over what others wrote since; or that  *)
(* fails too.                                                              *)
PutUndone ==
  /\ save.at = "undo" /\ SaveAnswered({"refused"})
  /\ \/ /\ UpdateRow(save.seen.filters, save.seen.mode)
        /\ touched' = IF Exists THEN save.was ELSE touched
     \/ touched' = TRUE /\ UNCHANGED row
  /\ UNCHANGED <<premium, fresh, mounted, base, screen>>

(* The mutation: the baseline becomes what is on screen by then.           *)
BaselineOnScreen == [mode |-> screen.mode, conds |-> Savable(save.form.conds)]

(* The rule the answer was about becomes the baseline.                     *)
NewBaseline == [mode |-> save.form.mode, conds |-> Savable(save.form.conds)]

(* A good answer writes the cleaned conditions of the save over the form,  *)
(* the edits made since included; the mode is left as it is.               *)
SaveOk ==
  /\ save.at = "answered" /\ save.answer = "ok"
  /\ screen' = [screen EXCEPT !.conds = Cleaned(save.form.conds)]
  /\ base' = NewBaseline /\ save' = NoSave
  /\ UNCHANGED <<rules, mounted, touched>>

SaveRefused ==
  /\ save.at = "answered" /\ save.answer = "refused"
  /\ save' = NoSave /\ UNCHANGED <<rules, mounted, base, screen, touched>>

(* signInOnAuthExpired leaves the page.                                    *)
SaveExpired ==
  /\ save.at = "answered" /\ save.answer = "expired"
  /\ Leave /\ UNCHANGED <<rules, touched>>

(* A call that throws is caught nowhere: saving stays set.                 *)
SaveThrows ==
  /\ save.at = "answered" /\ save.answer = "lost"
  /\ save' = [NoSave EXCEPT !.at = "stuck"]
  /\ UNCHANGED <<rules, mounted, base, screen, touched>>

(* Someone else changes the row: another tab, the panel, a command, the    *)
(* plan.                                                                   *)
Others == RulesNext /\ touched' = TRUE /\ UNCHANGED <<mounted, base, screen, save>>

EditorNext ==
  \/ Mount \/ Unmount \/ AddCondition \/ Revert
  \/ (\E m \in Modes : ChooseMode(m))
  \/ (\E i \in DOMAIN screen.conds :
        RemoveRow(i) \/ \E k \in ScreenKinds : ChangeRow(i, k))
  \/ Save \/ PutReads \/ PutStores \/ PutUndone
  \/ SaveOk \/ SaveRefused \/ SaveExpired \/ SaveThrows

-----------------------------------------------------------------------------
(* "All changes saved" is true: with no save under way, and nobody else's  *)
(* change to the row since, what the form shows, rows without values       *)
(* apart, is what the backend has, whatever was edited while a save was in *)
(* flight and whatever became of it.                                       *)
AllSavedIsTrue ==
  (mounted /\ ~Dirty /\ ~Saving /\ ~touched)
    => /\ row.mode = screen.mode
       /\ KindsOf(row.filters) = Populated(screen.conds)
=============================================================================
