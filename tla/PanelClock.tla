----------------------------- MODULE PanelClock ------------------------------
(***************************************************************************)
(* The timers of the /ap filters panel (apps/bot/src/handlers/ap/filter/   *)
(* panel.ts): the collector's idle timer, the wait for each form, and the  *)
(* age of the interaction token the panel is edited through.  What the     *)
(* presses do is FilterPanel; here a press is one of three: it renders and *)
(* so refreshes the token, it does not (a pick, a note beside the panel),  *)
(* or it opens a form.  Handlers take no time beside a tick.               *)
(***************************************************************************)
EXTENDS Naturals, FiniteSetsExt

CONSTANTS
  IdleTime,     (* PANEL_IDLE_MS                                             *)
  ModalTime,    (* MODAL_TIMEOUT_MS                                          *)
  TokenTime,    (* TOKEN_LIFETIME_MS                                         *)
  MaxForms      (* bound: forms awaited at a time                            *)

ASSUME ClockAssumption ==
  /\ IdleTime \in Nat /\ ModalTime \in Nat /\ TokenTime \in Nat /\ MaxForms \in Nat
  /\ 0 < ModalTime /\ ModalTime < IdleTime /\ IdleTime < TokenTime

VARIABLES
  age,          (* since the interaction the panel is edited through         *)
  since,        (* history: since the member last did something with it      *)
  left,         (* of the collector's idle timer; 0 when it has ended        *)
  waits,        (* of each form awaited: [of form, left]                     *)
  onScreen      (* the form the member sees, or 0                            *)

clock == <<age, since, left, waits, onScreen>>

ClockTypeOK ==
  /\ age \in 0..(TokenTime + ModalTime) /\ since \in 0..age /\ left \in 0..IdleTime
  /\ \A w \in waits : w.form \in 1..MaxForms /\ w.left \in 1..ModalTime
  /\ onScreen \in 0..MaxForms

ClockInit == age = 0 /\ since = 0 /\ left = IdleTime /\ waits = {} /\ onScreen = 0

Alive == left > 0

Least(m, n) == IF m < n THEN m ELSE n

(* A mutation: a margin of half a window is kept.                          *)
HalfWindow(a) == IF a + IdleTime \div 2 < TokenTime
                 THEN TokenTime - IdleTime \div 2 - a ELSE 0

(* responderTimeLeft, at an age of the token, and what a handler that ends *)
(* leaves the idle timer at.                                               *)
ResponderTimeLeft(a) == IF a < TokenTime THEN TokenTime - a ELSE 0
IdleAfterHandler(a) == Least(IdleTime, ResponderTimeLeft(a))

(* showView: the panel is edited through this press, and resetTimer.       *)
ShowView == age' = 0 /\ left' = IdleTime /\ since' = 0

PressThatRenders ==
  /\ Alive /\ onScreen = 0 /\ ShowView /\ UNCHANGED <<waits, onScreen>>

SilentPress ==
  /\ Alive /\ onScreen = 0
  /\ left' = IdleAfterHandler(age) /\ since' = 0 /\ UNCHANGED <<age, waits, onScreen>>

(* Collecting restarts the idle timer; the handler awaits the form.        *)
PressForForm(f) ==
  /\ Alive /\ onScreen = 0 /\ \A w \in waits : w.form # f
  /\ onScreen' = f /\ waits' = waits \cup {[form |-> f, left |-> ModalTime]}
  /\ left' = IdleTime /\ since' = 0 /\ UNCHANGED age

DismissForm == onScreen # 0 /\ onScreen' = 0 /\ UNCHANGED <<age, since, left, waits>>

(* A submitted form renders; an ended collector's timer stays ended.       *)
SubmitForm ==
  /\ \E w \in waits : w.form = onScreen
  /\ age' = 0 /\ since' = 0 /\ left' = IF Alive THEN IdleTime ELSE 0
  /\ waits' = {w \in waits : w.form # onScreen} /\ onScreen' = 0

(* One tick.  A form that lapses ends its handler, which sets the idle     *)
(* timer anew, from the token's age of that moment.                        *)
Tick ==
  /\ Alive /\ age' = age + 1 /\ since' = since + 1
  /\ waits' = {[w EXCEPT !.left = @ - 1] : w \in {w \in waits : w.left > 1}}
  /\ onScreen' = IF \E w \in waits' : w.form = onScreen THEN onScreen ELSE 0
  /\ left' = IF left > 1 /\ \E w \in waits : w.left = 1
             THEN IdleAfterHandler(age')
             ELSE left - 1

ClockNext ==
  \/ PressThatRenders \/ SilentPress \/ DismissForm \/ SubmitForm \/ Tick
  \/ \E f \in 1..MaxForms : PressForForm(f)

-----------------------------------------------------------------------------
(* "A panel the user just acted on must not expire out from under them"    *)
(* (panel.ts:140) holds for as long as the panel can be edited: when the   *)
(* collector ends, the member's last press or submission is a whole idle   *)
(* window ago, or the life of the token is over.  And a form opened in the *)
(* token's life can keep the panel beyond it, a second one the same, but   *)
(* no longer than one form's wait in all.                                  *)
ClosesInTime ==
  [][ (Alive /\ left' = 0) =>
        /\ since' >= IdleTime \/ age' >= TokenTime
        /\ age' < TokenTime + ModalTime ]_clock
=============================================================================
