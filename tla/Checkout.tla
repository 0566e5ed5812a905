------------------------------- MODULE Checkout ------------------------------
(***************************************************************************)
(* Buying Premium for one guild, by any of its admins: the Subscription    *)
(* tab's upgrade card (subscription-panel.tsx), the route that prices the  *)
(* purchase (routes/api/guild.ts), the page that opens Paddle's overlay    *)
(* (app/checkout/page.tsx, lib/paddle.ts), and the return to the Overview, *)
(* which polls until the webhook has come (use-activation-poll.ts).  The   *)
(* backend's row is reduced to its status and owner; SubscriptionSync has  *)
(* how events reach it.                                                    *)
(***************************************************************************)
EXTENDS Naturals, FiniteSets

CONSTANTS
  Buyers,     (* the admins' tabs, each good for one purchase                *)
  Nobody,
  MaxPolls    (* MAX_POLLS                                                   *)

ASSUME CheckoutAssumption == Nobody \notin Buyers /\ MaxPolls \in Nat

VARIABLES
  billing,    (* the guild's subscription row: [status, of]                  *)
  contract,   (* Paddle's subscription of each buyer, by status              *)
  sold,       (* the price each buyer has paid: none, trial or plain         *)
  heard,      (* history: the buyers whose subscription was once in the row  *)
  knew,       (* history: heard, when each buyer's purchase was priced       *)
  migratedAt, (* the guild is migrated                                       *)
  buyer       (* each buyer's tab                                            *)

sale == <<billing, contract, sold, heard, knew, migratedAt, buyer>>

Statuses == {"none", "trialing", "active", "canceled"}
Entitled(status) == status \in {"trialing", "active"}
Prices == {"none", "trial", "plain"}

(* What GET /api/guild/:guildId says of it.                                *)
Payload == [migrated |-> migratedAt, trial |-> billing.status = "none",
            live |-> Entitled(billing.status)]

FreshTab == [at |-> "panel", seen |-> Payload, terms |-> FALSE, termsError |-> FALSE,
             error |-> FALSE, txn |-> "none", polls |-> 0, gaveUp |-> FALSE]

CheckoutTypeOK ==
  /\ billing \in [status : Statuses, of : Buyers \cup {Nobody}]
  /\ contract \in [Buyers -> Statuses] /\ sold \in [Buyers -> Prices]
  /\ heard \subseteq Buyers /\ knew \in [Buyers -> SUBSET Buyers]
  /\ migratedAt \in BOOLEAN
  /\ buyer \in [Buyers -> [at : {"panel", "asking", "priced", "checkout", "overlay", "return"},
                           seen : [migrated : BOOLEAN, trial : BOOLEAN, live : BOOLEAN],
                           terms : BOOLEAN, termsError : BOOLEAN, error : BOOLEAN,
                           txn : Prices, polls : 0..MaxPolls, gaveUp : BOOLEAN]]

CheckoutInit ==
  /\ billing = [status |-> "none", of |-> Nobody]
  /\ contract = [b \in Buyers |-> "none"] /\ sold = [b \in Buyers |-> "none"]
  /\ heard = {} /\ knew = [b \in Buyers |-> {}] /\ migratedAt \in BOOLEAN
  /\ buyer = [b \in Buyers |-> FreshTab]

Tab(b, t) == buyer' = [buyer EXCEPT ![b] = t]
TabOnly(b, t) == Tab(b, t) /\ UNCHANGED <<billing, contract, sold, heard, knew, migratedAt>>

-----------------------------------------------------------------------------
(* The upgrade card.                                                       *)

OpenPanel(b) ==
  /\ buyer[b].at = "panel" /\ sold[b] = "none"
  /\ buyer[b] # [FreshTab EXCEPT !.txn = buyer[b].txn]
  /\ TabOnly(b, [FreshTab EXCEPT !.txn = buyer[b].txn])

(* Without a subscription in force and once migrated, the card has a box   *)
(* to tick and a button that says what is missing.                         *)
CardUsable(b) ==
  /\ buyer[b].at = "panel" /\ ~buyer[b].seen.live /\ buyer[b].seen.migrated
  /\ sold[b] = "none"

TickTerms(b) ==
  /\ CardUsable(b)
  /\ TabOnly(b, [buyer[b] EXCEPT !.terms = ~@,
                   !.termsError = @ /\ buyer[b].terms])

PressUpgrade(b) ==
  /\ CardUsable(b)
  /\ TabOnly(b, IF buyer[b].terms
                THEN [buyer[b] EXCEPT !.at = "asking", !.termsError = FALSE, !.error = FALSE]
                ELSE [buyer[b] EXCEPT !.termsError = TRUE])

-----------------------------------------------------------------------------
(* The route: migrated, not subscribed, and the price.                     *)

(* A mutation: a guild that is not subscribed is one without a trial yet.  *)
TrialAgain == ~Entitled(billing.status)

TrialAvailable == billing.status = "none"

PriceCheckout(b) ==
  /\ buyer[b].at = "asking" /\ migratedAt /\ ~Entitled(billing.status)
  /\ Tab(b, [buyer[b] EXCEPT !.at = "priced",
               !.txn = IF TrialAvailable THEN "trial" ELSE "plain"])
  /\ knew' = [knew EXCEPT ![b] = heard]
  /\ UNCHANGED <<billing, contract, sold, heard, migratedAt>>

CreateTransaction(b) ==
  /\ buyer[b].at = "priced"
  /\ TabOnly(b, [buyer[b] EXCEPT !.at = "checkout"])

(* A refusal, a failure at Paddle, or an answer that is lost.              *)
CheckoutFails(b) ==
  /\ buyer[b].at \in {"asking", "priced"}
  /\ TabOnly(b, [buyer[b] EXCEPT !.at = "panel", !.error = TRUE, !.txn = "none"])

-----------------------------------------------------------------------------
(* The page behind the overlay.  A transaction stays payable: Back leaves  *)
(* it, and Paddle's recovery mail leads to it again.                       *)

OpenOverlay(b) ==
  /\ buyer[b].at = "checkout" /\ TabOnly(b, [buyer[b] EXCEPT !.at = "overlay"])

CloseOverlay(b) ==
  /\ buyer[b].at = "overlay" /\ TabOnly(b, [buyer[b] EXCEPT !.at = "checkout"])

LeaveCheckout(b) ==
  /\ buyer[b].at = "checkout" /\ TabOnly(b, [FreshTab EXCEPT !.txn = buyer[b].txn])

FollowLink(b) ==
  /\ buyer[b].at = "panel" /\ buyer[b].txn # "none" /\ sold[b] = "none"
  /\ TabOnly(b, [buyer[b] EXCEPT !.at = "checkout"])

(* checkout.completed leads to the Overview, armed by ?success=true.       *)
Pay(b) ==
  /\ buyer[b].at = "overlay" /\ sold[b] = "none"
  /\ sold' = [sold EXCEPT ![b] = buyer[b].txn]
  /\ contract' = [contract EXCEPT ![b] = IF buyer[b].txn = "trial" THEN "trialing" ELSE "active"]
  /\ Tab(b, [FreshTab EXCEPT !.at = "return"])
  /\ UNCHANGED <<billing, heard, knew, migratedAt>>

-----------------------------------------------------------------------------
(* The return.  While the payload has no subscription in force, an         *)
(* interval refreshes it.                                                  *)

Activating(b) == buyer[b].at = "return" /\ ~buyer[b].seen.live /\ ~buyer[b].gaveUp

PollTick(b) ==
  /\ Activating(b)
  /\ TabOnly(b, IF buyer[b].polls >= MaxPolls THEN [buyer[b] EXCEPT !.gaveUp = TRUE]
                ELSE [buyer[b] EXCEPT !.polls = @ + 1])

(* A refresh of the poller's lands, or one asked for by hand.              *)
ReturnRefreshed(b) ==
  /\ buyer[b].at = "return" /\ (buyer[b].polls > 0 \/ buyer[b].gaveUp)
  /\ buyer[b].seen # Payload
  /\ TabOnly(b, [buyer[b] EXCEPT !.seen = Payload])

(* The welcome takes the screen, and its button strips the parameter.      *)
CloseWelcome(b) ==
  /\ buyer[b].at = "return" /\ buyer[b].seen.live
  /\ TabOnly(b, [FreshTab EXCEPT !.seen = buyer[b].seen])

-----------------------------------------------------------------------------
(* Paddle, its events, and the migration.                                  *)

ContractChanges(b) ==
  /\ \/ contract[b] = "trialing" /\ contract' = [contract EXCEPT ![b] = "active"]
     \/ Entitled(contract[b]) /\ contract' = [contract EXCEPT ![b] = "canceled"]
  /\ UNCHANGED <<billing, sold, heard, knew, migratedAt, buyer>>

(* applyPaddleSubscription: the row follows its own subscription; another  *)
(* one takes it over only from a row that is not in force.                 *)
ApplyEvent(b) ==
  /\ contract[b] # "none"
  /\ billing.of # b => ~Entitled(billing.status)
  /\ billing' = [status |-> contract[b], of |-> b] /\ billing' # billing
  /\ heard' = heard \cup {b}
  /\ UNCHANGED <<contract, sold, knew, migratedAt, buyer>>

GuildMigrates ==
  /\ ~migratedAt /\ migratedAt' = TRUE
  /\ UNCHANGED <<billing, contract, sold, heard, knew, buyer>>

CardStep(b) == OpenPanel(b) \/ TickTerms(b) \/ PressUpgrade(b)
RouteStepOf(b) == PriceCheckout(b) \/ CreateTransaction(b) \/ CheckoutFails(b)
PaddleStep(b) ==
  \/ OpenOverlay(b) \/ CloseOverlay(b) \/ LeaveCheckout(b) \/ FollowLink(b) \/ Pay(b)
  \/ ContractChanges(b) \/ ApplyEvent(b)
ReturnStep(b) == PollTick(b) \/ ReturnRefreshed(b) \/ CloseWelcome(b)

CheckoutNext ==
  \/ \E b \in Buyers : CardStep(b) \/ RouteStepOf(b) \/ PaddleStep(b) \/ ReturnStep(b)
  \/ GuildMigrates

-----------------------------------------------------------------------------
(* "Guard: one subscription per guild" (guild.ts:512), and one trial       *)
(* (subscriptions.ts:14): two subscriptions of a guild are in force at     *)
(* once, or two of its purchases were trials, only if each was priced      *)
(* before the backend had heard of the other.  However late it is paid,    *)
(* from whichever tab or link, whatever becomes of the first one and in    *)
(* whatever order the events come: a purchase priced once the first was    *)
(* heard of adds neither.                                                  *)
NoSecondPurchase ==
  \A b, c \in Buyers : b \in knew[c] =>
    /\ ~(Entitled(contract[b]) /\ Entitled(contract[c]))
    /\ ~(sold[b] = "trial" /\ sold[c] = "trial")
=============================================================================
