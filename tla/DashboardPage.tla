---------------------------- MODULE DashboardPage ----------------------------
(***************************************************************************)
(* What a person sees of one guild in the dashboard (apps/web), from its   *)
(* two reads: the list of their guilds, with the page itself, and the      *)
(* guild's detail, which streams in behind it as a promise.  A detail that *)
(* cannot be shown latches an error boundary until a retry resets it.      *)
(*                                                                         *)
(* What the reads answer is left open: any outage may last for ever.       *)
(***************************************************************************)
EXTENDS Naturals

CONSTANTS
  MaxAutoRetries,  (* MAX_AUTO_RETRIES                                       *)
  MaxPresses       (* bound: what the person does                            *)

ASSUME PageAssumption == MaxAutoRetries \in Nat /\ MaxPresses \in Nat

VARIABLES
  at,            (* what is on screen                                        *)
  latched,       (* the error boundary holds an error                        *)
  promise,       (* the detail: "pending", its outcome, or "read"            *)
  refresh,       (* the refreshes in flight: of the boundary, of others      *)
  attempt,       (* automatic retries since the boundary mounted             *)
  armed,         (* the next focus refreshes                                 *)
  invited,       (* the guild whose invite was opened from the list          *)
  presses

pageVars == <<at, latched, promise, refresh, attempt, armed, invited, presses>>

Details == {"detail", "expired", "absent", "denied", "blip"}
Lists == {"present", "botless", "missing", "failed", "expired"}
Kinds == {"boundary", "other"}

(* The dashboard opens at a guild, or at the list.                         *)
PageInit ==
  /\ \/ at = "loading" /\ promise = "pending"
     \/ at = "list" /\ promise = "read"
  /\ latched = FALSE /\ refresh = {}
  /\ attempt = 0 /\ armed = FALSE /\ invited = FALSE /\ presses = 0

(* The region mounts: its budget and timers begin anew.                    *)
Mount ==
  /\ at' = "loading" /\ latched' = FALSE /\ attempt' = 0 /\ promise' = "pending"
  /\ armed' = FALSE /\ invited' = FALSE

(* Something else than the guild's page is on screen.  The list stays      *)
(* mounted through its own refreshes.                                      *)
Leave(where) ==
  /\ at' = where /\ latched' = FALSE /\ attempt' = 0 /\ promise' = "read"
  /\ armed' = (armed /\ where = at) /\ invited' = (invited /\ where = at)

-----------------------------------------------------------------------------
(* The detail: the read ends, in BACKEND_TIMEOUT_MS at most.               *)
Resolve ==
  /\ promise = "pending" /\ promise' \in Details
  /\ UNCHANGED <<at, latched, refresh, attempt, armed, invited, presses>>

(* useGuild: a detail is shown; a failure latches the boundary, which      *)
(* shows what its kind calls for.                                          *)
Read ==
  /\ promise \in Details /\ ~latched /\ at \in {"loading", "shown"}
  /\ \/ /\ promise = "detail" /\ at' = "shown" /\ promise' = "read"
        /\ UNCHANGED <<latched, attempt, armed, invited>>
     \/ /\ promise \in {"absent", "blip"} /\ latched' = TRUE /\ promise' = "read"
        /\ at' = IF promise = "absent" THEN "invite card"
                 ELSE IF attempt < MaxAutoRetries THEN "waiting" ELSE "retry card"
        /\ UNCHANGED <<attempt, armed, invited>>
     \/ promise = "expired" /\ Leave("login")
     \/ promise = "denied" /\ Leave("list")
  /\ UNCHANGED <<refresh, presses>>

Retry == refresh' = refresh \cup {"boundary"}

(* A mutation: the fallback does not use up the budget.                    *)
RetryUncounted ==
  /\ at = "waiting" /\ "boundary" \notin refresh /\ Retry
  /\ UNCHANGED <<at, latched, promise, attempt, armed, invited, presses>>

(* The timer of TransientFallback fires.                                   *)
AutoRetry ==
  /\ at = "waiting" /\ "boundary" \notin refresh /\ Retry
  /\ attempt' = attempt + 1
  /\ UNCHANGED <<at, latched, promise, armed, invited, presses>>

(* The page of a refresh arrives, with a list.  The boundary's own refresh *)
(* resets it; any other one leaves what it has latched.                    *)
Arrive(k, list) ==
  LET listed == list \in {"present", "botless"}
      gone == list = "missing" /\ at \notin {"list", "login"}
  IN
  /\ k \in refresh
  /\ refresh' = (refresh \ {k}) \cup (IF gone THEN {"other"} ELSE {})
  /\ \/ at = "login" /\ UNCHANGED <<at, latched, promise, attempt, armed, invited>>
     \/ at # "login" /\ list = "expired" /\ Leave("login")
     \/ at # "login" /\ list = "failed" /\ Leave(IF at = "list" THEN "list" ELSE "no list")
     \/ at # "login" /\ list = "missing" /\ Leave("list")
     \/ at = "list" /\ listed /\ IF invited /\ list = "present" THEN Mount ELSE Leave("list")
     \/ at = "no list" /\ listed /\ Mount
     \/ /\ at \notin {"login", "list", "no list"} /\ listed
        /\ promise' = "pending" /\ UNCHANGED <<attempt, armed, invited>>
        /\ IF k = "boundary" /\ latched THEN at' = "loading" /\ latched' = FALSE
           ELSE UNCHANGED <<at, latched>>
  /\ UNCHANGED presses

-----------------------------------------------------------------------------
(* The person.                                                             *)
Press == presses < MaxPresses /\ presses' = presses + 1

(* "Try again", or the list's "Reload".                                    *)
TryAgain ==
  /\ Press /\ refresh = {}
  /\ \/ at = "retry card" /\ Retry
     \/ at \in {"no list", "list"} /\ refresh' = {"other"}
  /\ UNCHANGED <<at, latched, promise, attempt, armed, invited>>

(* The invite of the list, or of the card, opens in another tab.           *)
Invite ==
  /\ Press /\ at \in {"list", "invite card"} /\ armed' = TRUE
  /\ invited' = (invited \/ at = "list")
  /\ UNCHANGED <<at, latched, promise, refresh, attempt>>

Focus ==
  /\ armed /\ armed' = FALSE /\ refresh' = refresh \cup {"other"}
  /\ UNCHANGED <<at, latched, promise, attempt, invited, presses>>

(* A change made on the page ends in a refresh, or in a 401.               *)
Edit ==
  /\ Press /\ at = "shown"
  /\ \/ refresh' = refresh \cup {"other"}
        /\ UNCHANGED <<at, latched, promise, attempt, armed, invited>>
     \/ Leave("login") /\ UNCHANGED refresh

(* A guild is opened from the list, or the login leads back to it.         *)
Open ==
  /\ Press /\ at \in {"list", "login"} /\ Mount /\ refresh' = {}

PageNext ==
  \/ Resolve \/ Read \/ AutoRetry \/ TryAgain \/ Invite \/ Focus \/ Edit \/ Open
  \/ \E k \in Kinds, list \in Lists : Arrive(k, list)

PageSpec == PageInit /\ [][PageNext]_pageVars

(* Reads are bounded, and React renders what has arrived.                  *)
PageFairness ==
  /\ WF_pageVars(Resolve) /\ WF_pageVars(Read) /\ WF_pageVars(AutoRetry)
  /\ WF_pageVars(\E k \in Kinds, list \in Lists : Arrive(k, list))

(* However long an outage lasts, the page comes to rest at the guild or at *)
(* something to act on: never a skeleton for ever, and never refreshing by *)
(* itself for ever.  "A persistent outage can't spin an unbounded refresh  *)
(* loop" (guild-detail-boundary.tsx:24).                                   *)
PageRests == <>[](at \notin {"loading", "waiting"} /\ refresh = {})
=============================================================================
