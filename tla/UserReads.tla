------------------------------ MODULE UserReads ------------------------------
(***************************************************************************)
(* Who may use the dashboard's routes (packages/express): every request    *)
(* reads two routes of Discord on its user's token, one that says who the  *)
(* user is and one that says which guilds they manage.  Each read looks in *)
(* a short-lived cache, then asks Discord a few times, then falls back on  *)
(* the last answer that was kept (discordUserApi.ts).                      *)
(*                                                                         *)
(* One user, one token, one guild.  Time is counted in ticks: the waits    *)
(* between attempts, and Redis, take none; a call takes CallTime at most,  *)
(* from the moment Discord looks the answer up.                            *)
(***************************************************************************)
EXTENDS Integers

CONSTANTS
  Requests,
  AuthTime,      (* DISCORD_AUTH_TTL_SECONDS                                 *)
  GuildsTime,    (* GUILDS_CACHE_TTL_SECONDS                                 *)
  KeptTime,      (* LKG_TTL_SECONDS                                          *)
  CallTime,      (* what undici lets a call of fetch take: the code sets none *)
  MaxAttempts,
  MaxFlips       (* bound: what becomes of the token and the permission      *)

ASSUME ReadsAssumption ==
  /\ {AuthTime, GuildsTime, KeptTime, MaxAttempts} \subseteq Nat \ {0}
  /\ AuthTime <= KeptTime /\ GuildsTime <= KeptTime
  /\ CallTime \in Nat /\ MaxFlips \in Nat

VARIABLES
  alive,         (* the token is good                                        *)
  manages,       (* the user has MANAGE_GUILD                                *)
  since,         (* (for the properties) ticks since both held               *)
  warm, lastGood, (* the two copies in Redis, by route: [left, value]        *)
  req,           (* [at, route, n, value, left]                              *)
  flips

truth == <<alive, manages, flips>>
copies == <<warm, lastGood>>
readVars == <<truth, since, copies, req>>

Routes == {"user", "guilds"}
WarmTime == [user |-> AuthTime, guilds |-> GuildsTime]
Window == KeptTime + CallTime

NoCopy == [left |-> 0, value |-> FALSE]
NoRequest == [at |-> "none", route |-> "user", n |-> 0, value |-> FALSE, left |-> 0]

ReadsInit ==
  /\ alive = TRUE /\ manages \in BOOLEAN
  /\ since = IF manages THEN 0 ELSE Window
  /\ warm = [d \in Routes |-> NoCopy] /\ lastGood = [d \in Routes |-> NoCopy]
  /\ req = [r \in Requests |-> NoRequest] /\ flips = 0

Moves(r, q) == req' = [req EXCEPT ![r] = q]
Ends(r, at) == Moves(r, [NoRequest EXCEPT !.at = at])

(* What a request does with an answer: discordAuth goes on to the guilds,  *)
(* requireGuildPermission admits or refuses.                               *)
Answer(r, value) ==
  IF req[r].route = "user"
  THEN Moves(r, [NoRequest EXCEPT !.at = "look", !.route = "guilds"])
  ELSE Ends(r, IF value THEN "admitted" ELSE "refused")

-----------------------------------------------------------------------------
Ended == {"none", "admitted", "refused", "expired", "blip"}

Arrives(r) ==
  /\ req[r].at \in Ended
  /\ Moves(r, [NoRequest EXCEPT !.at = "look"])
  /\ UNCHANGED <<truth, since, copies>>

(* A Redis read that fails counts as a miss, here and in Keep.             *)
Look(r) ==
  LET copy == warm[req[r].route]
  IN
  /\ req[r].at = "look"
  /\ \/ copy.left > 0 /\ Answer(r, copy.value)
     \/ Moves(r, [req[r] EXCEPT !.at = "call", !.n = 1])
  /\ UNCHANGED <<truth, since, copies>>

(* Discord looks the answer up; it is under way until Lands or Fails.      *)
Evaluate(r) ==
  /\ req[r].at = "call" /\ alive
  /\ Moves(r, [req[r] EXCEPT !.at = "answer", !.left = CallTime,
                               !.value = req[r].route = "user" \/ manages])
  /\ UNCHANGED <<truth, since, copies>>

Denied(r) ==
  /\ req[r].at = "call" /\ ~alive
  /\ Ends(r, "expired")
  /\ UNCHANGED <<truth, since, copies>>

(* Either write may be lost, and the other one not.                        *)
StoreBoth(r) ==
  LET d == req[r].route
      Copy(time) == [left |-> time, value |-> req[r].value]
  IN
  /\ warm' \in {warm, [warm EXCEPT ![d] = Copy(WarmTime[d])]}
  /\ lastGood' \in {lastGood, [lastGood EXCEPT ![d] = Copy(KeptTime)]}

Lands(r) ==
  /\ req[r].at = "answer" /\ StoreBoth(r) /\ Answer(r, req[r].value)
  /\ UNCHANGED <<truth, since>>

(* A 429, a 5xx, or no answer: again, or what was kept.  A long            *)
(* Retry-After is not waited for.                                          *)
Fails(r) ==
  /\ req[r].at \in {"call", "answer"}
  /\ \/ req[r].n < MaxAttempts
        /\ Moves(r, [req[r] EXCEPT !.at = "call", !.n = @ + 1, !.value = FALSE, !.left = 0])
     \/ Moves(r, [req[r] EXCEPT !.at = "keep", !.value = FALSE, !.left = 0])
  /\ UNCHANGED <<truth, since, copies>>

(* A mutation: an answer that was kept is kept anew as it is served.       *)
KeepAnew(r) ==
  LET copy == lastGood[req[r].route]
  IN
  /\ req[r].at = "keep"
  /\ \/ /\ copy.left > 0 /\ Answer(r, copy.value)
        /\ lastGood' = [lastGood EXCEPT ![req[r].route].left = KeptTime]
     \/ Ends(r, "blip") /\ UNCHANGED lastGood
  /\ UNCHANGED <<truth, since, warm>>

Keep(r) ==
  LET copy == lastGood[req[r].route]
  IN
  /\ req[r].at = "keep"
  /\ \/ copy.left > 0 /\ Answer(r, copy.value)
     \/ Ends(r, "blip")
  /\ UNCHANGED <<truth, since, copies>>

-----------------------------------------------------------------------------
(* The user logs in again with a token that is revoked or good; the guild  *)
(* gives or takes the permission.                                          *)
Flip ==
  /\ flips < MaxFlips /\ flips' = flips + 1
  /\ \/ alive' = FALSE /\ alive /\ UNCHANGED manages
     \/ manages' = ~manages /\ UNCHANGED alive
  /\ since' = IF alive' /\ manages' THEN 0 ELSE since
  /\ UNCHANGED <<copies, req>>

Older(copy) == IF copy.left <= 1 THEN NoCopy ELSE [copy EXCEPT !.left = @ - 1]

Passes ==
  /\ \A r \in Requests : req[r].at = "answer" => req[r].left > 0
  /\ since' = IF (alive /\ manages) \/ since = Window THEN since ELSE since + 1
  /\ warm' = [d \in Routes |-> Older(warm[d])]
  /\ lastGood' = [d \in Routes |-> Older(lastGood[d])]
  /\ req' = [r \in Requests |->
               IF req[r].at = "answer" THEN [req[r] EXCEPT !.left = @ - 1] ELSE req[r]]
  /\ UNCHANGED truth

ReadsNext ==
  \/ \E r \in Requests :
       \/ Arrives(r) \/ Look(r) \/ Evaluate(r) \/ Denied(r) \/ Lands(r) \/ Fails(r)
       \/ Keep(r)
  \/ Flip \/ Passes

ReadsSpec == ReadsInit /\ [][ReadsNext]_readVars

ReadsTypeOK ==
  /\ alive \in BOOLEAN /\ manages \in BOOLEAN /\ since \in 0..Window /\ flips \in 0..MaxFlips
  /\ warm \in [Routes -> [left : 0..KeptTime, value : BOOLEAN]]
  /\ lastGood \in [Routes -> [left : 0..KeptTime, value : BOOLEAN]]
  /\ req \in [Requests ->
       [at : Ended \cup {"look", "call", "answer", "keep"},
        route : Routes, n : 0..MaxAttempts, value : BOOLEAN, left : 0..CallTime]]

Admits(r) == req[r].at # "admitted" /\ req'[r].at = "admitted"

(* "A stale-serve is a deliberate fail-open, so its window is capped"      *)
(* (discordUserApi.ts:27): nobody is admitted who did not hold a good      *)
(* token and the permission within the lifetime of a kept answer, whatever *)
(* outages, slow calls that land after later ones and lost writes did to   *)
(* the copies.                                                             *)
StaleIsBounded == [][ \A r \in Requests : Admits(r) => since < Window ]_readVars
=============================================================================
