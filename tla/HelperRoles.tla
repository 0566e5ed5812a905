----------------------------- MODULE HelperRoles -----------------------------
(***************************************************************************)
(* The helper (apps/helper): a bot that keeps the Subscriber role of the   *)
(* support server in step with who pays.  It polls the backend, compares   *)
(* the answer with what its gateway cache says of the role, and grants and *)
(* revokes one member at a time; members who join are granted the role at  *)
(* once, from the last answer.                                             *)
(*                                                                         *)
(* An outage of the gateway loses the member events; nothing else does.    *)
(* Dry runs, which apply nothing, are left out.                            *)
(***************************************************************************)
EXTENDS Integers, FiniteSets

CONSTANTS
  Users,
  RevokeFloor,   (* the floor of the mass-action guard                       *)
  MaxChanges,    (* bound: what people do, here and at Paddle                *)
  MaxFaults      (* bound: failing calls, outages and restarts               *)

ASSUME HelperAssumption ==
  /\ IsFiniteSet(Users)
  /\ RevokeFloor \in Nat /\ MaxChanges \in Nat /\ MaxFaults \in Nat

VARIABLES
  paying,        (* entitled subscribers, in the backend's table             *)
  members,       (* of the support server                                    *)
  holders,       (* of the role                                              *)
  cached,        (* the gateway cache of both: [members, holders]            *)
  link,          (* "up", "down" (guild unavailable), back with a "stale"    *)
                 (* cache, or "fetched" and not yet cleaned                  *)
  fetch,         (* syncMembers between the answer and the clean-up:         *)
                 (* [on, users]                                              *)
  writable,      (* Manage Roles, and a highest role above the Subscriber's  *)
  loop,          (* the poll timer runs                                      *)
  lastDesired,   (* [known, users]                                           *)
  pass,          (* the pass in flight: [at, desired, grants, revokes]       *)
  check,         (* each user's join check                                   *)
  steady,        (* (for the properties) paying ever since the pass began    *)
  overlooked,    (* (for the properties) members whom the last clean-up took *)
                 (* out of the cache, and no event has brought back          *)
  spent          (* [changes, faults] so far                                 *)

people == <<paying, members, holders, writable>>
helper == <<link, fetch, loop, lastDesired, pass, check>>
history == <<steady, overlooked>>
vars == <<people, helper, cached, history, spent>>

NoPass == [at |-> "idle", desired |-> {}, grants |-> {}, revokes |-> {}]
NoAnswer == [known |-> FALSE, users |-> {}]
NoFetch == [on |-> FALSE, users |-> {}]
NoChecks == [u \in Users |-> "none"]

Began ==
  /\ link = "stale" /\ fetch = NoFetch /\ loop = FALSE
  /\ lastDesired = NoAnswer /\ pass = NoPass /\ check = NoChecks

Init ==
  /\ paying \in SUBSET Users /\ members \in SUBSET Users
  /\ holders \in SUBSET members
  /\ writable = TRUE
  /\ Began /\ cached = [members |-> {}, holders |-> {}]
  /\ steady = {} /\ overlooked = {} /\ spent = [changes |-> 0, faults |-> 0]

Change == spent.changes < MaxChanges /\ spent' = [spent EXCEPT !.changes = @ + 1]
Fault == spent.faults < MaxFaults /\ spent' = [spent EXCEPT !.faults = @ + 1]

-----------------------------------------------------------------------------
(* People.  What happens to a member reaches the cache as a gateway event. *)

Put(set, u, in) == IF in THEN set \cup {u} ELSE set \ {u}

Becomes(u, member, holder) ==
  /\ members' = Put(members, u, member)
  /\ holders' = Put(holders, u, holder)
  /\ cached' = IF link = "down" THEN cached
               ELSE [members |-> Put(cached.members, u, member),
                     holders |-> Put(cached.holders, u, holder)]
  /\ overlooked' = IF link = "down" THEN overlooked ELSE overlooked \ {u}

Pays(u) ==
  /\ Change /\ paying' = Put(paying, u, u \notin paying)
  /\ steady' = steady \ {u}
  /\ UNCHANGED <<members, holders, writable, helper, cached, overlooked>>

(* guildMemberAdd, and grantIfSubscriber up to its read: from the last     *)
(* answer if there was one.                                                *)
Joins(u) ==
  /\ Change /\ u \notin members
  /\ Becomes(u, TRUE, FALSE)
  /\ check' = [check EXCEPT ![u] =
       CASE link = "down" \/ ~writable -> @
         [] ~lastDesired.known -> "ask"
         [] OTHER -> IF u \in lastDesired.users THEN "grant" ELSE @]
  /\ UNCHANGED <<paying, writable, link, fetch, loop, lastDesired, pass, steady>>

Leaves(u) ==
  /\ Change /\ u \in members /\ Becomes(u, FALSE, FALSE)
  /\ UNCHANGED <<paying, writable, helper, steady>>

HandChanges(u) ==
  /\ Change /\ u \in members /\ Becomes(u, TRUE, u \notin holders)
  /\ UNCHANGED <<paying, writable, helper, steady>>

RoleMoves ==
  /\ Change /\ writable' = ~writable
  /\ UNCHANGED <<paying, members, holders, helper, cached, history>>

-----------------------------------------------------------------------------
(* The gateway and the process.                                            *)

Outage ==
  /\ Fault /\ link # "down" /\ link' = "down"
  /\ UNCHANGED <<people, fetch, loop, lastDesired, pass, check, cached, history>>

(* A mutation: the cache is believed when the guild is back.               *)
GuildBelieved ==
  /\ link = "down" /\ link' = "up"
  /\ UNCHANGED <<people, fetch, loop, lastDesired, pass, check, cached, history, spent>>

GuildAvailable ==
  /\ link = "down" /\ link' = "stale"
  /\ UNCHANGED <<people, fetch, loop, lastDesired, pass, check, cached, history, spent>>

(* The process ends: a crash, a deploy, or a member fetch that failed.     *)
Restart ==
  /\ Fault
  /\ link' = "stale" /\ fetch' = NoFetch /\ loop' = FALSE
  /\ lastDesired' = NoAnswer /\ pass' = NoPass /\ check' = NoChecks
  /\ cached' = [members |-> {}, holders |-> {}] /\ overlooked' = {}
  /\ UNCHANGED <<people, steady>>

StartPass == [NoPass EXCEPT !.at = "read"]

(* tick, up to the read: a pass in flight is left alone, and a guild that  *)
(* is unavailable or a role that cannot be written ends the pass at once.  *)
MayTick == pass = NoPass /\ link # "down" /\ writable

(* syncMembers asks for all members; the chunks that answer go into the    *)
(* cache, which keeps who else is in it.  A second request waits for the   *)
(* first.                                                                  *)
FetchMembers ==
  /\ link = "stale" /\ ~fetch.on
  /\ link' = "fetched" /\ fetch' = [on |-> TRUE, users |-> members]
  /\ cached' = [members |-> cached.members \cup members,
                holders |-> (cached.holders \ members) \cup holders]
  /\ overlooked' = {}
  /\ UNCHANGED <<people, loop, lastDesired, pass, check, steady, spent>>

(* A mutation of Evicted: fetch() only adds.                               *)
EvictedNone == cached

(* Whoever was not in the answer leaves the cache, who has joined since    *)
(* then included.                                                          *)
Evicted == [members |-> cached.members \cap fetch.users,
            holders |-> cached.holders \cap fetch.users]

(* The end of syncMembers, then the first tick of the loop or the resync's *)
(* own.                                                                    *)
EvictMembers ==
  /\ fetch.on /\ fetch' = NoFetch
  /\ link' = (IF link = "fetched" THEN "up" ELSE link) /\ loop' = TRUE
  /\ cached' = Evicted
  /\ overlooked' = overlooked \cup (members \cap (cached.members \ fetch.users))
  /\ pass' = IF MayTick THEN StartPass ELSE pass
  /\ steady' = IF MayTick THEN paying ELSE steady
  /\ UNCHANGED <<people, lastDesired, check, spent>>

Tick ==
  /\ loop /\ MayTick
  /\ pass' = StartPass /\ steady' = paying
  /\ UNCHANGED <<people, link, fetch, loop, lastDesired, check, cached, overlooked, spent>>

-----------------------------------------------------------------------------
(* The pass.                                                               *)

Cap(population) ==
  LET tenth == (population + 9) \div 10
  IN IF tenth > RevokeFloor THEN tenth ELSE RevokeFloor

OnlyPass == UNCHANGED <<people, link, fetch, loop, check, cached, history>>

(* GET /internal/subscribers, in the backend.                              *)
Query ==
  /\ pass.at = "read"
  /\ pass' = [pass EXCEPT !.at = "answered", !.desired = paying]
  /\ OnlyPass /\ UNCHANGED <<lastDesired, spent>>

(* A mutation: a failed read looks empty.                                  *)
ReadEmpty ==
  /\ pass.at = "read" /\ Fault
  /\ pass' = [pass EXCEPT !.at = "answered", !.desired = {}]
  /\ OnlyPass /\ UNCHANGED lastDesired

(* The read fails, in the backend or on its way back: nothing is applied.  *)
ReadFails ==
  /\ pass.at \in {"read", "answered"} /\ Fault
  /\ pass' = NoPass
  /\ OnlyPass /\ UNCHANGED lastDesired

Plan ==
  LET grants == (pass.desired \cap cached.members) \ cached.holders
      revokes == cached.holders \ pass.desired
      within == Cardinality(revokes) <= Cap(Cardinality(cached.holders))
  IN
  /\ pass.at = "answered"
  /\ lastDesired' = [known |-> TRUE, users |-> pass.desired]
  /\ pass' = IF grants \cup revokes # {} /\ within
             THEN [at |-> "apply", desired |-> {}, grants |-> grants, revokes |-> revokes]
             ELSE NoPass
  /\ OnlyPass /\ UNCHANGED spent

memberVars == <<members, holders, cached, overlooked>>

(* A write to Discord, which may fail; a member who is gone has no roles.  *)
Write(u, holder) ==
  \/ /\ IF u \in members THEN Becomes(u, TRUE, holder) ELSE UNCHANGED memberVars
     /\ UNCHANGED spent
  \/ Fault /\ UNCHANGED memberVars

Without(u) ==
  LET rest == [pass EXCEPT !.grants = @ \ {u}, !.revokes = @ \ {u}]
  IN IF rest.grants \cup rest.revokes = {} THEN NoPass ELSE rest

(* applyRoleChange: the grants, then the revokes; a failure is left to the *)
(* next pass.                                                              *)
Apply(u) ==
  /\ pass.at = "apply"
  /\ u \in IF pass.grants # {} THEN pass.grants ELSE pass.revokes
  /\ Write(u, u \in pass.grants)
  /\ pass' = Without(u)
  /\ UNCHANGED <<paying, writable, link, fetch, loop, lastDesired, check, steady>>

-----------------------------------------------------------------------------
(* The rest of grantIfSubscriber.                                          *)

CheckAsks(u) ==
  /\ check[u] = "ask"
  /\ \/ check' = [check EXCEPT ![u] = IF u \in paying THEN "grant" ELSE "none"]
        /\ UNCHANGED spent
     \/ check' = [check EXCEPT ![u] = "none"] /\ Fault
  /\ UNCHANGED <<people, link, fetch, loop, lastDesired, pass, cached, history>>

CheckGrants(u) ==
  /\ check[u] = "grant"
  /\ Write(u, TRUE)
  /\ check' = [check EXCEPT ![u] = "none"]
  /\ UNCHANGED <<paying, writable, link, fetch, loop, lastDesired, pass, steady>>

-----------------------------------------------------------------------------
Next ==
  \/ \E u \in Users :
       \/ Pays(u) \/ Joins(u) \/ Leaves(u) \/ HandChanges(u)
       \/ Apply(u) \/ CheckAsks(u) \/ CheckGrants(u)
  \/ RoleMoves \/ Outage \/ GuildAvailable \/ Restart
  \/ FetchMembers \/ EvictMembers \/ Tick \/ Query \/ ReadFails \/ Plan

HelperSpec == Init /\ [][Next]_vars

HelperTypeOK ==
  /\ paying \subseteq Users /\ members \subseteq Users /\ holders \subseteq members
  /\ cached \in [members : SUBSET Users, holders : SUBSET Users]
  /\ link \in {"up", "stale", "fetched", "down"} /\ fetch \in [on : BOOLEAN, users : SUBSET Users]
  /\ writable \in BOOLEAN /\ loop \in BOOLEAN
  /\ lastDesired \in [known : BOOLEAN, users : SUBSET Users]
  /\ pass \in [at : {"idle", "read", "answered", "apply"}, desired : SUBSET Users,
               grants : SUBSET Users, revokes : SUBSET Users]
  /\ check \in [Users -> {"none", "ask", "grant"}]
  /\ steady \subseteq Users /\ overlooked \subseteq Users
  /\ spent \in [changes : 0..MaxChanges, faults : 0..MaxFaults]

(* What the passes compare with is the truth: as long as the gateway is up *)
(* and the members are not being fetched, the cache has every member and   *)
(* no one else, with their role, whatever an outage hid before; except for *)
(* whom the clean-up after the last fetch took out of it while they were   *)
(* joining (reconcile.ts:199-209).                                         *)
CacheIsTrue ==
  link = "up" => cached = [members |-> members \ overlooked, holders |-> holders \ overlooked]

(* Once people and calls settle, a member holds the role if and only if    *)
(* they pay, whatever outages, restarts, failed writes and stale join      *)
(* checks came before; unless the guard holds back more revokes than its   *)
(* cap, or the helper may not write the role.  The one member it does not  *)
(* hold for is who joined while the members were being fetched and was     *)
(* taken out of the cache (reconcile.ts:207): no pass sees them until an   *)
(* event or the next fetch does.                                           *)
RolesConverge ==
  <>[]( \/ \A u \in Users \ overlooked : u \in holders <=> u \in paying \cap members
        \/ ~writable
        \/ Cardinality(holders \ paying) > Cap(Cardinality(holders)) )

(* Who pays throughout a pass does not lose the role to it.  "Never revoke *)
(* on a failed read" (reconcile.ts:102).                                   *)
KeepsPaying ==
  [][ spent'.changes = spent.changes => (holders \ holders') \cap steady = {} ]_vars
=============================================================================
