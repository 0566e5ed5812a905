------------------------------ MODULE MCDiscord ------------------------------
(***************************************************************************)
(* Four parts that answer to what Discord says: the helper's role passes,  *)
(* the free plan's jobs in the proxy, the backend's reads on a user's      *)
(* token, and the page those reads fill.  A behaviour has one of them and  *)
(* leaves the others as they begin.                                        *)
(***************************************************************************)
EXTENDS HelperRoles, CrosspostJobs, UserReads, DashboardPage, TLC

VARIABLE part

MCPosts == {<<f, 1>> : f \in Feeds}

MCInit ==
  /\ part \in {"helper", "jobs", "reads", "page"}
  /\ Init /\ (part # "helper" => paying = {} /\ members = {})
  /\ JobsInit
  /\ ReadsInit /\ manages
  /\ PageInit /\ (part # "page" => at = "list")

MCNext ==
  \/ part = "helper" /\ Next /\ UNCHANGED <<part, jobVars, readVars, pageVars>>
  \/ part = "jobs" /\ JobsNext /\ UNCHANGED <<part, vars, readVars, pageVars>>
  \/ part = "reads" /\ ReadsNext /\ UNCHANGED <<part, vars, jobVars, pageVars>>
  \/ part = "page" /\ PageNext /\ UNCHANGED <<part, vars, jobVars, readVars>>

(* The poll timer fires, calls end, and an outage does too.                *)
HelperFairness ==
  /\ WF_vars(part = "helper" /\ GuildAvailable) /\ WF_vars(part = "helper" /\ FetchMembers)
  /\ WF_vars(part = "helper" /\ EvictMembers)
  /\ WF_vars(part = "helper" /\ Tick)
  /\ WF_vars(part = "helper" /\ Query) /\ WF_vars(part = "helper" /\ Plan)
  /\ WF_vars(part = "helper" /\ \E u \in Users : Apply(u) \/ CheckAsks(u) \/ CheckGrants(u))

(* Where there is no page, its fairness asks for nothing.                  *)
Spec ==
  /\ MCInit /\ [][MCNext]_<<part, vars, jobVars, readVars, pageVars>>
  /\ HelperFairness /\ PageFairness
=============================================================================
