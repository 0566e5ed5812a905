----------------------------- MODULE FilterRules -----------------------------
(***************************************************************************)
(* The filter rule of one channel as its two editors see it: the row the   *)
(* backend keeps and the routes that change it.  The bot's panel changes   *)
(* one condition at a time, by its id (routes/channel/filter.ts); the      *)
(* dashboard replaces the whole rule (routes/api/guild.ts).  Either route  *)
(* reads the row, and later writes the list it made of what it read, and   *)
(* later, if the cache cannot be written, writes back what it read; calls  *)
(* overlap: FilterPanel and RuleEditor take them step by step.  The keys   *)
(* behind the row are in ChannelServing.                                   *)
(*                                                                         *)
(* What a condition says is reduced to its kind: a keyword condition that  *)
(* Discord's form can hold, one that is too long for it, or mentions.      *)
(***************************************************************************)
EXTENDS Naturals, Sequences, SequencesExt

CONSTANTS
  Kinds,      (* kinds of condition in use                                   *)
  Limit,      (* config.limits.filtersPerChannel                             *)
  MaxIds      (* bound: condition ids minted                                 *)

ASSUME RulesAssumption ==
  /\ Kinds \subseteq {"word", "long", "role"} /\ "word" \in Kinds
  /\ Limit \in Nat \ {0} /\ MaxIds \in Nat \ {0}

VARIABLES
  row,        (* the channel's row: [state, filters, mode]                   *)
  premium,    (* the guild is on Premium                                     *)
  fresh       (* condition ids minted so far (they are random UUIDs)         *)

rules == <<row, premium, fresh>>

Modes == {"any", "all"}
TypeOf(k) == IF k = "role" THEN "mention" ELSE "keyword"
Types == {TypeOf(k) : k \in Kinds}

Conditions == [id : 1..MaxIds, kind : Kinds]
Rows == [state : {"none", "paused", "serving"},
         filters : BoundedSeq(Conditions, MaxIds), mode : Modes]
NoRow == [state |-> "none", filters |-> <<>>, mode |-> "all"]
NewRow == [NoRow EXCEPT !.state = "serving"]

(* Overlapping additions pass the cap, so that a rule can be longer.       *)
RulesTypeOK == row \in Rows /\ premium \in BOOLEAN /\ fresh \in 0..MaxIds

IdList(fs) == [i \in DOMAIN fs |-> fs[i].id]
IdsOf(fs) == {fs[i].id : i \in DOMAIN fs}
Position(fs, id) == CHOOSE i \in DOMAIN fs : fs[i].id = id

RulesInit ==
  /\ row \in {[NewRow EXCEPT !.filters = fs] : fs \in {<<>>, <<[id |-> 1, kind |-> "word"]>>}}
  /\ premium = TRUE /\ fresh = Len(row.filters)

-----------------------------------------------------------------------------
(* The bot's routes: what each asks of the row that its first read finds,  *)
(* and the list it makes of the list that its second read finds.  None of  *)
(* them asks for the plan, or whether the row is paused.                   *)

Exists == row.state # "none"

MayAdd == Exists /\ Len(row.filters) < Limit
MayUpdate(id) == id \in IdsOf(row.filters)

AddFilter(fs, id, k) == Append(fs, [id |-> id, kind |-> k])

(* To remove what is already gone succeeds.  No two conditions have an id. *)
RemoveFilter(fs, id) == IF id \in IdsOf(fs) THEN RemoveAt(fs, Position(fs, id)) ELSE fs

UpdateFilter(fs, id, k) == [fs EXCEPT ![Position(fs, id)].kind = k]

(* UPDATE ... WHERE channelId: of a row that is gone, nothing.             *)
UpdateRow(fs, m) ==
  row' = IF Exists THEN [row EXCEPT !.filters = fs, !.mode = m] ELSE row

-----------------------------------------------------------------------------
(* The dashboard's: the plan, the row and the cap are checked, the         *)
(* conditions get new ids, the row is read again and the whole rule        *)
(* written.                                                                *)
MaySetFilters(kinds) ==
  premium /\ row.state = "serving" /\ Len(kinds) <= Limit

(* A mutation: a condition keeps the id of its position.                   *)
NewRuleInPlace(kinds) == [i \in DOMAIN kinds |-> [id |-> i, kind |-> kinds[i]]]

NewRule(kinds) == [i \in DOMAIN kinds |-> [id |-> fresh + i, kind |-> kinds[i]]]

Mint(kinds) == fresh + Len(kinds) <= MaxIds /\ fresh' = fresh + Len(kinds)

(* A call of another surface ends, that read the row when it began: it     *)
(* writes a rule of its own, or puts back any that there has been.  The    *)
(* conditions of a rule are in the order in which they were added.         *)
InOrder(fs) == \A i, j \in DOMAIN fs : i < j => fs[i].id < fs[j].id

WriteElsewhere ==
  /\ \E fs \in BoundedSeq(Conditions, MaxIds), m \in Modes :
       InOrder(fs) /\ UpdateRow(fs, m)
  /\ UNCHANGED <<premium, fresh>>

-----------------------------------------------------------------------------
(* What happens to the channel elsewhere.                                  *)

(* Disabling deletes the row with its rule.                                *)
DisableChannel == Exists /\ row' = NoRow /\ UNCHANGED <<premium, fresh>>

(* Enabling starts an empty rule; a paused row keeps its own, unless the   *)
(* plan is free: then it is dropped, with consent.                         *)
EnableChannel ==
  /\ row.state # "serving"
  /\ row' = IF premium /\ Exists THEN [row EXCEPT !.state = "serving"] ELSE NewRow
  /\ UNCHANGED <<premium, fresh>>

(* The plan ends and the channel is paused if it has conditions; when it   *)
(* comes back, so does the channel.                                        *)
LosePremium ==
  /\ premium /\ premium' = FALSE
  /\ row' = IF row.filters # <<>> THEN [row EXCEPT !.state = "paused"] ELSE row
  /\ UNCHANGED fresh

GainPremium ==
  /\ ~premium /\ premium' = TRUE
  /\ row' = IF row.state = "paused" THEN [row EXCEPT !.state = "serving"] ELSE row
  /\ UNCHANGED fresh

RowMoves == DisableChannel \/ EnableChannel \/ LosePremium \/ GainPremium
RulesNext == RowMoves \/ WriteElsewhere
=============================================================================
