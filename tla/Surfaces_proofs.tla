--------------------------- MODULE Surfaces_proofs ---------------------------
(***************************************************************************)
(* What holds of the surfaces for every number of handlers, calls, presses,*)
(* buyers, channels and writers, and for rules and forms of any length.    *)
(* Each surface has a specification of its own: its steps, and what others *)
(* do to the state it shares.  MCSurfaces plays them one to a behaviour.   *)
(***************************************************************************)
EXTENDS FilterPanel, PanelClock, RuleEditor, ChannelSwitch, RolloverSwitch,
        GuildOverview, Checkout, PublishState, FiniteSetTheorems, FunctionTheorems,
        SequenceTheorems, TLAPS

-----------------------------------------------------------------------------
(* The row that the panel, the editor and the switch share.                  *)

(* A row is a record of its three fields: a step takes them one by one.      *)
RowShape  == row = [state |-> row.state, filters |-> row.filters, mode |-> row.mode]

(* Whatever changes the row leaves a row.                                    *)
LEMMA RulesKeepShape ==
  ASSUME RowShape,
         \/ RulesNext
         \/ \E fs, m : UpdateRow(fs, m)
         \/ UNCHANGED row
  PROVE  RowShape'
<1> DEFINE Shape(r) == r = [state |-> r.state, filters |-> r.filters, mode |-> r.mode]
<1>1. Shape(row) /\ Shape(NoRow) /\ Shape(NewRow)
  BY DEF RowShape, NoRow, NewRow
<1>2. ASSUME NEW fs, NEW m, UpdateRow(fs, m) PROVE Shape(row')
  <2> DEFINE r == [row EXCEPT !.filters = fs, !.mode = m]
  <2>1. row' = row \/ row' = r
    BY <1>2 DEF UpdateRow
  <2>2. r \in [state : {row.state}, filters : {fs}, mode : {m}]
    BY DEF RowShape
  <2> HIDE DEF r
  <2>3. Shape(r)
    BY <2>2
  <2> QED BY <1>1, <2>1, <2>3
<1>3. \A st : Shape([row EXCEPT !.state = st])
  <2> SUFFICES ASSUME NEW st PROVE Shape([row EXCEPT !.state = st])
    OBVIOUS
  <2> DEFINE r == [row EXCEPT !.state = st]
  <2>1. r \in [state : {st}, filters : {row.filters}, mode : {row.mode}]
    BY DEF RowShape
  <2> HIDE DEF r
  <2>2. Shape(r)
    BY <2>1
  <2> QED BY <2>2 DEF r
<1> HIDE DEF Shape
<1>4. ASSUME RulesNext PROVE Shape(row')
  <2>1. CASE RowMoves
    BY <1>1, <1>3, <2>1
       DEF RowMoves, DisableChannel, EnableChannel, LosePremium, GainPremium
  <2>2. CASE WriteElsewhere
    BY <1>2, <2>2 DEF WriteElsewhere
  <2> QED BY <1>4, <2>1, <2>2 DEF RulesNext
<1>5. Shape(row')
  BY <1>1, <1>2, <1>4
<1> QED BY <1>5 DEF Shape, RowShape

(* The rule a write leaves: its list, or that of a row that is not there.    *)
LEMMA WrittenRule ==
  ASSUME RowShape, NEW fs, NEW m, UpdateRow(fs, m)
  PROVE  IF Exists THEN row'.filters = fs /\ row'.mode = m /\ row'.state = row.state
         ELSE row' = row
BY DEF RowShape, UpdateRow

(* A rule is a list of numbered conditions.                                  *)
Rule(T) == Seq([id : Nat, kind : T])
IsRule(fs) == \E T : fs \in Rule(T)

(* What each editing of a rule does to its ids.                              *)
LEMMA WiderRule ==
  ASSUME NEW T, NEW U, T \subseteq U, NEW fs \in Rule(T)
  PROVE  fs \in Rule(U)
<1>1. [id : Nat, kind : T] \subseteq [id : Nat, kind : U]
  OBVIOUS
<1> QED BY <1>1, SeqMonotonic DEF Rule

LEMMA AppendedIsNew ==
  ASSUME NEW T, NEW fs \in Rule(T), NEW n \in Nat, NEW k
  PROVE  /\ Append(fs, [id |-> n, kind |-> k]) \in Rule(T \cup {k})
         /\ IdsOf(Append(fs, [id |-> n, kind |-> k])) \subseteq IdsOf(fs) \cup {n}
<1> DEFINE D == [id : Nat, kind : T \cup {k}]
           c == [id |-> n, kind |-> k]
           gs == Append(fs, c)
<1>1. c \in D /\ c.id = n /\ fs \in Seq(D)
  BY WiderRule DEF Rule
<1> HIDE DEF D, c
<1>2. /\ gs \in Seq(D) /\ DOMAIN gs = 1..(Len(fs) + 1) /\ gs[Len(fs) + 1] = c
      /\ \A i \in 1..Len(fs) : gs[i] = fs[i]
  BY <1>1
<1>3. DOMAIN fs = 1..Len(fs) /\ Len(fs) \in Nat
  BY <1>1
<1> HIDE DEF gs
<1>4. ASSUME NEW i \in DOMAIN gs PROVE gs[i].id = n \/ (i \in DOMAIN fs /\ gs[i] = fs[i])
  BY <1>1, <1>2, <1>3
<1>5. IdsOf(gs) \subseteq IdsOf(fs) \cup {n}
  BY <1>4 DEF IdsOf
<1> QED BY <1>2, <1>5 DEF Rule, D, gs, c

LEMMA RemovedIsLess ==
  ASSUME NEW T, NEW fs \in Rule(T), NEW p \in DOMAIN fs
  PROVE  RemoveAt(fs, p) \in Rule(T) /\ IdsOf(RemoveAt(fs, p)) \subseteq IdsOf(fs)
<1> DEFINE C == [id : Nat, kind : T]
           a == SubSeq(fs, 1, p - 1)
           b == SubSeq(fs, p + 1, Len(fs))
           gs == a \o b
<1>1. fs \in Seq(C) /\ DOMAIN fs = 1..Len(fs) /\ Len(fs) \in Nat /\ p \in 1..Len(fs)
  BY DEF Rule
<1> HIDE DEF C
<1>2. \A i \in 1..Len(fs) : fs[i] \in C
  BY <1>1
<1>3. a \in Seq(C) /\ Len(a) = p - 1 /\ \A i \in 1..(p - 1) : a[i] = fs[i]
  BY <1>1, <1>2, SubSeqProperties
<1>4. b \in Seq(C) /\ Len(b) = Len(fs) - p /\ \A i \in 1..(Len(fs) - p) : b[i] = fs[p + i]
  <2>1. \A i \in 1..(Len(fs) - (p + 1) + 1) : b[i] = fs[(p + 1) + i - 1]
    BY <1>1, <1>2, SubSeqProperties
  <2>2. b \in Seq(C) /\ Len(b) = IF p + 1 <= Len(fs) THEN Len(fs) - (p + 1) + 1 ELSE 0
    BY <1>1, <1>2, SubSeqProperties
  <2> HIDE DEF b
  <2>3. \A i \in 1..(Len(fs) - p) : (p + 1) + i - 1 = p + i /\ i \in 1..(Len(fs) - (p + 1) + 1)
    BY <1>1
  <2>4. Len(b) = Len(fs) - p
    BY <1>1, <2>2
  <2> QED BY <2>1, <2>2, <2>3, <2>4
<1>5. RemoveAt(fs, p) = gs
  BY DEF RemoveAt
<1> HIDE DEF a, b
<1>6. /\ gs \in Seq(C) /\ Len(gs) = Len(a) + Len(b)
      /\ \A i \in 1..(Len(a) + Len(b)) : gs[i] = IF i <= Len(a) THEN a[i] ELSE b[i - Len(a)]
  BY <1>3, <1>4, ConcatProperties
<1> HIDE DEF gs
<1>7. DOMAIN gs = 1..(Len(fs) - 1)
  BY <1>1, <1>3, <1>4, <1>6
<1>8. ASSUME NEW i \in DOMAIN gs PROVE \E j \in DOMAIN fs : gs[i] = fs[j]
  <2>1. i \in 1..(Len(fs) - 1)
    BY <1>7
  <2>2. CASE i <= p - 1
    <3>1. gs[i] = a[i] /\ a[i] = fs[i]
      BY <1>1, <1>3, <1>4, <1>6, <2>1, <2>2
    <3> QED BY <1>1, <2>1, <3>1
  <2>3. CASE ~(i <= p - 1)
    <3>1. i - (p - 1) \in 1..(Len(fs) - p) /\ p + (i - (p - 1)) = i + 1 /\ i + 1 \in 1..Len(fs)
      BY <1>1, <2>1, <2>3
    <3>2. gs[i] = b[i - (p - 1)]
      BY <1>1, <1>3, <1>4, <1>6, <2>1, <2>3
    <3>3. b[i - (p - 1)] = fs[i + 1]
      BY <1>4, <3>1
    <3> QED BY <1>1, <3>1, <3>2, <3>3
  <2> QED BY <2>2, <2>3
<1>9. IdsOf(gs) \subseteq IdsOf(fs)
  BY <1>8 DEF IdsOf
<1> QED BY <1>5, <1>6, <1>9 DEF Rule, C

LEMMA ReplacedKeepsIds ==
  ASSUME NEW T, NEW fs \in Rule(T), NEW p \in DOMAIN fs, NEW k
  PROVE  /\ [fs EXCEPT ![p].kind = k] \in Rule(T \cup {k})
         /\ IdsOf([fs EXCEPT ![p].kind = k]) \subseteq IdsOf(fs)
<1> DEFINE D == [id : Nat, kind : T \cup {k}]
           d == [fs[p] EXCEPT !.kind = k]
           gs == [fs EXCEPT ![p] = d]
<1>1. fs \in Seq([id : Nat, kind : T]) /\ fs \in Seq(D)
  BY WiderRule DEF Rule
<1>2. fs[p] \in [id : Nat, kind : T] /\ p \in 1..Len(fs) /\ DOMAIN fs = 1..Len(fs)
  BY <1>1, LenProperties, ElementOfSeq
<1>3. d \in D /\ d.id = fs[p].id
  BY <1>2
<1> HIDE DEF D, d
<1>4. /\ gs \in Seq(D) /\ DOMAIN gs = DOMAIN fs
      /\ \A i \in DOMAIN fs : gs[i] = IF i = p THEN d ELSE fs[i]
  BY <1>1, <1>2, <1>3, ExceptSeq
<1> HIDE DEF gs
<1>5. \A i \in DOMAIN fs : gs[i].id = fs[i].id
  BY <1>3, <1>4
<1>6. IdsOf(gs) \subseteq IdsOf(fs)
  BY <1>4, <1>5 DEF IdsOf
<1>7. gs \in Rule(T \cup {k})
  BY <1>4 DEF Rule, D
<1> QED BY <1>6, <1>7 DEF gs, d

LEMMA EditedRule ==
  ASSUME NEW fs, IsRule(fs), NEW id, NEW k
  PROVE  /\ id \in Nat => /\ IsRule(AddFilter(fs, id, k))
                          /\ IdsOf(AddFilter(fs, id, k)) \subseteq IdsOf(fs) \cup {id}
         /\ IsRule(RemoveFilter(fs, id)) /\ IdsOf(RemoveFilter(fs, id)) \subseteq IdsOf(fs)
         /\ IsRule(UpdateFilter(fs, id, k)) /\ IdsOf(UpdateFilter(fs, id, k)) \subseteq IdsOf(fs)
<1> PICK T : fs \in Rule(T)
  BY DEF IsRule
<1> DEFINE p == Position(fs, id)
<1>1. id \in IdsOf(fs) => p \in DOMAIN fs
  BY DEF IdsOf, Position
<1> HIDE DEF p
<1>2. id \in Nat => /\ IsRule(AddFilter(fs, id, k))
                    /\ IdsOf(AddFilter(fs, id, k)) \subseteq IdsOf(fs) \cup {id}
  <2>1. ASSUME id \in Nat
        PROVE  /\ AddFilter(fs, id, k) \in Rule(T \cup {k})
               /\ IdsOf(AddFilter(fs, id, k)) \subseteq IdsOf(fs) \cup {id}
    BY <2>1, AppendedIsNew DEF AddFilter
  <2> QED BY <2>1 DEF IsRule
<1>3. IsRule(RemoveFilter(fs, id)) /\ IdsOf(RemoveFilter(fs, id)) \subseteq IdsOf(fs)
  <2>1. CASE id \in IdsOf(fs)
    <3>1. RemoveFilter(fs, id) = RemoveAt(fs, p) /\ p \in DOMAIN fs
      BY <1>1, <2>1 DEF RemoveFilter, p
    <3> QED BY <3>1, RemovedIsLess DEF IsRule
  <2>2. CASE id \notin IdsOf(fs)
    BY <2>2 DEF RemoveFilter
  <2> QED BY <2>1, <2>2
<1>4. IsRule(UpdateFilter(fs, id, k)) /\ IdsOf(UpdateFilter(fs, id, k)) \subseteq IdsOf(fs)
  <2> DEFINE gs == [fs EXCEPT ![p].kind = k]
  <2>1. UpdateFilter(fs, id, k) = gs
    BY DEF UpdateFilter, p
  <2>2. CASE p \in DOMAIN fs
    <3>1. gs \in Rule(T \cup {k}) /\ IdsOf(gs) \subseteq IdsOf(fs)
      BY <2>2, ReplacedKeepsIds
    <3> QED BY <2>1, <3>1 DEF IsRule
  <2>3. CASE p \notin DOMAIN fs
    <3>1. fs = [i \in DOMAIN fs |-> fs[i]]
      BY DEF Rule
    <3>2. gs = fs
      BY <2>3, <3>1
    <3> QED BY <2>1, <3>2
  <2> QED BY <2>2, <2>3
<1> QED BY <1>2, <1>3, <1>4

(* A save of one condition.                                                  *)
LEMMA RuleOfOne ==
  ASSUME fresh \in Nat, NEW k
  PROVE  /\ IsRule(NewRule(<<k>>)) /\ \A id \in IdsOf(NewRule(<<k>>)) : id > fresh
<1> DEFINE x == [id |-> fresh + 1, kind |-> k]
           C == [id : Nat, kind : {k}]
<1>1. NewRule(<<k>>) = <<x>>
  BY DEF NewRule
<1>2. x \in C /\ x.id = fresh + 1
  OBVIOUS
<1> HIDE DEF x, C
<1>3. <<x>> \in Seq(C) /\ DOMAIN <<x>> = {1} /\ <<x>>[1] = x
  BY <1>2
<1>4. NewRule(<<k>>) \in Rule({k})
  BY <1>1, <1>3 DEF Rule, C
<1>5. \A id \in IdsOf(NewRule(<<k>>)) : id = fresh + 1
  BY <1>1, <1>2, <1>3 DEF IdsOf
<1> QED BY <1>4, <1>5 DEF IsRule

-----------------------------------------------------------------------------
(* The panel, a save of the dashboard's beside it, and whatever the plan and  *)
(* the channel's switch do to the row.                                       *)
PanelStep ==
  \/ PanelNext \/ TabNext \/ LoseManager
  \/ \E m \in Modes, k \in Kinds : TabSaves(m, <<k>>)
  \/ RowMoves /\ UNCHANGED panel
PanelSpec == RulesInit /\ PanelInit /\ [][PanelStep]_<<rules, panel>>

(* What handlers and the save carry are rules; a condition to be added, and   *)
(* those of a save, have ids of their own.                                   *)
HandlerOk(h) ==
  /\ DOMAIN h = DOMAIN Idle /\ IsRule(h.seen.filters)
  /\ h.act = "add" /\ h.at \in {"list", "store"} => h.id \in Nat
DraftOk(d) ==
  /\ DOMAIN d = DOMAIN NoDraft /\ IsRule(d.seen.filters) /\ IsRule(d.filters)
  /\ \A id \in IdsOf(d.filters) : id > d.from
RuleOk == RowShape /\ fresh \in Nat /\ IsRule(row.filters)
HandlersOk == DOMAIN handler = Slots /\ \A s \in Slots : HandlerOk(handler[s])
PanelInv == RuleOk /\ HandlersOk /\ DraftOk(draft)

(* A row that is read or written.                                            *)
LEMMA RowKept ==
  ASSUME RuleOk, UNCHANGED <<row, fresh>> PROVE RuleOk'
BY DEF RuleOk, RowShape

LEMMA RowWritten ==
  ASSUME RuleOk, NEW fs, NEW m, UpdateRow(fs, m), IsRule(fs), UNCHANGED fresh
  PROVE  RuleOk' /\ IdsOf(row'.filters) \subseteq IdsOf(row.filters) \cup IdsOf(fs)
<1>1. RowShape'
  BY RulesKeepShape DEF RuleOk
<1>2. row'.filters = fs \/ row' = row
  BY WrittenRule DEF RuleOk
<1> QED BY <1>1, <1>2 DEF RuleOk

LEMMA EmptyRule == IsRule(<<>>) /\ IdsOf(<<>>) = {}
<1>1. <<>> \in Rule({})
  BY DEF Rule
<1> QED BY <1>1 DEF IsRule, IdsOf

LEMMA HandlerMoves ==
  ASSUME HandlersOk, NEW s \in Slots, NEW h, HandlerOk(h), Become(s, h)
  PROVE  HandlersOk' /\ handler'[s] = h
BY DEF HandlersOk, Become

LEMMA IdleOk == HandlerOk(Idle)
BY EmptyRule DEF HandlerOk, Idle, NoRow

LEMMA BackOk ==
  ASSUME NEW b PROVE HandlerOk([Idle EXCEPT !.act = "back", !.at = "read", !.last = b])
BY EmptyRule DEF HandlerOk, Idle, NoRow

(* The end of a call, whatever its answer, frees the handler or has it read.  *)
LEMMA CallAnswered ==
  ASSUME HandlersOk, NEW s \in Slots, NEW ok, Answer(s, ok)
  PROVE  HandlersOk' /\ handler'[s].at \notin {"store", "undo"}
<1> DEFINE h == [Idle EXCEPT !.act = "back", !.at = "read",
                             !.last = ok /\ handler[s].act = "add"]
<1>1. Become(s, Idle) \/ Become(s, h)
  BY DEF Answer, Finish
<1>2. HandlerOk(h) /\ h.at = "read" /\ Idle.at = "idle"
  BY BackOk DEF Idle
<1> HIDE DEF h
<1> QED BY <1>1, <1>2, IdleOk, HandlerMoves

(* What the routes store and put back.                                       *)
LEMMA StoresItsReading ==
  ASSUME PanelInv, NEW s \in Slots, RouteStores(s)
  PROVE  PanelInv' /\ \A id \in IdsOf(row'.filters) \ IdsOf(row.filters) : WritesBack(s, id)
<1> DEFINE h == handler[s]
<1>0. /\ h.at = "store" /\ UNCHANGED <<fresh, draft>> /\ RuleOk /\ HandlersOk /\ HandlerOk(h)
      /\ IsRule(h.seen.filters)
  BY DEF RouteStores, PanelInv, HandlersOk, HandlerOk
<1>1. HandlersOk' /\ handler'[s].at # "store"
  <2>1. CASE Answer(s, TRUE)
    BY <1>0, <2>1, CallAnswered
  <2>2. CASE Become(s, [h EXCEPT !.at = "undo"])
    <3>1. HandlerOk([h EXCEPT !.at = "undo"]) /\ [h EXCEPT !.at = "undo"].at = "undo"
      BY <1>0 DEF HandlerOk, Idle
    <3> QED BY <1>0, <2>2, <3>1, HandlerMoves
  <2> QED BY <2>1, <2>2 DEF RouteStores
<1>2. RuleOk' /\ \A id \in IdsOf(row'.filters) \ IdsOf(row.filters) :
                    id \in IdsOf(h.seen.filters) \/ (h.act = "add" /\ id = h.id)
  <2>0. Outcome(h)
    BY DEF RouteStores
  <2>1. CASE h.act = "add"
    <3>1. UpdateRow(AddFilter(h.seen.filters, h.id, h.kind), row.mode) /\ h.id \in Nat
      BY <1>0, <2>0, <2>1 DEF Outcome, HandlerOk
    <3> QED BY <1>0, <2>1, <3>1, EditedRule, RowWritten
  <2>2. CASE h.act = "edit"
    <3>1. UpdateRow(UpdateFilter(h.seen.filters, h.id, h.kind), row.mode)
      BY <2>0, <2>2 DEF Outcome
    <3> QED BY <1>0, <3>1, EditedRule, RowWritten
  <2>3. CASE h.act = "confirm"
    <3> DEFINE fs == RemoveFilter(h.seen.filters, h.id)
    <3>1. UpdateRow(fs, row.mode)
      BY <2>0, <2>3 DEF Outcome
    <3>2. IsRule(fs) /\ IdsOf(fs) \subseteq IdsOf(h.seen.filters)
      BY <1>0, EditedRule
    <3> HIDE DEF fs
    <3> QED BY <1>0, <3>1, <3>2, RowWritten
  <2>4. CASE h.act \notin {"add", "edit", "confirm"}
    <3>1. UpdateRow(row.filters, h.act)
      BY <2>0, <2>4 DEF Outcome
    <3> QED BY <1>0, <3>1, RowWritten DEF RuleOk
  <2> QED BY <2>1, <2>2, <2>3, <2>4
<1>3. PanelInv'
  BY <1>0, <1>1, <1>2 DEF PanelInv
<1>4. handler'[s] # handler[s]
  BY <1>0, <1>1
<1> QED BY <1>0, <1>2, <1>3, <1>4 DEF WritesBack, Seen

LEMMA UndoesToItsReading ==
  ASSUME PanelInv, NEW s \in Slots, RouteUndoes(s)
  PROVE  PanelInv' /\ \A id \in IdsOf(row'.filters) \ IdsOf(row.filters) : WritesBack(s, id)
<1> DEFINE h == handler[s]
<1>0. /\ h.at = "undo" /\ UNCHANGED <<fresh, draft>> /\ RuleOk /\ HandlersOk
      /\ Answer(s, FALSE) /\ IsRule(h.seen.filters) /\ IsRule(row.filters)
  BY DEF RouteUndoes, PanelInv, HandlersOk, HandlerOk, RuleOk
<1>1. HandlersOk' /\ handler'[s].at # "undo"
  BY <1>0, CallAnswered
<1>2. RuleOk' /\ IdsOf(row'.filters) \subseteq IdsOf(row.filters) \cup IdsOf(h.seen.filters)
  <2>1. UpdateRow(row.filters, Seen(s).mode) \/ UpdateRow(h.seen.filters, row.mode)
    BY DEF RouteUndoes, Seen
  <2> QED BY <1>0, <2>1, RowWritten
<1>3. handler'[s] # handler[s]
  BY <1>0, <1>1
<1> QED BY <1>0, <1>1, <1>2, <1>3 DEF WritesBack, Seen, PanelInv

(* Every other step of a handler leaves the row.                             *)
LEMMA HandlersKeep ==
  ASSUME PanelInv, NEW s \in Slots,
         \/ \E b \in Buttons : Press(s, b)
         \/ Read(s) \/ Show(s) \/ OpenForm(s) \/ Lapse(s)
         \/ SubmitInvalid(s) \/ SubmitDenied(s) \/ (\E k \in Kinds : Submit(s, k))
         \/ RouteChecks(s) \/ RouteReads(s) \/ RouteFails(s) \/ CallThrows(s)
  PROVE  PanelInv' /\ row' = row
<1> DEFINE h == handler[s]
<1>0. RuleOk /\ HandlersOk /\ HandlerOk(h) /\ DraftOk(draft) /\ fresh \in Nat
  BY DEF PanelInv, HandlersOk, RuleOk
<1>1. ASSUME UNCHANGED <<rules, draft>>, NEW g, HandlerOk(g), Become(s, g)
      PROVE  PanelInv' /\ row' = row
  BY <1>0, <1>1, RowKept, HandlerMoves DEF PanelInv, rules
<1>2. ASSUME UNCHANGED <<row, draft>>, fresh' \in Nat, HandlersOk'
      PROVE  PanelInv' /\ row' = row
  BY <1>0, <1>2 DEF PanelInv, RuleOk, RowShape
<1>3. ASSUME NEW ok, Answer(s, ok), UNCHANGED <<row, draft, fresh>>
      PROVE  PanelInv' /\ row' = row
  BY <1>0, <1>2, <1>3, CallAnswered
<1>4. ASSUME NEW b \in Buttons, Press(s, b) PROVE PanelInv' /\ row' = row
  <2> DEFINE g == [Idle EXCEPT !.act = b.act, !.id = b.id,
                     !.at = IF b.act \in {"any", "all", "confirm"} THEN "list" ELSE "read"]
  <2>1. Become(s, g) /\ UNCHANGED <<rules, draft>>
    BY <1>4 DEF Press
  <2>2. HandlerOk(g)
    BY EmptyRule DEF HandlerOk, Idle, NoRow
  <2> HIDE DEF g
  <2> QED BY <1>1, <2>1, <2>2
<1>5. CASE Read(s)
  <2> PICK r : /\ r \in {NoRow, row}
               /\ Become(s, [handler[s] EXCEPT !.at = "show", !.seen = r])
    BY <1>5 DEF Read
  <2> DEFINE g == [h EXCEPT !.at = "show", !.seen = r]
  <2>1. HandlerOk(g)
    <3>1. IsRule(r.filters)
      BY <1>0, EmptyRule DEF RuleOk, NoRow
    <3>2. DOMAIN g = DOMAIN Idle /\ g.at = "show" /\ g.seen = r
      BY <1>0 DEF HandlerOk, Idle
    <3> QED BY <3>1, <3>2 DEF HandlerOk
  <2> HIDE DEF g
  <2>2. Become(s, g)
    BY DEF g
  <2> QED BY <1>1, <1>5, <2>1, <2>2 DEF Read
<1>6. CASE OpenForm(s)
  <2> PICK t : Become(s, [h EXCEPT !.at = "form", !.seen = NoRow, !.type = t])
    BY <1>6 DEF OpenForm
  <2> DEFINE g == [h EXCEPT !.at = "form", !.seen = NoRow, !.type = t]
  <2>1. HandlerOk(g)
    <3>1. DOMAIN g = DOMAIN Idle /\ g.at = "form" /\ g.seen = NoRow
      BY <1>0 DEF HandlerOk, Idle
    <3>2. NoRow.filters = <<>>
      BY DEF NoRow
    <3> QED BY <3>1, <3>2, EmptyRule DEF HandlerOk
  <2> HIDE DEF g
  <2>2. Become(s, g)
    BY DEF g
  <2> QED BY <1>1, <1>6, <2>1, <2>2 DEF OpenForm
<1>7. CASE Show(s) \/ Lapse(s) \/ SubmitDenied(s)
  BY <1>1, <1>7, IdleOk DEF Show, Lapse, SubmitDenied, Finish
<1>8. CASE SubmitInvalid(s)
  <2> DEFINE g == [Idle EXCEPT !.act = "back", !.at = "read"]
  <2>1. HandlerOk(g)
    BY EmptyRule DEF HandlerOk, Idle, NoRow
  <2> HIDE DEF g
  <2>2. Become(s, g) /\ UNCHANGED <<rules, draft>>
    BY <1>8 DEF SubmitInvalid, g
  <2> QED BY <1>1, <2>1, <2>2
<1>9. ASSUME NEW k \in Kinds, Submit(s, k) PROVE PanelInv' /\ row' = row
  <2> DEFINE g == [h EXCEPT !.at = "check", !.kind = k]
  <2>1. DOMAIN g = DOMAIN Idle /\ g.at = "check" /\ g.seen = h.seen
    BY <1>0 DEF HandlerOk, Idle
  <2> HIDE DEF g
  <2>2. Become(s, g) /\ UNCHANGED <<rules, draft>>
    BY <1>9 DEF Submit, g
  <2>3. HandlerOk(g)
    BY <1>0, <2>1 DEF HandlerOk
  <2> QED BY <1>1, <2>2, <2>3
<1>10. CASE RouteChecks(s)
  <2>1. CASE Answer(s, FALSE) /\ UNCHANGED fresh
    BY <1>3, <1>10, <2>1 DEF RouteChecks
  <2>2. CASE h.act = "add" /\ Mint(<<h.kind>>) /\ Become(s, [h EXCEPT !.at = "list", !.id = fresh'])
    <3> DEFINE g == [h EXCEPT !.at = "list", !.id = fresh']
    <3>1. fresh' \in Nat
      BY <1>0, <2>2 DEF Mint
    <3>2. HandlerOk(g)
      BY <1>0, <3>1 DEF HandlerOk, Idle
    <3> HIDE DEF g
    <3>3. Become(s, g)
      BY <2>2 DEF g
    <3>4. HandlersOk'
      BY <1>0, <3>2, <3>3, HandlerMoves
    <3> QED BY <1>2, <1>10, <3>1, <3>4 DEF RouteChecks
  <2>3. CASE h.act # "add" /\ UNCHANGED fresh /\ Become(s, [h EXCEPT !.at = "list", !.id = h.id])
    <3> DEFINE g == [h EXCEPT !.at = "list", !.id = h.id]
    <3>1. HandlerOk(g)
      BY <1>0, <2>3 DEF HandlerOk, Idle
    <3> HIDE DEF g
    <3>2. Become(s, g)
      BY <2>3 DEF g
    <3>3. HandlersOk'
      BY <1>0, <3>1, <3>2, HandlerMoves
    <3> QED BY <1>0, <1>2, <1>10, <2>3, <3>3 DEF RouteChecks
  <2>4. \/ Answer(s, FALSE) /\ UNCHANGED fresh
        \/ h.act = "add" /\ Mint(<<h.kind>>) /\ Become(s, [h EXCEPT !.at = "list", !.id = fresh'])
        \/ h.act # "add" /\ UNCHANGED fresh /\ Become(s, [h EXCEPT !.at = "list", !.id = h.id])
    BY <1>10, Zenon DEF RouteChecks
  <2> QED BY <2>1, <2>2, <2>3, <2>4
<1>11. CASE RouteReads(s)
  <2>0. UNCHANGED <<rules, draft>>
    BY <1>11 DEF RouteReads
  <2>1. CASE Answer(s, FALSE)
    BY <1>3, <2>0, <2>1 DEF rules
  <2>2. CASE Become(s, [h EXCEPT !.at = "store", !.seen = NeededBy(h)])
    <3> DEFINE r == NeededBy(h)
               g == [h EXCEPT !.at = "store", !.seen = r]
    <3>1. IsRule(r.filters)
      <4>1. r.filters \in {<<>>, row.filters}
        BY DEF NeededBy, NoRow
      <4> QED BY <1>0, <4>1, EmptyRule DEF RuleOk
    <3> HIDE DEF r
    <3>2. DOMAIN g = DOMAIN Idle /\ g.at = "store" /\ g.seen = r /\ g.act = h.act /\ g.id = h.id
      BY <1>0 DEF HandlerOk, Idle
    <3> HIDE DEF g
    <3>3. HandlerOk(g)
      BY <1>0, <1>11, <3>1, <3>2 DEF HandlerOk, RouteReads
    <3>4. Become(s, g)
      BY <2>2 DEF g, r
    <3> QED BY <1>1, <2>0, <3>3, <3>4
  <2> QED BY <1>11, <2>1, <2>2 DEF RouteReads
<1>12. CASE RouteFails(s)
  BY <1>3, <1>12 DEF RouteFails, rules
<1>13. CASE CallThrows(s)
  <2>0. UNCHANGED <<rules, draft>>
    BY <1>13 DEF CallThrows
  <2>1. CASE Finish(s)
    BY <1>1, <2>0, <2>1, IdleOk DEF Finish
  <2>2. CASE Become(s, [h EXCEPT !.lost = TRUE])
    <3> DEFINE g == [h EXCEPT !.lost = TRUE]
    <3>1. HandlerOk(g)
      BY <1>0 DEF HandlerOk, Idle
    <3> HIDE DEF g
    <3>2. Become(s, g)
      BY <2>2 DEF g
    <3> QED BY <1>1, <2>0, <3>1, <3>2
  <2> QED BY <1>13, <2>1, <2>2 DEF CallThrows
<1> QED BY <1>4, <1>5, <1>6, <1>7, <1>8, <1>9, <1>10, <1>11, <1>12, <1>13

(* The save beside the panel.                                                *)
LEMMA TabWrites ==
  ASSUME PanelInv, TabNext
  PROVE  PanelInv' /\ \A id \in IdsOf(row'.filters) \ IdsOf(row.filters) : DraftWritesBack(id)
<1>0. /\ UNCHANGED <<fresh, handler>> /\ RuleOk /\ HandlersOk /\ DraftOk(draft)
      /\ IsRule(draft.filters) /\ IsRule(draft.seen.filters)
  BY DEF TabNext, PanelInv, DraftOk
<1>1. HandlersOk' /\ DraftOk(NoDraft) /\ NoDraft.at = "none"
  BY <1>0, EmptyRule DEF HandlersOk, DraftOk, NoDraft, NoRow
<1>2. CASE TabStores
  <2> DEFINE d == [draft EXCEPT !.at = "undo"]
  <2>1. DraftOk(d) /\ d.at = "undo"
    BY <1>0 DEF DraftOk, NoDraft
  <2> HIDE DEF d
  <2>2. draft' \in {NoDraft, d} /\ draft.at = "store" /\ UpdateRow(draft.filters, draft.mode)
    BY <1>2 DEF TabStores, d
  <2>3. DraftOk(draft)' /\ draft' # draft
    BY <1>1, <2>1, <2>2
  <2>4. RuleOk' /\ IdsOf(row'.filters) \subseteq IdsOf(row.filters) \cup IdsOf(draft.filters)
    BY <1>0, <2>2, RowWritten
  <2> QED BY <1>0, <1>1, <2>2, <2>3, <2>4 DEF PanelInv, DraftWritesBack, DraftOk
<1>3. CASE TabUndone
  <2>1. /\ draft' = NoDraft /\ draft.at = "undo"
        /\ UpdateRow(draft.seen.filters, draft.seen.mode)
    BY <1>3 DEF TabUndone
  <2>2. RuleOk' /\ IdsOf(row'.filters) \subseteq IdsOf(row.filters) \cup IdsOf(draft.seen.filters)
    BY <1>0, <2>1, RowWritten
  <2>3. DraftOk(draft)' /\ draft' # draft
    BY <1>1, <2>1
  <2> QED BY <1>1, <2>1, <2>2, <2>3 DEF PanelInv, DraftWritesBack
<1>4. CASE TabFails
  BY <1>0, <1>1, <1>4, RowKept DEF TabFails, PanelInv
<1> QED BY <1>2, <1>3, <1>4 DEF TabNext

LEMMA PanelStepReturns ==
  ASSUME PanelInv, [PanelStep]_<<rules, panel>>
  PROVE  PanelInv' /\ [ReturnsWithItsReader]_panel
<1>0. RuleOk /\ HandlersOk /\ DraftOk(draft) /\ fresh \in Nat
  BY DEF PanelInv, RuleOk
<1>1. ASSUME PanelInv', row' = row PROVE PanelInv' /\ [ReturnsWithItsReader]_panel
  BY <1>1 DEF ReturnsWithItsReader
<1>2. ASSUME UNCHANGED <<rules, handler, draft>>
      PROVE  PanelInv' /\ [ReturnsWithItsReader]_panel
  <2>1. RuleOk' /\ HandlersOk' /\ DraftOk(draft)' /\ row' = row
    BY <1>0, <1>2, RowKept DEF rules, HandlersOk
  <2> QED BY <1>1, <2>1 DEF PanelInv
<1>3. ASSUME NEW s \in Slots, HandlerStep(s) PROVE PanelInv' /\ [ReturnsWithItsReader]_panel
  <2>1. CASE RouteStores(s) \/ RouteUndoes(s)
    BY <2>1, StoresItsReading, UndoesToItsReading DEF ReturnsWithItsReader
  <2>2. CASE ~(RouteStores(s) \/ RouteUndoes(s))
    <3>1. \/ \E b \in Buttons : Press(s, b)
          \/ Read(s) \/ Show(s) \/ OpenForm(s) \/ Lapse(s)
          \/ SubmitInvalid(s) \/ SubmitDenied(s) \/ (\E k \in Kinds : Submit(s, k))
          \/ RouteChecks(s) \/ RouteReads(s) \/ RouteFails(s) \/ CallThrows(s)
      BY <1>3, <2>2 DEF HandlerStep, CallStep
    <3> QED BY <1>1, <3>1, HandlersKeep
  <2> QED BY <2>1, <2>2
<1>4. CASE PanelNext
  <2>1. (\E s \in Slots : HandlerStep(s)) \/ UNCHANGED <<rules, handler, draft>>
    BY <1>4 DEF PanelNext, PickType, PressDenied, Dismiss, IdleOut
  <2> QED BY <1>2, <1>3, <2>1
<1>5. CASE TabNext
  BY <1>5, TabWrites DEF ReturnsWithItsReader
<1>6. CASE LoseManager
  BY <1>2, <1>6 DEF LoseManager
<1>7. ASSUME NEW m \in Modes, NEW k \in Kinds, TabSaves(m, <<k>>)
      PROVE  PanelInv' /\ [ReturnsWithItsReader]_panel
  <2> DEFINE d == [at |-> "store", seen |-> row, filters |-> NewRule(<<k>>), mode |-> m,
                   from |-> fresh]
  <2>1. fresh' \in Nat /\ UNCHANGED <<row, handler>> /\ draft' = d
    BY <1>0, <1>7 DEF TabSaves, Mint
  <2>2. DraftOk(d)
    <3>1. IsRule(NewRule(<<k>>)) /\ \A id \in IdsOf(NewRule(<<k>>)) : id > fresh
      BY <1>0, RuleOfOne
    <3>2. IsRule(row.filters)
      BY <1>0 DEF RuleOk
    <3> QED BY <3>1, <3>2 DEF DraftOk, NoDraft
  <2> HIDE DEF d
  <2>3. RuleOk' /\ HandlersOk' /\ DraftOk(draft)'
    BY <1>0, <2>1, <2>2 DEF RuleOk, RowShape, HandlersOk
  <2> QED BY <1>1, <2>1, <2>3 DEF PanelInv
<1>8. CASE RowMoves /\ UNCHANGED panel
  <2>1. RowShape' /\ fresh' = fresh
    BY <1>0, <1>8, RulesKeepShape
       DEF RuleOk, RulesNext, RowMoves, DisableChannel, EnableChannel, LosePremium, GainPremium
  <2>2. row'.filters \in {row.filters, <<>>}
    BY <1>0, <1>8 DEF RuleOk, RowShape, RowMoves, DisableChannel, EnableChannel, LosePremium,
                      GainPremium, NoRow, NewRow
  <2>3. RuleOk' /\ HandlersOk' /\ DraftOk(draft)'
    BY <1>0, <1>8, <2>1, <2>2, EmptyRule DEF RuleOk, panel, HandlersOk
  <2> QED BY <1>8, <2>3 DEF PanelInv
<1>9. CASE UNCHANGED <<rules, panel>>
  BY <1>2, <1>9 DEF panel
<1> QED BY <1>4, <1>5, <1>6, <1>7, <1>8, <1>9 DEF PanelStep

(* A condition that is gone comes back only with a call that read the rule    *)
(* while it was there (handlers/ap/filter, services/filter/operations.ts): no *)
(* button, form or handler that still names it brings it back, nor a save     *)
(* that was begun later, whatever fails and is put back, for any number of    *)
(* handlers and rules of any length.                                         *)
THEOREM NoConditionReturns == PanelSpec => GoneStaysGone
<1>1. RulesInit /\ PanelInit => PanelInv
  <2> SUFFICES ASSUME RulesInit, PanelInit PROVE PanelInv
    OBVIOUS
  <2> PICK fs \in {<<>>, <<[id |-> 1, kind |-> "word"]>>} : row = [NewRow EXCEPT !.filters = fs]
    BY DEF RulesInit
  <2>1. row = [state |-> "serving", filters |-> fs, mode |-> "all"]
    BY DEF NewRow, NoRow
  <2>2. IsRule(fs)
    <3> DEFINE x == [id |-> 1, kind |-> "word"]
               C == [id : Nat, kind : {"word"}]
    <3>1. x \in C
      OBVIOUS
    <3> HIDE DEF x, C
    <3>2. <<>> \in Seq(C) /\ <<x>> \in Seq(C)
      BY <3>1
    <3>3. fs = <<>> \/ fs = <<x>>
      BY DEF x
    <3> QED BY <3>2, <3>3 DEF IsRule, Rule, C
  <2>3. fresh \in Nat
    BY <2>1 DEF RulesInit
  <2>4. RuleOk
    BY <2>1, <2>2, <2>3 DEF RuleOk, RowShape
  <2>5. HandlersOk /\ DraftOk(draft)
    BY IdleOk, EmptyRule DEF PanelInit, HandlersOk, DraftOk, NoDraft, NoRow
  <2> QED BY <2>4, <2>5 DEF PanelInv
<1>2. PanelInv /\ [PanelStep]_<<rules, panel>> => PanelInv' /\ [ReturnsWithItsReader]_panel
  BY PanelStepReturns
<1> QED BY <1>1, <1>2, PTL DEF PanelSpec, GoneStaysGone

-----------------------------------------------------------------------------
(* The timers of the panel.                                                  *)
ClockSpec == ClockInit /\ [][ClockNext]_clock

TimersOk ==
  /\ age \in Nat /\ since \in Nat /\ left \in Nat
  /\ waits \subseteq [form : Nat, left : Nat \ {0}]

(* While the collector runs, its timer ends a whole idle window after the     *)
(* member's last action, or with the token's life, or later.                 *)
WindowKept == Alive => since + left >= IdleTime \/ age + left >= TokenTime

(* A form that was opened in the token's life; and without one, the timer     *)
(* ends within it.                                                           *)
OpenedInTime(w) == age + w.left < TokenTime + ModalTime
LifeKept == Alive => age + left <= TokenTime \/ \E w \in waits : OpenedInTime(w)

ClockInv == TimersOk /\ WindowKept /\ LifeKept
InTime ==
  (Alive /\ left' = 0) =>
     /\ since' >= IdleTime \/ age' >= TokenTime
     /\ age' < TokenTime + ModalTime

LEMMA ClockFacts ==
  /\ IdleTime \in Nat /\ ModalTime \in Nat /\ TokenTime \in Nat
  /\ 0 < ModalTime /\ ModalTime < IdleTime /\ IdleTime < TokenTime
BY ClockAssumption

(* What a handler that ends leaves the timer at.                             *)
LEMMA HandlerLeaves ==
  ASSUME NEW a \in Nat
  PROVE  LET l == IdleAfterHandler(a) IN
         /\ l \in Nat
         /\ l > 0 => a + l <= TokenTime
         /\ l = 0 => a >= TokenTime
         /\ \A s \in Nat : s + l >= IdleTime \/ a + l >= TokenTime
BY ClockFacts DEF IdleAfterHandler, ResponderTimeLeft, Least

LEMMA ClockStep ==
  ASSUME ClockInv, [ClockNext]_clock
  PROVE  ClockInv' /\ InTime
<1> DEFINE Goal == ClockInv' /\ InTime
<1>0. TimersOk /\ WindowKept /\ LifeKept
  BY DEF ClockInv
<1>1. Alive => age < TokenTime + ModalTime
  BY <1>0, ClockFacts DEF TimersOk, LifeKept, Alive, OpenedInTime
(* The panel is rendered, or a silent press ends.                            *)
<1>2. ASSUME age' = 0, since' = 0, left' = IdleTime \/ (left' = 0 /\ ~Alive), waits' \subseteq waits
      PROVE  Goal
  <2>1. TimersOk'
    BY <1>0, <1>2, ClockFacts DEF TimersOk
  <2> QED BY <1>2, <2>1, ClockFacts DEF ClockInv, WindowKept, LifeKept, InTime, Alive
<1>3. CASE PressThatRenders
  BY <1>2, <1>3 DEF PressThatRenders, ShowView
<1>4. CASE SubmitForm
  BY <1>2, <1>4 DEF SubmitForm
<1>5. CASE SilentPress
  <2>1. /\ Alive /\ age' = age /\ since' = 0 /\ waits' = waits
        /\ left' = IdleAfterHandler(age) /\ age \in Nat
    BY <1>0, <1>5 DEF SilentPress, TimersOk
  <2>2. /\ left' \in Nat
        /\ left' > 0 => age' + left' <= TokenTime
        /\ left' = 0 => age' >= TokenTime
        /\ since' + left' >= IdleTime \/ age' + left' >= TokenTime
    BY <2>1, HandlerLeaves
  <2>3. TimersOk'
    BY <1>0, <2>1, <2>2 DEF TimersOk
  <2>4. WindowKept' /\ LifeKept'
    BY <2>1, <2>2, ClockFacts DEF WindowKept, LifeKept, Alive
  <2>5. InTime
    BY <1>1, <2>1, <2>2, ClockFacts DEF InTime
  <2> QED BY <2>3, <2>4, <2>5 DEF ClockInv
<1>6. CASE DismissForm \/ UNCHANGED clock
  <2>1. UNCHANGED <<age, since, left, waits>>
    BY <1>6 DEF DismissForm, clock
  <2> QED BY <1>0, <2>1
          DEF ClockInv, TimersOk, WindowKept, LifeKept, InTime, Alive, OpenedInTime
<1>7. ASSUME NEW f \in 1..MaxForms, PressForForm(f) PROVE Goal
  <2> DEFINE w == [form |-> f, left |-> ModalTime]
  <2>1. /\ Alive /\ waits' = waits \cup {w} /\ left' = IdleTime /\ since' = 0 /\ age' = age
    BY <1>7 DEF PressForForm
  <2>2. w \in [form : Nat, left : Nat \ {0}] /\ w.left = ModalTime
    BY ClockFacts
  <2> HIDE DEF w
  <2>3. TimersOk'
    BY <1>0, <2>1, <2>2, ClockFacts DEF TimersOk
  <2>4. \E v \in waits' : OpenedInTime(v)'
    <3>1. CASE age + left <= TokenTime
      BY <1>0, <2>1, <2>2, <3>1, ClockFacts DEF TimersOk, Alive, OpenedInTime
    <3>2. CASE \E v \in waits : OpenedInTime(v)
      BY <2>1, <3>2 DEF OpenedInTime
    <3> QED BY <1>0, <2>1, <3>1, <3>2 DEF LifeKept
  <2> QED BY <1>0, <2>1, <2>3, <2>4, ClockFacts
          DEF ClockInv, TimersOk, WindowKept, LifeKept, InTime, Alive
<1>8. CASE Tick
  <2>1. /\ Alive /\ age' = age + 1 /\ since' = since + 1
        /\ waits' = {[w EXCEPT !.left = @ - 1] : w \in {w \in waits : w.left > 1}}
        /\ left' = IF left > 1 /\ \E w \in waits : w.left = 1
                   THEN IdleAfterHandler(age') ELSE left - 1
    BY <1>8 DEF Tick
  <2>2. /\ age \in Nat /\ since \in Nat /\ left \in Nat /\ left > 0
        /\ age' \in Nat /\ since' \in Nat
    BY <1>0, <2>1 DEF TimersOk, Alive
  <2>3. waits' \subseteq [form : Nat, left : Nat \ {0}]
    <3> SUFFICES ASSUME NEW w \in waits, w.left > 1
                 PROVE  [w EXCEPT !.left = @ - 1] \in [form : Nat, left : Nat \ {0}]
      BY <2>1
    <3>1. w \in [form : Nat, left : Nat \ {0}]
      BY <1>0 DEF TimersOk
    <3> QED BY <3>1
  <2>4. CASE left > 1 /\ \E w \in waits : w.left = 1
    <3>1. left' = IdleAfterHandler(age')
      BY <2>1, <2>4
    <3>2. /\ left' \in Nat
          /\ left' > 0 => age' + left' <= TokenTime
          /\ left' = 0 => age' >= TokenTime
          /\ since' + left' >= IdleTime \/ age' + left' >= TokenTime
      BY <2>2, <3>1, HandlerLeaves
    <3>3. age' < TokenTime + ModalTime
      <4>1. CASE age + left <= TokenTime
        BY <2>1, <2>2, <2>4, <4>1, ClockFacts
      <4>2. ASSUME NEW w \in waits, OpenedInTime(w) PROVE age' < TokenTime + ModalTime
        <5>1. w.left \in Nat /\ w.left > 0
          BY <1>0 DEF TimersOk
        <5> QED BY <2>1, <2>2, <4>2, <5>1, ClockFacts DEF OpenedInTime
      <4> QED BY <1>0, <2>1, <4>1, <4>2 DEF LifeKept
    <3>4. TimersOk'
      BY <2>2, <2>3, <3>2 DEF TimersOk
    <3>5. WindowKept' /\ LifeKept'
      BY <2>2, <3>2, ClockFacts DEF WindowKept, LifeKept, Alive
    <3>6. InTime
      BY <2>2, <3>2, <3>3, ClockFacts DEF InTime
    <3> QED BY <3>4, <3>5, <3>6 DEF ClockInv
  <2>5. CASE ~(left > 1 /\ \E w \in waits : w.left = 1)
    <3>1. left' = left - 1 /\ left' \in Nat
      BY <2>1, <2>2, <2>5
    <3>2. since' + left' >= IdleTime \/ age' + left' >= TokenTime
      BY <1>0, <2>1, <2>2, <3>1, ClockFacts DEF WindowKept
    <3>3. age' + left' <= TokenTime
            \/ \E w \in waits : OpenedInTime(w) /\ w.left \in Nat /\ w.left > 0
      BY <1>0, <2>1, <2>2, <3>1, ClockFacts DEF LifeKept, TimersOk
    <3>4. age' < TokenTime + ModalTime
      BY <2>1, <2>2, <3>1, <3>3, ClockFacts DEF OpenedInTime
    <3>5. left' > 0 => age' + left' <= TokenTime \/ \E v \in waits' : OpenedInTime(v)'
      <4> SUFFICES ASSUME left' > 0, NEW w \in waits, OpenedInTime(w), w.left \in Nat, w.left > 0
                   PROVE  \E v \in waits' : OpenedInTime(v)'
        BY <3>3
      <4> DEFINE v == [w EXCEPT !.left = @ - 1]
      <4>1. left > 1 /\ w.left > 1
        BY <2>2, <2>5, <3>1
      <4>2. v \in waits'
        BY <2>1, <4>1
      <4>3. v.left = w.left - 1
        <5>1. w \in [form : Nat, left : Nat \ {0}]
          BY <1>0 DEF TimersOk
        <5> QED BY <5>1
      <4>4. age' + v.left < TokenTime + ModalTime
        BY <2>1, <2>2, <4>3, ClockFacts DEF OpenedInTime
      <4> QED BY <4>2, <4>4 DEF OpenedInTime
    <3> QED BY <2>1, <2>2, <2>3, <3>1, <3>2, <3>4, <3>5, ClockFacts
            DEF ClockInv, TimersOk, WindowKept, LifeKept, InTime, Alive
  <2> QED BY <2>4, <2>5
<1> QED BY <1>3, <1>4, <1>5, <1>6, <1>7, <1>8 DEF ClockNext

(* A panel closes in time (panel.ts:140): whatever forms lapsed and presses   *)
(* came before, when its timer runs out the member's last action is a whole   *)
(* idle window ago or the token's life is over; and forms keep it beyond that *)
(* life for less than one form's wait in all, for any timers in that order.   *)
THEOREM PanelClosesInTime == ClockSpec => ClosesInTime
<1>1. ClockInit => ClockInv
  BY ClockFacts DEF ClockInit, ClockInv, TimersOk, WindowKept, LifeKept, Alive
<1>2. ClockInv /\ [ClockNext]_clock => ClockInv' /\ InTime
  BY ClockStep
<1>3. InTime <=> ((Alive /\ left' = 0) =>
                    /\ since' >= IdleTime \/ age' >= TokenTime
                    /\ age' < TokenTime + ModalTime)
  BY DEF InTime
<1> QED BY <1>1, <1>2, <1>3, PTL DEF ClockSpec, ClosesInTime

-----------------------------------------------------------------------------
(* The editor, and whatever others do to the row.                            *)
EditorSpec == RulesInit /\ EditorInit /\ [][EditorNext \/ Others]_<<rules, editor>>

(* A save is a record of its five fields.                                    *)
SaveOf(at, f, seen, was, answer) ==
  [at |-> at, form |-> f, seen |-> seen, was |-> was, answer |-> answer]
SaveShape == save = SaveOf(save.at, save.form, save.seen, save.was, save.answer)

(* The baseline is the row's rule, unless others changed the row or a save's  *)
(* write or its good answer, which will bring the new one, lies between.  So  *)
(* is what a save under way would put back.                                  *)
BaselineTrue ==
  /\ Saving => mounted
  /\ save.at \in {"sent", "store", "undo"} => save.answer = "none"
  /\ mounted /\ ~touched
       /\ (save.at \in {"none", "sent", "store"} \/ save.answer \in {"refused", "expired"})
       => base = Loaded
  /\ save.at \in {"store", "undo"} /\ ~touched => Exists
  /\ save.at \in {"store", "undo"} /\ ~save.was
       => base = [mode |-> save.seen.mode, conds |-> KindsOf(save.seen.filters)]
  /\ save.at = "answered" /\ save.answer = "ok" /\ ~touched => Loaded = NewBaseline
EditorInv == RowShape /\ SaveShape /\ BaselineTrue

(* A stored rule reads back as it was sent, and one put back as it was read.  *)
LEMMA StoredReadsBack ==
  ASSUME RowShape, Exists, NEW m, NEW cs, UpdateRow(NewRule(Savable(cs)), m)
  PROVE  Loaded' = [mode |-> m, conds |-> Savable(cs)]
<1> DEFINE ks == Savable(cs)
           fs == NewRule(ks)
<1>1. ks = [i \in DOMAIN ks |-> ks[i]]
  BY DEF Savable, Populated, TheRest, Pick
<1>2. row'.mode = m /\ row'.filters = fs
  BY WrittenRule
<1> HIDE DEF ks
<1>3. KindsOf(fs) = ks
  BY <1>1 DEF KindsOf, NewRule
<1> HIDE DEF fs
<1>4. Loaded' = [mode |-> row'.mode, conds |-> KindsOf(row'.filters)]
  BY DEF Loaded, KindsOf
<1> QED BY <1>2, <1>3, <1>4 DEF ks

LEMMA PutBackReadsBack ==
  ASSUME RowShape, Exists, NEW m, NEW fs, UpdateRow(fs, m)
  PROVE  Loaded' = [mode |-> m, conds |-> KindsOf(fs)]
<1>1. row'.mode = m /\ row'.filters = fs
  BY WrittenRule
<1>2. Loaded' = [mode |-> row'.mode, conds |-> KindsOf(row'.filters)]
  BY DEF Loaded, KindsOf
<1> QED BY <1>1, <1>2

(* The answer of a save is about its form, if it is a good one.              *)
LEMMA AnswerSaid ==
  ASSUME NEW A, SaveAnswered(A)
  PROVE  /\ SaveShape' /\ save'.at = "answered" /\ Saving'
         /\ save'.answer \in A \cup {"lost"}
         /\ save'.answer = "ok" => save'.form = save.form
<1> PICK a \in A \cup {"lost"} :
      save' = [NoSave EXCEPT !.at = "answered", !.answer = a,
                 !.form = IF a = "ok" THEN save.form ELSE @]
  BY DEF SaveAnswered
<1> DEFINE f == IF a = "ok" THEN save.form ELSE Blank
           s == SaveOf("answered", f, NoRow, FALSE, a)
<1>1. save' \in [at : {"answered"}, form : {f}, seen : {NoRow}, was : {FALSE}, answer : {a}]
  BY DEF NoSave
<1>2. save' = s
  BY <1>1 DEF SaveOf
<1>3. s.at = "answered" /\ s.answer = a /\ s.form = f /\ s = SaveOf(s.at, s.form, s.seen, s.was, s.answer)
  BY DEF SaveOf
<1> HIDE DEF s
<1>4. s # NoSave
  <2>1. NoSave.at = "none"
    BY DEF NoSave
  <2> QED BY <1>3, <2>1
<1> QED BY <1>2, <1>3, <1>4 DEF SaveShape, Saving

LEMMA EditorStep ==
  ASSUME EditorInv, [EditorNext \/ Others]_<<rules, editor>>
  PROVE  EditorInv'
<1>0. RowShape /\ SaveShape /\ BaselineTrue
  BY DEF EditorInv
<1>1. /\ NoSave.at = "none" /\ NoSave.answer = "none"
      /\ NoSave = SaveOf(NoSave.at, NoSave.form, NoSave.seen, NoSave.was, NoSave.answer)
  BY DEF NoSave, SaveOf
<1>2. UNCHANGED row => Loaded' = Loaded /\ RowShape' /\ Exists' = Exists
  BY <1>0 DEF Loaded, KindsOf, RowShape, Exists
<1>3. save' = NoSave => SaveShape' /\ ~Saving'
  BY <1>1 DEF SaveShape, Saving
(* What is on screen is not part of it.                                      *)
<1>4. ASSUME UNCHANGED <<row, mounted, base, save, touched>> PROVE EditorInv'
  <2>1. SaveShape' /\ Saving' = Saving /\ NewBaseline' = NewBaseline
    BY <1>0, <1>4 DEF SaveShape, Saving, NewBaseline
  <2> QED BY <1>0, <1>2, <1>4, <2>1 DEF EditorInv, BaselineTrue
(* A save ends, or there is none: the baseline is the rule, or nothing.      *)
<1>5. ASSUME save' = NoSave, RowShape', mounted' /\ ~touched' => base' = Loaded'
      PROVE  EditorInv'
  BY <1>1, <1>3, <1>5 DEF EditorInv, BaselineTrue
<1>6. CASE Mount
  BY <1>0, <1>2, <1>5, <1>6 DEF Mount, rules, BaselineTrue, Saving
<1>7. CASE Unmount \/ SaveExpired
  BY <1>2, <1>5, <1>7 DEF Unmount, SaveExpired, Leave, rules
<1>8. CASE SaveRefused
  BY <1>0, <1>2, <1>5, <1>8 DEF SaveRefused, rules, BaselineTrue
<1>9. CASE SaveOk
  BY <1>0, <1>2, <1>5, <1>9 DEF SaveOk, rules, BaselineTrue
<1>10. CASE Save
  <2> DEFINE s == SaveOf("sent", screen, NoRow, FALSE, "none")
  <2>1. save' \in [at : {"sent"}, form : {screen}, seen : {NoRow}, was : {FALSE}, answer : {"none"}]
    BY <1>10 DEF Save, NoSave
  <2>2. save' = s
    BY <2>1 DEF SaveOf
  <2>3. s.at = "sent" /\ s.answer = "none" /\ s = SaveOf(s.at, s.form, s.seen, s.was, s.answer)
    BY DEF SaveOf
  <2> HIDE DEF s
  <2>4. mounted /\ save.at = "none" /\ UNCHANGED <<row, mounted, base, touched>>
    BY <1>1, <1>10 DEF Save, Saving, rules
  <2> QED BY <1>0, <1>2, <2>2, <2>3, <2>4 DEF EditorInv, BaselineTrue, SaveShape
<1>11. CASE SaveThrows
  <2> DEFINE s == SaveOf("stuck", NoSave.form, NoSave.seen, NoSave.was, "none")
  <2>1. save' \in [at : {"stuck"}, form : {NoSave.form}, seen : {NoSave.seen},
                   was : {NoSave.was}, answer : {"none"}]
    BY <1>11 DEF SaveThrows, NoSave
  <2>2. save' = s
    BY <2>1 DEF SaveOf
  <2>3. s.at = "stuck" /\ s.answer = "none" /\ s = SaveOf(s.at, s.form, s.seen, s.was, s.answer)
    BY DEF SaveOf
  <2> HIDE DEF s
  <2>4. mounted /\ UNCHANGED <<row, mounted, base, touched>>
    BY <1>0, <1>1, <1>11 DEF SaveThrows, BaselineTrue, Saving, rules
  <2> QED BY <1>0, <1>2, <2>2, <2>3, <2>4 DEF EditorInv, BaselineTrue, SaveShape
(* The route of a save.                                                      *)
<1>12. ASSUME save.at \in {"sent", "store", "undo"}
       PROVE  mounted
  BY <1>0, <1>1, <1>12 DEF BaselineTrue, Saving
<1>13. ASSUME NEW A, SaveAnswered(A), mounted', RowShape',
              "ok" \in A /\ ~touched' => Loaded' = [mode |-> save.form.mode,
                                                       conds |-> Savable(save.form.conds)],
              A \cap {"refused", "expired"} # {} /\ ~touched' => base' = Loaded'
       PROVE  EditorInv'
  <2>1. /\ SaveShape' /\ save'.at = "answered" /\ save'.answer \in A \cup {"lost"}
        /\ save'.answer = "ok" => save'.form = save.form
    BY <1>13, AnswerSaid
  <2>2. save'.answer = "ok" => NewBaseline' = [mode |-> save.form.mode,
                                               conds |-> Savable(save.form.conds)]
    BY <2>1 DEF NewBaseline
  <2> QED BY <1>13, <2>1, <2>2 DEF EditorInv, BaselineTrue
<1>14. CASE PutReads
  <2>1. save.at = "sent" /\ mounted /\ UNCHANGED <<row, mounted, base, touched>>
    BY <1>12, <1>14 DEF PutReads, rules
  <2>2. ~touched => base = Loaded
    BY <1>0, <2>1 DEF BaselineTrue
  <2>3. CASE SaveAnswered({"refused", "expired"})
    BY <1>2, <1>13, <2>1, <2>2, <2>3
  <2>4. CASE /\ MaySetFilters(Savable(save.form.conds))
             /\ save' = [save EXCEPT !.at = "store", !.seen = row, !.was = touched]
    <3> DEFINE s == SaveOf("store", save.form, row, touched, save.answer)
    <3>1. save' \in [at : {"store"}, form : {save.form}, seen : {row}, was : {touched},
                     answer : {save.answer}]
      BY <1>0, <2>4 DEF SaveShape, SaveOf
    <3>2. save' = s
      BY <3>1 DEF SaveOf
    <3>3. /\ s.at = "store" /\ s.seen = row /\ s.was = touched /\ s.answer = save.answer
          /\ s = SaveOf(s.at, s.form, s.seen, s.was, s.answer)
      BY DEF SaveOf
    <3> HIDE DEF s
    <3>4. Exists /\ Loaded = [mode |-> row.mode, conds |-> KindsOf(row.filters)]
      BY <2>4 DEF MaySetFilters, Exists, Loaded
    <3>5. BaselineTrue'
      <4>1. /\ save'.at = "store" /\ save'.seen = row /\ save'.was = touched
            /\ save'.answer = save.answer
        BY <3>2, <3>3
      <4> QED BY <1>0, <1>2, <2>1, <2>2, <3>4, <4>1 DEF BaselineTrue, KindsOf
    <3>6. SaveShape'
      BY <3>2, <3>3 DEF SaveShape
    <3> QED BY <1>2, <2>1, <3>5, <3>6 DEF EditorInv
  <2> QED BY <1>14, <2>3, <2>4 DEF PutReads
<1>15. CASE PutStores
  <2> DEFINE f == save.form
             stored == [mode |-> f.mode, conds |-> Savable(f.conds)]
  <2>1. save.at = "store" /\ mounted /\ UNCHANGED <<mounted, base>>
    BY <1>12, <1>15 DEF PutStores
  <2>2. /\ ~touched => base = Loaded /\ Exists
        /\ ~save.was => base = [mode |-> save.seen.mode, conds |-> KindsOf(save.seen.filters)]
    BY <1>0, <2>1 DEF BaselineTrue
  <2>3. CASE SaveAnswered({"refused"}) /\ UNCHANGED <<row, fresh, touched>>
    BY <1>2, <1>13, <2>1, <2>2, <2>3
  <2>4. ASSUME UpdateRow(NewRule(Savable(f.conds)), f.mode), touched' = (touched /\ ~Exists),
               \/ SaveAnswered({"ok"})
               \/ save' = [save EXCEPT !.at = "undo", !.form = Blank]
        PROVE  EditorInv'
    <3>1. RowShape'
      BY <1>0, <2>4, RulesKeepShape
    <3>2. ~touched' => Exists /\ Loaded' = stored
      BY <1>0, <2>2, <2>4, StoredReadsBack
    <3>3. Exists => Exists'
      BY <1>0, <2>4, WrittenRule DEF Exists
    <3> HIDE DEF stored
    <3>4. CASE SaveAnswered({"ok"})
      BY <1>13, <2>1, <3>1, <3>2, <3>4 DEF stored
    <3>5. CASE save' = [save EXCEPT !.at = "undo", !.form = Blank]
      <4> DEFINE s == SaveOf("undo", Blank, save.seen, save.was, save.answer)
      <4>1. save' \in [at : {"undo"}, form : {Blank}, seen : {save.seen}, was : {save.was},
                       answer : {save.answer}]
        BY <1>0, <3>5 DEF SaveShape, SaveOf
      <4>2. save' = s
        BY <4>1 DEF SaveOf
      <4>3. /\ s.at = "undo" /\ s.seen = save.seen /\ s.was = save.was /\ s.answer = save.answer
            /\ s = SaveOf(s.at, s.form, s.seen, s.was, s.answer)
        BY DEF SaveOf
      <4> HIDE DEF s
      <4>4. SaveShape' /\ save'.at = "undo" /\ save'.seen = save.seen /\ save'.was = save.was
            /\ save'.answer = save.answer
        BY <4>2, <4>3 DEF SaveShape
      <4>5. save.answer = "none"
        BY <1>0, <2>1 DEF BaselineTrue
      <4> QED BY <2>1, <2>2, <3>1, <3>2, <3>3, <4>4, <4>5 DEF EditorInv, BaselineTrue, KindsOf
    <3> QED BY <2>4, <3>4, <3>5
  <2> QED BY <1>15, <2>3, <2>4 DEF PutStores
<1>16. CASE PutUndone
  <2>1. /\ save.at = "undo" /\ mounted /\ UNCHANGED <<mounted, base>> /\ SaveAnswered({"refused"})
    BY <1>12, <1>16 DEF PutUndone
  <2>2. CASE touched' /\ UNCHANGED row
    BY <1>2, <1>13, <2>1, <2>2
  <2>3. CASE /\ UpdateRow(save.seen.filters, save.seen.mode)
             /\ touched' = IF Exists THEN save.was ELSE touched
    <3>1. RowShape'
      BY <1>0, <2>3, RulesKeepShape
    <3>2. ~touched' => Exists /\ ~save.was
      BY <1>0, <2>1, <2>3 DEF BaselineTrue
    <3>3. ~touched' => base = Loaded'
      BY <1>0, <2>1, <2>3, <3>2, PutBackReadsBack DEF BaselineTrue
    <3> QED BY <1>13, <2>1, <3>1, <3>3
  <2> QED BY <1>16, <2>2, <2>3 DEF PutUndone
<1>17. CASE Others
  <2>1. /\ RulesNext /\ touched' = TRUE
        /\ UNCHANGED <<mounted, base, save>>
    BY <1>17 DEF Others
  <2>2. RowShape'
    BY <1>0, <2>1, RulesKeepShape
  <2>3. SaveShape' /\ Saving' = Saving
    BY <1>0, <2>1 DEF SaveShape, Saving
  <2> QED BY <1>0, <2>1, <2>2, <2>3 DEF EditorInv, BaselineTrue, KindsOf
<1>18. CASE UNCHANGED <<rules, editor>>
  BY <1>4, <1>18 DEF rules, editor
<1>19. ASSUME AddCondition \/ Revert \/ (\E m \in Modes : ChooseMode(m))
              \/ (\E i \in DOMAIN screen.conds : RemoveRow(i) \/ \E k \in ScreenKinds : ChangeRow(i, k))
       PROVE  EditorInv'
  BY <1>4, <1>19 DEF AddCondition, Revert, ChooseMode, RemoveRow, ChangeRow, Edit, rules
<1> QED BY <1>6, <1>7, <1>8, <1>9, <1>10, <1>11, <1>14, <1>15, <1>16, <1>17, <1>18, <1>19
        DEF EditorNext

(* "All changes saved" is true (filter-config.tsx): whatever is edited while  *)
(* a save is in flight, whatever its route stores and puts back, and whatever *)
(* becomes of its answer, for a form of any length.                          *)
THEOREM SavedMeansSaved == EditorSpec => []AllSavedIsTrue
<1>1. RulesInit /\ EditorInit => EditorInv
  <2> SUFFICES ASSUME RulesInit, EditorInit PROVE EditorInv
    OBVIOUS
  <2>1. RowShape
    BY DEF RulesInit, RowShape, NewRow, NoRow
  <2>2. save = NoSave /\ SaveShape /\ save.at = "none" /\ save.answer = "none"
    BY DEF EditorInit, SaveShape, NoSave, SaveOf
  <2> QED BY <2>1, <2>2 DEF EditorInit, EditorInv, BaselineTrue, Saving
<1>2. EditorInv => AllSavedIsTrue
  <2>1. NoSave.at = "none"
    BY DEF NoSave
  <2> QED BY <2>1 DEF EditorInv, BaselineTrue, AllSavedIsTrue, Dirty, Loaded, Saving
<1>3. EditorInv /\ [EditorNext \/ Others]_<<rules, editor>> => EditorInv'
  BY EditorStep
<1> QED BY <1>1, <1>2, <1>3, PTL DEF EditorSpec

-----------------------------------------------------------------------------
(* The switch of one channel and its commands, while the rule, the plan, the  *)
(* room under the cap and the channel's type change.                         *)
SwitchSpec ==
  /\ RulesInit /\ SwitchInit
  /\ [][SwitchNext \/ Surroundings \/ (RulesNext /\ UNCHANGED switch)]_<<rules, switch>>

(* No row, no rule.                                                          *)
NoneIsEmpty == row.state = "none" => row.filters = <<>>

(* A call that nobody was asked about enables without consent to clear, or    *)
(* disables a channel whose surface had read no condition.                   *)
CallOk(k) == /\ k = [op |-> k.op, at |-> k.at, clear |-> k.clear, asked |-> k.asked,
                     saw |-> k.saw, answer |-> k.answer]
             /\ k.at = "sent" /\ ~k.asked => IF k.op = "enable" THEN ~k.clear ELSE k.saw = {}
CallsOk   == /\ call = [c \in Calls |-> call[c]]
             /\ \A c \in Calls : CallOk(call[c])
CommandOk == /\ command = [at |-> command.at, clear |-> command.clear, asked |-> command.asked,
                           saw |-> command.saw]
             /\ command.at = "retry" => command.asked
             /\ command.at = "delete" /\ ~command.asked => command.saw = {}
SwitchInv == RowShape /\ NoneIsEmpty /\ CallsOk /\ CommandOk

(* Without consent, enabling loses nothing.                                  *)
LEMMA EnableKeepsRule ==
  ASSUME RowShape, NoneIsEmpty, NEW clear, row' = AddChannel(clear).row
  PROVE  RowShape' /\ NoneIsEmpty' /\ (~clear => Deleted = {})
<1> PICK a, b, c : row = [state |-> a, filters |-> b, mode |-> c]
  BY DEF RowShape
<1>1. NewRow = [state |-> "serving", filters |-> <<>>, mode |-> "all"]
  BY DEF NewRow, NoRow
<1> DEFINE on == [row EXCEPT !.state = "serving"]
           drop == [row EXCEPT !.state = "serving", !.filters = <<>>]
<1>2. on = [state |-> "serving", filters |-> b, mode |-> c]
  OBVIOUS
<1>3. drop = [state |-> "serving", filters |-> <<>>, mode |-> c]
  <2>1. drop \in [state : {"serving"}, filters : {<<>>}, mode : {c}]
    OBVIOUS
  <2> HIDE DEF drop
  <2> QED BY <2>1
<1>4. [row EXCEPT !.state = "serving", !.filters = row.filters] = on
  <2> DEFINE r == [row EXCEPT !.state = "serving", !.filters = row.filters]
  <2>1. r \in [state : {"serving"}, filters : {b}, mode : {c}]
    OBVIOUS
  <2> HIDE DEF r
  <2>2. r = [state |-> "serving", filters |-> b, mode |-> c]
    BY <2>1
  <2> HIDE DEF on
  <2>3. r = on
    BY <1>2, <2>2
  <2> QED BY <2>3 DEF r
<1>5. AddChannel(clear).row \in {row, NewRow, on, drop}
  BY <1>4 DEF AddChannel, Result
(* What a free guild's enabling without consent comes to.                    *)
<1>6. \/ row' = row
      \/ row' = NewRow /\ row.state = "none"
      \/ row' = on
      \/ row' = drop /\ clear
  BY <1>4 DEF AddChannel, Result, Exists
<1> HIDE DEF on, drop
<1>7. RowShape' /\ NoneIsEmpty'
  BY <1>1, <1>2, <1>3, <1>6 DEF RowShape, NoneIsEmpty
<1>8. ASSUME ~clear PROVE row'.filters = row.filters
  BY <1>1, <1>2, <1>6, <1>8 DEF NoneIsEmpty
<1> QED BY <1>7, <1>8 DEF Deleted

(* The others leave no row without its rule being empty.                     *)
LEMMA OthersKeepNone ==
  ASSUME RowShape, NoneIsEmpty, RulesNext
  PROVE  NoneIsEmpty'
<1> USE DEF NoneIsEmpty
<1> PICK a, b, c : row = [state |-> a, filters |-> b, mode |-> c]
  BY DEF RowShape
<1>1. \A st : [row EXCEPT !.state = st] = [state |-> st, filters |-> b, mode |-> c]
  OBVIOUS
<1>2. CASE WriteElsewhere
  BY <1>2, WrittenRule DEF WriteElsewhere, Exists
<1>3. CASE DisableChannel
  BY <1>3 DEF DisableChannel, NoRow
<1>4. CASE EnableChannel
  BY <1>1, <1>4 DEF EnableChannel, NewRow, NoRow
<1>5. CASE LosePremium
  BY <1>1, <1>5 DEF LosePremium
<1>6. CASE GainPremium
  BY <1>1, <1>6 DEF GainPremium
<1> QED BY <1>2, <1>3, <1>4, <1>5, <1>6 DEF RulesNext, RowMoves

(* What each step of a command does to it and to the row.                    *)
LEMMA CommandMoves ==
  ASSUME SwitchInv, CommandStep
  PROVE  /\ RowShape' /\ NoneIsEmpty' /\ CommandOk'
         /\ ~command.asked => Deleted \cap (IF command.at = "enable" THEN Deleted ELSE command.saw) = {}
<1> DEFINE Kept == ~command.asked =>
             Deleted \cap (IF command.at = "enable" THEN Deleted ELSE command.saw) = {}
           Cmd(a, b, s, t) == [at |-> a, clear |-> b, asked |-> s, saw |-> t]
<1> SUFFICES RowShape' /\ NoneIsEmpty' /\ CommandOk' /\ Kept
  OBVIOUS
<1>0. IdsOf(<<>>) = {}
  BY DEF IdsOf
<1>1. NoCommand = Cmd("idle", FALSE, FALSE, {})
  BY DEF NoCommand
<1>2. UNCHANGED row => (RowShape' /\ NoneIsEmpty' /\ Kept)
  BY DEF RowShape, NoneIsEmpty, SwitchInv, Deleted
<1>3. ASSUME NEW a, NEW b, NEW s, NEW t, command' = Cmd(a, b, s, t),
             a = "retry" => s, a = "delete" /\ ~s => t = {}
      PROVE  CommandOk'
  BY <1>3 DEF CommandOk
<1>4. \A h : Commanding(h) => command' = h
  BY DEF Commanding
<1>5. command = Cmd(command.at, command.clear, command.asked, command.saw)
  BY DEF SwitchInv, CommandOk
<1> HIDE DEF Kept
<1>6. command' = NoCommand => CommandOk'
  BY <1>1, <1>3
<1>7. CASE RunEnable \/ RunDisable
  <2>1. ASSUME NEW x PROVE [NoCommand EXCEPT !.at = x] = Cmd(x, FALSE, FALSE, {})
    <3> DEFINE h == [NoCommand EXCEPT !.at = x]
    <3>1. h \in [at : {x}, clear : {FALSE}, asked : {FALSE}, saw : {{}}]
      BY DEF NoCommand
    <3> HIDE DEF h
    <3>2. h = Cmd(x, FALSE, FALSE, {})
      BY <3>1
    <3> QED BY <3>2 DEF h
  <2>2. \E x \in {"enable", "status"} : command' = Cmd(x, FALSE, FALSE, {})
    BY <1>7, <2>1 DEF RunEnable, RunDisable, Commanding
  <2>3. CommandOk' /\ UNCHANGED row
    BY <1>3, <1>7, <2>2 DEF RunEnable, RunDisable, rules
  <2> QED BY <1>2, <2>3 DEF Kept
<1>8. CASE EnableAnswers
  <2>1. row' = AddChannel(FALSE).row /\ command.at = "enable"
    BY <1>8 DEF EnableAnswers
  <2>2. RowShape' /\ NoneIsEmpty' /\ Deleted = {}
    BY <2>1, EnableKeepsRule DEF SwitchInv
  <2> DEFINE offer == [NoCommand EXCEPT !.at = "choice", !.saw = IdsOf(row.filters)]
  <2>3. offer.at = "choice" /\ offer = Cmd(offer.at, offer.clear, offer.asked, offer.saw)
    <3>1. offer \in [at : {"choice"}, clear : {FALSE}, asked : {FALSE}, saw : {IdsOf(row.filters)}]
      BY DEF NoCommand
    <3> HIDE DEF offer
    <3> QED BY <3>1
  <2>4. command' = NoCommand \/ command' = offer
    BY <1>8 DEF EnableAnswers, Commanding
  <2> HIDE DEF offer
  <2>5. CommandOk'
    BY <1>3, <1>6, <2>3, <2>4
  <2> QED BY <2>2, <2>5 DEF Kept
<1>9. CASE ChooseClear
  <2> DEFINE h == [command EXCEPT !.at = "retry", !.clear = TRUE, !.asked = TRUE]
  <2>1. h \in [at : {"retry"}, clear : {TRUE}, asked : {TRUE}, saw : {command.saw}]
    BY <1>5
  <2> HIDE DEF h
  <2>2. h = Cmd("retry", TRUE, TRUE, command.saw)
    BY <2>1
  <2>3. command' = h
    BY <1>9 DEF ChooseClear, Commanding, h
  <2>4. CommandOk' /\ UNCHANGED row
    BY <1>3, <1>9, <2>2, <2>3 DEF ChooseClear, rules
  <2> QED BY <1>2, <2>4
<1>10. CASE RetryAnswers
  <2>1. RowShape' /\ NoneIsEmpty' /\ command.asked
    BY <1>10, EnableKeepsRule DEF RetryAnswers, SwitchInv, CommandOk
  <2>2. CommandOk'
    BY <1>4, <1>6, <1>10 DEF RetryAnswers
  <2> QED BY <2>1, <2>2 DEF Kept
<1>11. CASE StatusAnswers
  <2> DEFINE x == IF row.filters # <<>> THEN "confirm" ELSE "delete"
             h == [NoCommand EXCEPT !.saw = IdsOf(row.filters), !.at = x]
  <2>1. h \in [at : {x}, clear : {FALSE}, asked : {FALSE}, saw : {IdsOf(row.filters)}]
    BY DEF NoCommand
  <2>2. command' = NoCommand \/ command' = h
    BY <1>11 DEF StatusAnswers, Commanding
  <2>3. x # "retry" /\ (x = "delete" => IdsOf(row.filters) = {})
    BY <1>0
  <2> HIDE DEF h, x
  <2>4. h = Cmd(x, FALSE, FALSE, IdsOf(row.filters))
    BY <2>1
  <2>5. CommandOk' /\ UNCHANGED row
    <3>1. command' = h => CommandOk'
      BY <1>3, <2>3, <2>4
    <3> QED BY <1>6, <1>11, <2>2, <3>1 DEF StatusAnswers, rules
  <2> QED BY <1>2, <2>5
<1>12. CASE ChooseDisable
  <2> DEFINE h == [command EXCEPT !.at = "delete", !.asked = TRUE]
  <2>1. h \in [at : {"delete"}, clear : {command.clear}, asked : {TRUE}, saw : {command.saw}]
    BY <1>5
  <2> HIDE DEF h
  <2>2. h = Cmd("delete", command.clear, TRUE, command.saw)
    BY <2>1
  <2>3. command' = h
    BY <1>12 DEF ChooseDisable, Commanding, h
  <2>4. CommandOk' /\ UNCHANGED row
    BY <1>3, <1>12, <2>2, <2>3 DEF ChooseDisable, rules
  <2> QED BY <1>2, <2>4
<1>13. CASE DeleteAnswers
  <2>1. row' = NoRow /\ command.at = "delete"
    BY <1>13 DEF DeleteAnswers, RemoveChannel, Result
  <2>2. RowShape' /\ NoneIsEmpty'
    BY <2>1 DEF RowShape, NoneIsEmpty, NoRow
  <2>3. Kept
    BY <2>1 DEF Kept, SwitchInv, CommandOk
  <2>4. CommandOk'
    BY <1>4, <1>6, <1>13 DEF DeleteAnswers
  <2> QED BY <2>2, <2>3, <2>4
<1>14. CASE CommandEnds
  BY <1>2, <1>4, <1>6, <1>14 DEF CommandEnds, rules
<1> QED BY <1>7, <1>8, <1>9, <1>10, <1>11, <1>12, <1>13, <1>14 DEF CommandStep

(* The same of the tab and its calls.                                        *)
LEMMA TabMoves ==
  ASSUME SwitchInv, TabStep
  PROVE  /\ RowShape' /\ NoneIsEmpty' /\ CallsOk'
         /\ \A c \in Calls : (call[c].at = "sent" /\ call'[c].at # "sent" /\ ~call[c].asked) =>
              Deleted \cap (IF call[c].op = "enable" THEN Deleted ELSE call[c].saw) = {}
<1> DEFINE Kept == \A c \in Calls :
             (call[c].at = "sent" /\ call'[c].at # "sent" /\ ~call[c].asked) =>
               Deleted \cap (IF call[c].op = "enable" THEN Deleted ELSE call[c].saw) = {}
<1> SUFFICES RowShape' /\ NoneIsEmpty' /\ CallsOk' /\ Kept
  OBVIOUS
<1>1. UNCHANGED row => RowShape' /\ NoneIsEmpty' /\ Kept
  BY DEF RowShape, NoneIsEmpty, SwitchInv, Deleted
(* One call of the table changes.                                            *)
<1>2. ASSUME NEW c \in Calls, NEW k, CallOk(k), call' = [call EXCEPT ![c] = k]
      PROVE  CallsOk' /\ \A d \in Calls \ {c} : call'[d] = call[d]
  <2>1. call' = [d \in Calls |-> IF d = c THEN k ELSE call[d]]
    BY <1>2 DEF SwitchInv, CallsOk
  <2>2. \A d \in Calls : CallOk(call'[d])
    BY <1>2, <2>1 DEF SwitchInv, CallsOk
  <2> QED BY <2>1, <2>2 DEF CallsOk
<1>3. CallOk(NoCall)
  BY DEF CallOk, NoCall
<1>4. ASSUME NEW c \in Calls, NEW op, NEW clear, NEW asked, NEW saw,
             Send(c, op, clear, asked, saw),
             ~asked => IF op = "enable" THEN ~clear ELSE saw = {}
      PROVE  CallsOk'
  <2> DEFINE k == [op |-> op, at |-> "sent", clear |-> clear, asked |-> asked, saw |-> saw,
                   answer |-> "none"]
  <2>1. CallOk(k)
    BY <1>4 DEF CallOk
  <2>2. call' = [call EXCEPT ![c] = k]
    BY <1>4 DEF Send
  <2> QED BY <1>2, <2>1, <2>2
<1>5. UNCHANGED call => CallsOk'
  BY DEF SwitchInv, CallsOk
<1> HIDE DEF Kept
<1>6. CASE Reload \/ SwitchOn \/ ClearFilters \/ CloseDialog \/ ToggleOther
  BY <1>1, <1>5, <1>6
     DEF Reload, SwitchOn, Ask, ClearFilters, CloseDialog, ToggleOther, rules
<1>7. ASSUME NEW c \in Calls, SwitchOff(c) PROVE CallsOk' /\ UNCHANGED row
  <2>1. \/ UNCHANGED call
        \/ ListedIds = {} /\ Send(c, "disable", FALSE, FALSE, ListedIds)
    BY <1>7 DEF SwitchOff, Ask
  <2> QED BY <1>4, <1>5, <1>7, <2>1 DEF SwitchOff, rules
<1>8. ASSUME NEW c \in Calls, ConfirmGuide(c) PROVE CallsOk' /\ UNCHANGED row
  BY <1>4, <1>8 DEF ConfirmGuide, rules
<1>9. ASSUME NEW c \in Calls, ConfirmDisable(c) PROVE CallsOk' /\ UNCHANGED row
  BY <1>4, <1>9 DEF ConfirmDisable, rules
<1>10. ASSUME NEW c \in Calls, Answered(c) PROVE CallsOk' /\ UNCHANGED row
  BY <1>2, <1>3, <1>10 DEF Answered, rules
<1>11. ASSUME NEW c \in Calls, Land(c) PROVE RowShape' /\ NoneIsEmpty' /\ CallsOk' /\ Kept
  <2> DEFINE k(a) == [call[c] EXCEPT !.at = "answered", !.answer = a]
  <2>1. CallOk(call[c])
    BY DEF SwitchInv, CallsOk
  <2>2. ASSUME NEW a PROVE CallOk(k(a))
    <3> DEFINE r == k(a)
    <3>1. r \in [op : {call[c].op}, at : {"answered"}, clear : {call[c].clear},
                 asked : {call[c].asked}, saw : {call[c].saw}, answer : {a}]
      BY <2>1 DEF CallOk
    <3> HIDE DEF k
    <3>2. CallOk(r)
      BY <3>1 DEF CallOk
    <3> QED BY <3>2
  <2>3. PICK a : call' = [call EXCEPT ![c] = k(a)]
    BY <1>11 DEF Land
  <2> HIDE DEF k
  <2>4. CallsOk' /\ \A d \in Calls \ {c} : call'[d] = call[d]
    BY <1>2, <2>2, <2>3
  <2> DEFINE o == IF call[c].op = "enable" THEN AddChannel(call[c].clear) ELSE RemoveChannel
  <2>5. call[c].at = "sent" /\ (row' = o.row \/ UNCHANGED row)
    BY <1>11 DEF Land
  <2>6. CASE UNCHANGED row
    BY <1>1, <2>4, <2>6
  <2>7. CASE call[c].op = "enable" /\ row' = AddChannel(call[c].clear).row
    <3>1. RowShape' /\ NoneIsEmpty' /\ (~call[c].clear => Deleted = {})
      BY <2>7, EnableKeepsRule DEF SwitchInv
    <3>2. ~call[c].asked => Deleted = {}
      BY <2>1, <2>5, <2>7, <3>1 DEF CallOk
    <3>3. Kept
      BY <2>4, <2>7, <3>2 DEF Kept
    <3> QED BY <2>4, <3>1, <3>3
  <2>8. CASE call[c].op # "enable" /\ row' = NoRow
    <3>1. RowShape' /\ NoneIsEmpty'
      BY <2>8 DEF RowShape, NoneIsEmpty, NoRow
    <3>2. ~call[c].asked => call[c].saw = {}
      BY <2>1, <2>5, <2>8 DEF CallOk
    <3>3. Kept
      BY <2>4, <2>8, <3>2 DEF Kept
    <3> QED BY <2>4, <3>1, <3>3
  <2> QED BY <2>5, <2>6, <2>7, <2>8 DEF RemoveChannel, Result
<1> QED BY <1>1, <1>6, <1>7, <1>8, <1>9, <1>10, <1>11 DEF TabStep

(* Enabling never deletes a condition the member did not agree to lose, and  *)
(* disabling none that its surface had read without asking                   *)
(* (channel-config.tsx, handlers/ap): for any number of calls in flight.      *)
THEOREM NoUnwarnedLoss == SwitchSpec => WarnedBeforeLoss
<1> DEFINE Warned ==
      /\ \A c \in Calls : (call[c].at = "sent" /\ call'[c].at # "sent" /\ ~call[c].asked) =>
           Deleted \cap (IF call[c].op = "enable" THEN Deleted ELSE call[c].saw) = {}
      /\ (command' # command /\ ~command.asked) =>
           Deleted \cap (IF command.at = "enable" THEN Deleted ELSE command.saw) = {}
<1>1. RulesInit /\ SwitchInit => SwitchInv
  <2> SUFFICES ASSUME RulesInit, SwitchInit PROVE SwitchInv
    OBVIOUS
  <2>1. row.state = "serving" /\ RowShape
    BY DEF RulesInit, RowShape, NewRow, NoRow
  <2>2. CallsOk
    BY DEF SwitchInit, CallsOk, CallOk, NoCall
  <2>3. CommandOk
    BY DEF SwitchInit, CommandOk, NoCommand
  <2> QED BY <2>1, <2>2, <2>3 DEF SwitchInv, NoneIsEmpty
<1>2. SwitchInv /\ [SwitchNext \/ Surroundings \/ (RulesNext /\ UNCHANGED switch)]_<<rules, switch>>
        => SwitchInv' /\ [Warned]_<<rules, switch>>
  <2> SUFFICES ASSUME SwitchInv,
                      [SwitchNext \/ Surroundings \/ (RulesNext /\ UNCHANGED switch)]_<<rules, switch>>
               PROVE  SwitchInv' /\ Warned
    OBVIOUS
  <2>1. UNCHANGED call => CallsOk' /\ \A c \in Calls : call'[c] = call[c]
    BY DEF SwitchInv, CallsOk
  <2>2. UNCHANGED command => CommandOk'
    BY DEF SwitchInv, CommandOk
  <2>3. CASE TabStep
    <3>1. UNCHANGED command
      BY <2>3 DEF TabStep, Reload, SwitchOn, ClearFilters, CloseDialog, ToggleOther, SwitchOff,
                  ConfirmGuide, ConfirmDisable, Land, Answered
    <3> QED BY <2>2, <2>3, <3>1, TabMoves DEF SwitchInv
  <2>4. CASE CommandStep
    <3>1. UNCHANGED call
      BY <2>4 DEF CommandStep, RunEnable, EnableAnswers, ChooseClear, RetryAnswers, RunDisable,
                  StatusAnswers, ChooseDisable, DeleteAnswers, CommandEnds, Commanding, tab
    <3> QED BY <2>1, <2>4, <3>1, CommandMoves DEF SwitchInv
  <2>5. CASE Surroundings \/ UNCHANGED <<rules, switch>>
    <3>1. UNCHANGED <<row, call, command>>
      BY <2>5 DEF Surroundings, RoomChanges, ChannelConverted, rules, switch, tab
    <3>2. RowShape' /\ NoneIsEmpty'
      BY <3>1 DEF SwitchInv, RowShape, NoneIsEmpty
    <3> QED BY <2>1, <2>2, <3>1, <3>2 DEF SwitchInv
  <2>6. CASE RulesNext /\ UNCHANGED switch
    <3>1. UNCHANGED <<call, command>>
      BY <2>6 DEF switch, tab
    <3>2. RowShape' /\ NoneIsEmpty'
      BY <2>6, RulesKeepShape, OthersKeepNone DEF SwitchInv
    <3> QED BY <2>1, <2>2, <3>1, <3>2 DEF SwitchInv
  <2> QED BY <2>3, <2>4, <2>5, <2>6 DEF SwitchNext
<1> QED BY <1>1, <1>2, PTL DEF SwitchSpec, WarnedBeforeLoss

-----------------------------------------------------------------------------
(* The two switches of Rollover, beside each other and the plan.             *)
RolloverSpec == RolloverInit /\ [][RolloverNext]_setters

(* What the card carries while it is in no one's way: the state it showed     *)
(* before a call, what the call made of the setting, and at last that or      *)
(* what the server said before.                                              *)
CardOk == card = [enabled |-> card.enabled, data |-> card.data, locked |-> card.locked]
PutOk == put = [at |-> put.at, next |-> put.next, previous |-> put.previous, answer |-> put.answer]
Uncrossed ==
  /\ ~Changing => card.enabled = card.data
  /\ put # NoPut => ~refreshing /\ put.previous = card.data
  /\ put.at = "answered" /\ put.answer \in {"on", "off"} => Effective = (put.answer = "on")
  /\ refreshing => card.enabled = card.data \/ card.enabled = Effective
RolloverInv ==
  /\ setting \in BOOLEAN /\ entitled \in BOOLEAN /\ crossed \in BOOLEAN
  /\ CardOk /\ PutOk /\ (~crossed => Uncrossed)

(* A step that leaves the card, its call and its refresh.                    *)
LEMMA CardLeft ==
  ASSUME RolloverInv, UNCHANGED <<card, put, refreshing>>,
         setting' \in BOOLEAN, entitled' \in BOOLEAN,
         Crosses \/ UNCHANGED <<setting, entitled, crossed>>
  PROVE  RolloverInv'
<1>1. crossed' \in BOOLEAN /\ (~crossed' => ~crossed /\ (Changing => Effective' = Effective))
  BY DEF Crosses, Effective, RolloverInv
<1>2. CardOk' /\ PutOk' /\ Changing' = Changing
  BY DEF RolloverInv, CardOk, PutOk, Changing
<1>3. ASSUME ~crossed' PROVE Uncrossed'
  <2>1. Uncrossed /\ (Changing => Effective' = Effective)
    BY <1>1, <1>3 DEF RolloverInv
  <2>2. put.at = "answered" => Changing
    BY DEF Changing, NoPut
  <2> QED BY <1>2, <2>1, <2>2 DEF Uncrossed, Changing
<1> QED BY <1>1, <1>2, <1>3 DEF RolloverInv

LEMMA PutSays ==
  ASSUME setting \in BOOLEAN, entitled \in BOOLEAN, NEW e \in BOOLEAN, NEW a, PutRollover(e, a),
         UNCHANGED entitled
  PROVE  setting' \in BOOLEAN /\ (a \in {"on", "off"} => Effective' = (a = "on"))
BY DEF PutRollover, PutAnswers, Effective, Shown

LEMMA CardMoves ==
  ASSUME RolloverInv, RolloverTypeOK, [RolloverNext]_setters
  PROVE  RolloverInv'
<1>0. /\ setting \in BOOLEAN /\ entitled \in BOOLEAN /\ crossed \in BOOLEAN
      /\ CardOk /\ PutOk /\ (~crossed => Uncrossed)
  BY DEF RolloverInv
<1>1. NoPut.at = "idle" /\ NoPut = [at |-> NoPut.at, next |-> NoPut.next,
                                    previous |-> NoPut.previous, answer |-> NoPut.answer]
  BY DEF NoPut
<1>2. ASSUME NEW p \in Presses, PressLands(p) PROVE RolloverInv'
  <2>1. PICK a : PutRollover(press[p].enabled, a)
    BY <1>2 DEF PressLands
  <2>2. press[p].enabled \in BOOLEAN
    BY DEF RolloverTypeOK
  <2>3. setting' \in BOOLEAN /\ entitled' \in BOOLEAN
    BY <1>0, <1>2, <2>1, <2>2, PutSays DEF PressLands
  <2> QED BY <1>2, <2>3, CardLeft DEF PressLands
<1>3. CASE PlanFlips
  BY <1>0, <1>3, CardLeft DEF PlanFlips
<1>4. CASE UNCHANGED <<setting, entitled, card, put, refreshing, crossed>>
  BY <1>0, <1>4, CardLeft
<1>5. CASE CardToggle
  <2>1. /\ put = NoPut /\ UNCHANGED <<setting, entitled, refreshing>>
        /\ crossed' = (crossed \/ refreshing)
        /\ card' = [card EXCEPT !.enabled = ~card.enabled]
        /\ put' = [at |-> "sent", next |-> ~card.enabled, previous |-> card.enabled, answer |-> "none"]
    BY <1>5 DEF CardToggle
  <2>2. card'.data = card.data /\ CardOk'
    <3>1. card' = [enabled |-> ~card.enabled, data |-> card.data, locked |-> card.locked]
      BY <1>0, <2>1 DEF CardOk
    <3> QED BY <3>1 DEF CardOk
  <2>3. PutOk' /\ put'.at = "sent" /\ put'.previous = card.enabled
    BY <2>1 DEF PutOk
  <2>4. refreshing \in BOOLEAN
    BY DEF RolloverTypeOK
  <2>5. ASSUME ~crossed' PROVE Uncrossed'
    <3>1. Uncrossed /\ ~refreshing
      BY <1>0, <2>1, <2>5
    <3>2. card.enabled = card.data
      BY <2>1, <3>1 DEF Uncrossed, Changing
    <3>3. put' # NoPut
      BY <1>1, <2>3
    <3> QED BY <2>1, <2>2, <2>3, <3>1, <3>2, <3>3 DEF Uncrossed, Changing
  <2> QED BY <1>0, <2>1, <2>2, <2>3, <2>4, <2>5 DEF RolloverInv
<1>6. CASE PutLands
  <2>1. PICK a \in PutAnswers :
          PutRollover(put.next, a) /\ put' = [put EXCEPT !.at = "answered", !.answer = a]
    BY <1>6 DEF PutLands
  <2>2. put.at = "sent" /\ UNCHANGED <<entitled, card, refreshing, crossed>>
    BY <1>6 DEF PutLands
  <2>3. put.next \in BOOLEAN
    BY DEF RolloverTypeOK
  <2>4. setting' \in BOOLEAN /\ (a \in {"on", "off"} => Effective' = (a = "on"))
    BY <1>0, <2>1, <2>2, <2>3, PutSays
  <2>5. /\ PutOk' /\ put'.at = "answered" /\ put'.answer = a /\ put'.previous = put.previous
    <3>1. put' \in [at : {"answered"}, next : {put.next}, previous : {put.previous}, answer : {a}]
      BY <1>0, <2>1 DEF PutOk
    <3> QED BY <3>1 DEF PutOk
  <2>6. put # NoPut /\ put' # NoPut
    BY <1>1, <2>2, <2>5
  <2>7. CardOk'
    BY <1>0, <2>2 DEF CardOk
  <2>8. ASSUME ~crossed' PROVE Uncrossed'
    <3>1. ~refreshing /\ put.previous = card.data
      BY <1>0, <2>2, <2>6, <2>8 DEF Uncrossed
    <3> QED BY <2>2, <2>4, <2>5, <2>6, <3>1 DEF Uncrossed, Changing
  <2> QED BY <1>0, <2>2, <2>4, <2>5, <2>7, <2>8 DEF RolloverInv
<1>7. CASE PutAnswered
  <2>1. /\ put.at = "answered" /\ put' = NoPut /\ refreshing' = TRUE
        /\ card' = [card EXCEPT !.enabled = Settled]
        /\ UNCHANGED <<setting, entitled, crossed>>
    BY <1>7 DEF PutAnswered
  <2>2. card'.enabled = Settled /\ card'.data = card.data /\ CardOk'
    <3>1. card' = [enabled |-> Settled, data |-> card.data, locked |-> card.locked]
      BY <1>0, <2>1 DEF CardOk
    <3> QED BY <3>1 DEF CardOk
  <2>3. PutOk'
    BY <1>1, <2>1 DEF PutOk
  <2>4. ASSUME ~crossed' PROVE Uncrossed'
    <3>1. Uncrossed /\ put # NoPut
      BY <1>0, <1>1, <2>1, <2>4
    <3>2. Settled = Effective \/ Settled = card.data
      BY <2>1, <3>1 DEF Uncrossed, Settled
    <3>3. Effective' = Effective
      BY <2>1 DEF Effective
    <3> QED BY <1>1, <2>1, <2>2, <3>2, <3>3 DEF Uncrossed, Changing
  <2> QED BY <1>0, <2>1, <2>2, <2>3, <2>4 DEF RolloverInv
<1>8. CASE CardRefresh
  <2>1. /\ card' = [data |-> Effective, locked |-> ~entitled,
                    enabled |-> IF card.data # Effective THEN Effective ELSE card.enabled]
        /\ refreshing' = FALSE /\ crossed' = (crossed \/ put # NoPut)
        /\ UNCHANGED <<setting, entitled, put>>
    BY <1>8 DEF CardRefresh
  <2>2. CardOk' /\ PutOk' /\ Effective' = Effective
    BY <1>0, <2>1 DEF CardOk, PutOk, Effective
  <2>3. ASSUME ~crossed' PROVE Uncrossed'
    <3>1. Uncrossed /\ put = NoPut /\ put' = NoPut
      BY <1>0, <2>1, <2>3
    <3>2. card.data = Effective => card.enabled = Effective
      BY <3>1 DEF Uncrossed, Changing
    <3>3. card'.enabled = card'.data
      BY <2>1, <3>2
    <3> QED BY <1>1, <2>1, <3>1, <3>3 DEF Uncrossed, Changing
  <2> QED BY <1>0, <2>1, <2>2, <2>3 DEF RolloverInv
<1>9. CASE CardReload
  <2>1. /\ put = NoPut /\ put' = NoPut /\ refreshing' = FALSE /\ crossed' = FALSE
        /\ card' = [enabled |-> Effective, data |-> Effective, locked |-> ~entitled]
        /\ UNCHANGED <<setting, entitled>>
    BY <1>9 DEF CardReload
  <2>2. CardOk' /\ PutOk' /\ card'.enabled = card'.data
    BY <1>1, <2>1 DEF CardOk, PutOk
  <2> QED BY <1>0, <1>1, <2>1, <2>2 DEF RolloverInv, Uncrossed, Changing
<1>10. UNCHANGED <<setting, entitled, card, put, refreshing, crossed>>
         \/ (\E p \in Presses : PressLands(p))
         \/ CardToggle \/ PutLands \/ PutAnswered \/ CardRefresh \/ CardReload \/ PlanFlips
  BY DEF RolloverNext, setters, PressToggle, PressAnswered, PressForbidden, PanelIdle
<1> QED BY <1>2, <1>3, <1>4, <1>5, <1>6, <1>7, <1>8, <1>9, <1>10

LEMMA RolloverTypes == RolloverSpec => []RolloverTypeOK
<1>1. RolloverInit => RolloverTypeOK
  <2> SUFFICES ASSUME RolloverInit PROVE RolloverTypeOK
    OBVIOUS
  <2> USE DEF RolloverInit
  <2>1. Effective \in BOOLEAN /\ Shown(Effective) \in {"on", "off", "notice"}
    BY DEF Effective, Shown
  <2>2. /\ rollPanel \in [open : BOOLEAN, shows : {"on", "off", "notice"}, on : BOOLEAN]
        /\ card \in [enabled : BOOLEAN, data : BOOLEAN, locked : BOOLEAN]
    BY <2>1
  <2>3. press \in [Presses -> [at : {"idle", "sent", "answered"}, enabled : BOOLEAN,
                               answer : PutAnswers]]
    BY DEF NoPress, PutAnswers
  <2>4. put \in [at : {"idle", "sent", "answered"}, next : BOOLEAN, previous : BOOLEAN,
                 answer : PutAnswers]
    BY DEF NoPut, PutAnswers
  <2> QED BY <2>2, <2>3, <2>4 DEF RolloverTypeOK
<1>2. RolloverTypeOK /\ [RolloverNext]_setters => RolloverTypeOK'
  <2> SUFFICES ASSUME RolloverTypeOK, [RolloverNext]_setters PROVE RolloverTypeOK'
    OBVIOUS
  <2> USE DEF RolloverTypeOK
  <2>1. ASSUME NEW e \in BOOLEAN, NEW a \in PutAnswers, PutRollover(e, a)
        PROVE  setting' \in BOOLEAN
    BY <2>1 DEF PutRollover
  <2>2. ASSUME NEW p \in Presses, PressToggle(p) PROVE RolloverTypeOK'
    BY <2>2 DEF PressToggle, PutAnswers
  <2>3. ASSUME NEW p \in Presses, PressLands(p) PROVE RolloverTypeOK'
    <3>1. PICK a \in PutAnswers :
            /\ PutRollover(press[p].enabled, a)
            /\ press' = [press EXCEPT ![p].at = "answered", ![p].answer = a]
      BY <2>3 DEF PressLands
    <3>2. press[p].enabled \in BOOLEAN
      OBVIOUS
    <3>3. setting' \in BOOLEAN
      BY <2>1, <3>1, <3>2
    <3>4. press' \in [Presses -> [at : {"idle", "sent", "answered"}, enabled : BOOLEAN,
                                  answer : PutAnswers]]
      BY <3>1
    <3> QED BY <2>3, <3>3, <3>4 DEF PressLands, Crosses, Changing, Effective
  <2>4. ASSUME NEW p \in Presses, PressAnswered(p) PROVE RolloverTypeOK'
    <3>1. press' \in [Presses -> [at : {"idle", "sent", "answered"}, enabled : BOOLEAN,
                                  answer : PutAnswers]]
      BY <2>4 DEF PressAnswered, NoPress, PutAnswers
    <3>2. \E on \in BOOLEAN : Renders(on) \/ Replaced(on)
      BY <2>4 DEF PressAnswered
    <3>3. rollPanel' \in [open : BOOLEAN, shows : {"on", "off", "notice"}, on : BOOLEAN]
      BY <3>2 DEF Renders, Replaced, Shown
    <3> QED BY <2>4, <3>1, <3>3 DEF PressAnswered
  <2>5. CASE PressForbidden
    BY <2>5 DEF PressForbidden, Replaced
  <2>6. CASE PanelIdle
    BY <2>6 DEF PanelIdle, Replaced
  <2>7. CASE CardToggle
    BY <2>7 DEF CardToggle, PutAnswers
  <2>8. CASE PutLands
    BY <2>1, <2>8 DEF PutLands
  <2>9. CASE PutAnswered
    <3>1. Settled \in BOOLEAN
      BY DEF Settled
    <3>2. card' \in [enabled : BOOLEAN, data : BOOLEAN, locked : BOOLEAN]
      BY <2>9, <3>1 DEF PutAnswered
    <3> QED BY <2>9, <3>2 DEF PutAnswered, NoPut, PutAnswers
  <2>10. CASE CardRefresh
    BY <2>10 DEF CardRefresh, Effective
  <2>11. CASE PlanFlips
    BY <2>11 DEF PlanFlips, Crosses, Changing, Effective
  <2>12. CASE UNCHANGED setters
    BY <2>12 DEF setters
  <2>13. CASE CardReload
    BY <2>13 DEF CardReload, Effective
  <2> QED BY <2>2, <2>3, <2>4, <2>5, <2>6, <2>7, <2>8, <2>9, <2>10, <2>11, <2>12,
          <2>13 DEF RolloverNext
<1> QED BY <1>1, <1>2, PTL DEF RolloverSpec

(* Once its calls are answered and its refreshes have landed, the card shows  *)
(* what the server said last (rollover-card.tsx:57), whatever the answers and *)
(* however many presses of the panel beside it, unless a change of its own    *)
(* has met another's, or a refresh of its own, since the page was loaded.     *)
THEOREM CardShowsTheServers == RolloverSpec => []CardSettles
<1>1. RolloverInit => RolloverInv
  <2> SUFFICES ASSUME RolloverInit PROVE RolloverInv
    OBVIOUS
  <2>1. /\ setting \in BOOLEAN /\ entitled = TRUE /\ crossed = FALSE /\ refreshing = FALSE
        /\ put = NoPut /\ card = [enabled |-> Effective, data |-> Effective, locked |-> FALSE]
    BY DEF RolloverInit
  <2>2. CardOk /\ card.enabled = card.data
    BY <2>1 DEF CardOk
  <2>3. PutOk /\ put.at = "idle"
    BY <2>1 DEF PutOk, NoPut
  <2> QED BY <2>1, <2>2, <2>3 DEF RolloverInv, Uncrossed, Changing
<1>2. RolloverInv => CardSettles
  BY DEF RolloverInv, Uncrossed, CardSettles
<1>3. RolloverInv /\ RolloverTypeOK /\ [RolloverNext]_setters => RolloverInv'
  BY CardMoves
<1> QED BY <1>1, <1>2, <1>3, RolloverTypes, PTL DEF RolloverSpec

-----------------------------------------------------------------------------
(* The purchase.                                                             *)
CheckoutSpec == CheckoutInit /\ [][CheckoutNext]_sale

LEMMA CheckoutTypes == CheckoutSpec => []CheckoutTypeOK
<1> DEFINE Seens == [migrated : BOOLEAN, trial : BOOLEAN, live : BOOLEAN]
           TabType == [at : {"panel", "asking", "priced", "checkout", "overlay", "return"},
                       seen : Seens, terms : BOOLEAN, termsError : BOOLEAN, error : BOOLEAN,
                       txn : Prices, polls : 0..MaxPolls, gaveUp : BOOLEAN]
<1>0. MaxPolls \in Nat
  BY CheckoutAssumption
<1>1. ASSUME migratedAt \in BOOLEAN PROVE Payload \in Seens
  BY <1>1 DEF Payload, Entitled
<1> DEFINE Fresh(b) == [FreshTab EXCEPT !.txn = buyer[b].txn]
<1>2. ASSUME migratedAt \in BOOLEAN
      PROVE  FreshTab \in TabType
  BY <1>0, <1>1, <1>2 DEF FreshTab, Prices
<1>3. CheckoutInit => CheckoutTypeOK
  <2> SUFFICES ASSUME CheckoutInit PROVE CheckoutTypeOK
    OBVIOUS
  <2>1. buyer \in [Buyers -> TabType]
    BY <1>2 DEF CheckoutInit
  <2> QED BY <2>1 DEF CheckoutInit, CheckoutTypeOK, Statuses, Prices
<1>4. CheckoutTypeOK /\ [CheckoutNext]_sale => CheckoutTypeOK'
  <2> SUFFICES ASSUME CheckoutTypeOK, [CheckoutNext]_sale PROVE CheckoutTypeOK'
    OBVIOUS
  <2>1. buyer \in [Buyers -> TabType] /\ migratedAt \in BOOLEAN
    BY DEF CheckoutTypeOK
  <2>2. FreshTab \in TabType /\ Payload \in Seens
    BY <1>1, <1>2, <2>1
  <2>3. ASSUME NEW b \in Buyers, NEW t \in TabType, TabOnly(b, t) PROVE CheckoutTypeOK'
    <3>1. buyer' \in [Buyers -> TabType]
      BY <2>1, <2>3 DEF TabOnly, Tab
    <3> QED BY <2>3, <3>1 DEF TabOnly, CheckoutTypeOK
  <2> HIDE DEF Seens
  <2>4. ASSUME NEW b \in Buyers, CardStep(b) \/ RouteStepOf(b) \/ ReturnStep(b)
        PROVE  CheckoutTypeOK'
    <3> buyer[b] \in TabType
      BY <2>1
    <3>1. CASE OpenPanel(b)
      <4>1. Fresh(b) \in TabType
        BY <2>2
      <4> QED BY <2>3, <3>1, <4>1 DEF OpenPanel
    <3>2. CASE TickTerms(b)
      <4>1. [buyer[b] EXCEPT !.terms = ~@, !.termsError = @ /\ buyer[b].terms] \in TabType
        OBVIOUS
      <4> QED BY <2>3, <3>2, <4>1 DEF TickTerms
    <3>3. CASE PressUpgrade(b)
      <4>1. /\ [buyer[b] EXCEPT !.at = "asking", !.termsError = FALSE, !.error = FALSE] \in TabType
            /\ [buyer[b] EXCEPT !.termsError = TRUE] \in TabType
        OBVIOUS
      <4> QED BY <2>3, <3>3, <4>1 DEF PressUpgrade
    <3>4. CASE PriceCheckout(b)
      <4>1. \A p \in Prices : [buyer[b] EXCEPT !.at = "priced", !.txn = p] \in TabType
        OBVIOUS
      <4> HIDE DEF TabType
      <4>2. buyer' \in [Buyers -> TabType]
        BY <2>1, <3>4, <4>1 DEF PriceCheckout, Prices, Tab
      <4>3. knew' \in [Buyers -> SUBSET Buyers]
        BY <3>4 DEF PriceCheckout, CheckoutTypeOK
      <4>4. CheckoutTypeOK'
        BY <3>4, <4>2, <4>3 DEF PriceCheckout, CheckoutTypeOK, TabType, Seens
      <4> QED BY <4>4
    <3>5. CASE CreateTransaction(b)
      <4>1. [buyer[b] EXCEPT !.at = "checkout"] \in TabType
        OBVIOUS
      <4> QED BY <2>3, <3>5, <4>1 DEF CreateTransaction
    <3>6. CASE CheckoutFails(b)
      <4>1. [buyer[b] EXCEPT !.at = "panel", !.error = TRUE, !.txn = "none"] \in TabType
        BY DEF Prices
      <4> QED BY <2>3, <3>6, <4>1 DEF CheckoutFails
    <3>7. CASE PollTick(b)
      <4>1. [buyer[b] EXCEPT !.gaveUp = TRUE] \in TabType
        OBVIOUS
      <4>2. buyer[b].polls >= MaxPolls \/ [buyer[b] EXCEPT !.polls = @ + 1] \in TabType
        <5>1. buyer[b].polls >= MaxPolls \/ buyer[b].polls + 1 \in 0..MaxPolls
          BY <1>0
        <5> QED BY <5>1
      <4> QED BY <2>3, <3>7, <4>1, <4>2 DEF PollTick
    <3>8. CASE ReturnRefreshed(b)
      <4>1. [buyer[b] EXCEPT !.seen = Payload] \in TabType
        BY <2>2
      <4> QED BY <2>3, <3>8, <4>1 DEF ReturnRefreshed
    <3>9. CASE CloseWelcome(b)
      <4>1. [FreshTab EXCEPT !.seen = buyer[b].seen] \in TabType
        BY <2>2
      <4> QED BY <2>3, <3>9, <4>1 DEF CloseWelcome
    <3> QED BY <2>4, <3>1, <3>2, <3>3, <3>4, <3>5, <3>6, <3>7, <3>8, <3>9
        DEF CardStep, RouteStepOf, ReturnStep
  <2>5. ASSUME NEW b \in Buyers, PaddleStep(b) PROVE CheckoutTypeOK'
    <3> buyer[b] \in TabType
      BY <2>1
    <3>1. CASE OpenOverlay(b) \/ CloseOverlay(b) \/ FollowLink(b)
      <4>1. /\ [buyer[b] EXCEPT !.at = "overlay"] \in TabType
            /\ [buyer[b] EXCEPT !.at = "checkout"] \in TabType
        OBVIOUS
      <4> QED BY <2>3, <3>1, <4>1 DEF OpenOverlay, CloseOverlay, FollowLink
    <3>2. CASE LeaveCheckout(b)
      <4>1. Fresh(b) \in TabType
        BY <2>2
      <4> QED BY <2>3, <3>2, <4>1 DEF LeaveCheckout
    <3>3. CASE Pay(b)
      <4>1. [FreshTab EXCEPT !.at = "return"] \in TabType
        BY <2>2
      <4>2. buyer' \in [Buyers -> TabType]
        BY <2>1, <3>3, <4>1 DEF Pay, Tab
      <4>3. buyer[b].txn \in Prices
        OBVIOUS
      <4> HIDE DEF TabType
      <4>4. sold' \in [Buyers -> Prices]
        BY <3>3, <4>3 DEF Pay, CheckoutTypeOK
      <4>5. contract' \in [Buyers -> Statuses]
        BY <3>3 DEF Pay, CheckoutTypeOK, Statuses
      <4>6. CheckoutTypeOK'
        BY <3>3, <4>2, <4>4, <4>5 DEF Pay, CheckoutTypeOK, TabType, Seens
      <4> QED BY <4>6
    <3>4. CASE ContractChanges(b)
      BY <3>4 DEF ContractChanges, CheckoutTypeOK, Statuses
    <3>5. CASE ApplyEvent(b)
      BY <3>5 DEF ApplyEvent, CheckoutTypeOK
    <3> QED BY <2>5, <3>1, <3>2, <3>3, <3>4, <3>5 DEF PaddleStep
  <2>6. CASE GuildMigrates
    BY <2>6 DEF GuildMigrates, CheckoutTypeOK
  <2>7. CASE UNCHANGED sale
    BY <2>7 DEF sale, CheckoutTypeOK
  <2> QED BY <2>4, <2>5, <2>6, <2>7 DEF CheckoutNext
<1> QED BY <1>3, <1>4, PTL DEF CheckoutSpec

(* The tab a step of a buyer leaves, and the price it then holds.            *)
TabMove(c) ==
  \E t : /\ Tab(c, t)
         /\ \/ t.txn = buyer[c].txn
            \/ t.txn = "none" /\ t.at \in {"panel", "return"}
            \/ PriceCheckout(c) /\ t.txn = IF TrialAvailable THEN "trial" ELSE "plain"
         /\ t.at = "asking" => buyer[c].at = "asking" \/ sold[c] = "none"
         /\ t.at \in {"priced", "checkout", "overlay"} /\ ~PriceCheckout(c)
              => buyer[c].at \in {"priced", "checkout", "overlay"} \/ buyer[c].txn # "none"

LEMMA TabsMove ==
  ASSUME CheckoutTypeOK, NEW c \in Buyers,
         CardStep(c) \/ RouteStepOf(c) \/ PaddleStep(c) \/ ReturnStep(c)
  PROVE  UNCHANGED buyer \/ TabMove(c)
<1> DEFINE t1 == [FreshTab EXCEPT !.txn = buyer[c].txn]
           t2 == [buyer[c] EXCEPT !.terms = ~@, !.termsError = @ /\ buyer[c].terms]
           t3 == [buyer[c] EXCEPT !.at = "asking", !.termsError = FALSE, !.error = FALSE]
           t4 == [buyer[c] EXCEPT !.termsError = TRUE]
           t5 == [buyer[c] EXCEPT !.at = "priced",
                    !.txn = IF TrialAvailable THEN "trial" ELSE "plain"]
           t6 == [buyer[c] EXCEPT !.at = "checkout"]
           t7 == [buyer[c] EXCEPT !.at = "panel", !.error = TRUE, !.txn = "none"]
           t8 == [buyer[c] EXCEPT !.at = "overlay"]
           t9 == [FreshTab EXCEPT !.at = "return"]
           t10 == [buyer[c] EXCEPT !.gaveUp = TRUE]
           t11 == [buyer[c] EXCEPT !.polls = @ + 1]
           t12 == [buyer[c] EXCEPT !.seen = Payload]
           t13 == [FreshTab EXCEPT !.seen = buyer[c].seen]
<1>0. buyer[c] \in [at : {"panel", "asking", "priced", "checkout", "overlay", "return"},
                    seen : [migrated : BOOLEAN, trial : BOOLEAN, live : BOOLEAN],
                    terms : BOOLEAN, termsError : BOOLEAN, error : BOOLEAN,
                    txn : Prices, polls : 0..MaxPolls, gaveUp : BOOLEAN]
  BY DEF CheckoutTypeOK
<1>1. /\ t1.txn = buyer[c].txn /\ t1.at = "panel"
      /\ t7.txn = "none" /\ t7.at = "panel" /\ t9.txn = "none" /\ t9.at = "return"
      /\ t13.txn = "none" /\ t13.at = "panel"
  BY <1>0 DEF FreshTab
<1>2. /\ t2.txn = buyer[c].txn /\ t2.at = buyer[c].at /\ t4.txn = buyer[c].txn /\ t4.at = buyer[c].at
      /\ t10.txn = buyer[c].txn /\ t10.at = buyer[c].at
      /\ t11.txn = buyer[c].txn /\ t11.at = buyer[c].at
      /\ t12.txn = buyer[c].txn /\ t12.at = buyer[c].at
  BY <1>0
<1>3. /\ t3.txn = buyer[c].txn /\ t3.at = "asking" /\ t6.txn = buyer[c].txn /\ t6.at = "checkout"
      /\ t8.txn = buyer[c].txn /\ t8.at = "overlay"
      /\ t5.at = "priced" /\ t5.txn = IF TrialAvailable THEN "trial" ELSE "plain"
  BY <1>0
<1>4. /\ OpenPanel(c) \/ LeaveCheckout(c) => Tab(c, t1)
      /\ TickTerms(c) => Tab(c, t2)
      /\ PressUpgrade(c) => (Tab(c, t3) \/ Tab(c, t4)) /\ sold[c] = "none"
      /\ PriceCheckout(c) => Tab(c, t5)
      /\ CreateTransaction(c) => Tab(c, t6) /\ buyer[c].at = "priced"
      /\ CheckoutFails(c) => Tab(c, t7)
      /\ OpenOverlay(c) => Tab(c, t8) /\ buyer[c].at = "checkout"
      /\ CloseOverlay(c) => Tab(c, t6) /\ buyer[c].at = "overlay"
      /\ FollowLink(c) => Tab(c, t6) /\ buyer[c].txn # "none"
      /\ Pay(c) => Tab(c, t9)
      /\ PollTick(c) => Tab(c, t10) \/ Tab(c, t11)
      /\ ReturnRefreshed(c) => Tab(c, t12)
      /\ CloseWelcome(c) => Tab(c, t13)
      /\ ContractChanges(c) \/ ApplyEvent(c) => UNCHANGED buyer
  BY DEF OpenPanel, TickTerms, PressUpgrade, CardUsable, PriceCheckout, CreateTransaction,
         CheckoutFails, OpenOverlay, CloseOverlay, LeaveCheckout, FollowLink, Pay,
         ContractChanges, ApplyEvent, PollTick, ReturnRefreshed, CloseWelcome, TabOnly
<1> HIDE DEF t1, t2, t3, t4, t5, t6, t7, t8, t9, t10, t11, t12, t13
<1>5. ASSUME NEW t, Tab(c, t), t.txn = buyer[c].txn,
             t.at = buyer[c].at \/ t.at = "panel" \/ (t.at = "asking" /\ sold[c] = "none")
      PROVE  TabMove(c)
  BY <1>5 DEF TabMove
<1>6. ASSUME NEW t, Tab(c, t), t.txn = buyer[c].txn, t.at \in {"checkout", "overlay"},
             buyer[c].at \in {"priced", "checkout", "overlay"} \/ buyer[c].txn # "none"
      PROVE  TabMove(c)
  BY <1>6 DEF TabMove
<1>7. ASSUME NEW t, Tab(c, t), t.txn = "none", t.at \in {"panel", "return"} PROVE TabMove(c)
  BY <1>7 DEF TabMove
<1>8. CASE CardStep(c)
  BY <1>1, <1>2, <1>3, <1>4, <1>5, <1>8 DEF CardStep
<1>9. CASE PriceCheckout(c)
  BY <1>3, <1>4, <1>9 DEF TabMove
<1>10. CASE CreateTransaction(c) \/ CheckoutFails(c)
  BY <1>1, <1>3, <1>4, <1>6, <1>7, <1>10
<1>11. CASE PaddleStep(c)
  <2>1. CASE OpenOverlay(c) \/ CloseOverlay(c) \/ FollowLink(c)
    BY <1>3, <1>4, <1>6, <2>1
  <2>2. CASE LeaveCheckout(c)
    BY <1>1, <1>4, <1>5, <2>2
  <2>3. CASE Pay(c)
    BY <1>1, <1>4, <1>7, <2>3
  <2> QED BY <1>4, <1>11, <2>1, <2>2, <2>3 DEF PaddleStep
<1>12. CASE ReturnStep(c)
  BY <1>1, <1>2, <1>4, <1>5, <1>7, <1>12 DEF ReturnStep
<1> QED BY <1>8, <1>9, <1>10, <1>11, <1>12 DEF RouteStepOf

(* A purchase is paid once and for all, and the row follows a subscription it *)
(* has heard of for as long as that one is in force; what was heard of when a *)
(* purchase was priced is over, and the purchase is no trial.                *)
Paid == \A b \in Buyers : contract[b] = "none" <=> sold[b] = "none"
Tabs == \A b \in Buyers :
  /\ buyer[b].at = "asking" => sold[b] = "none"
  /\ buyer[b].at \in {"priced", "checkout", "overlay"} => buyer[b].txn # "none"
Followed ==
  /\ heard # {} => billing.status # "none"
  /\ \A b \in heard : /\ contract[b] # "none"
                      /\ Entitled(contract[b]) => billing.of = b /\ Entitled(billing.status)
Known == \A b, c \in Buyers : b \in knew[c] =>
  contract[b] = "canceled" /\ buyer[c].txn # "trial" /\ sold[c] # "trial"
SaleInv == Paid /\ Tabs /\ Followed /\ Known

LEMMA SaleStep ==
  ASSUME CheckoutTypeOK, SaleInv, [CheckoutNext]_sale
  PROVE  SaleInv'
<1>0. Paid /\ Tabs /\ Followed /\ Known
  BY DEF SaleInv
<1>1. ASSUME UNCHANGED sale PROVE SaleInv'
  BY <1>0, <1>1 DEF sale, SaleInv, Paid, Tabs, Followed, Known
<1>2. CASE GuildMigrates
  BY <1>0, <1>2 DEF GuildMigrates, SaleInv, Paid, Tabs, Followed, Known
<1>3. ASSUME NEW c \in Buyers,
             CardStep(c) \/ RouteStepOf(c) \/ PaddleStep(c) \/ ReturnStep(c)
      PROVE  SaleInv'
  <2>1. UNCHANGED buyer \/ TabMove(c)
    BY <1>3, TabsMove
  <2>2. \A b \in Buyers \ {c} : buyer'[b] = buyer[b]
    BY <2>1 DEF TabMove, Tab, CheckoutTypeOK
  <2>3. /\ buyer'[c].at = "asking" => buyer[c].at = "asking" \/ sold[c] = "none"
        /\ buyer'[c].at \in {"priced", "checkout", "overlay"} /\ ~PriceCheckout(c) =>
             buyer[c].at \in {"priced", "checkout", "overlay"} \/ buyer[c].txn # "none"
        /\ \/ buyer'[c].txn = buyer[c].txn
           \/ buyer'[c].txn = "none" /\ buyer'[c].at \in {"panel", "return"}
           \/ PriceCheckout(c) /\ buyer'[c].txn = IF TrialAvailable THEN "trial" ELSE "plain"
    <3>1. CASE UNCHANGED buyer
      BY <3>1
    <3>2. CASE TabMove(c)
      <4>1. PICK t : /\ Tab(c, t)
                     /\ \/ t.txn = buyer[c].txn
                        \/ t.txn = "none" /\ t.at \in {"panel", "return"}
                        \/ PriceCheckout(c) /\ t.txn = IF TrialAvailable THEN "trial" ELSE "plain"
                     /\ t.at = "asking" => buyer[c].at = "asking" \/ sold[c] = "none"
                     /\ t.at \in {"priced", "checkout", "overlay"} /\ ~PriceCheckout(c)
                          => buyer[c].at \in {"priced", "checkout", "overlay"} \/ buyer[c].txn # "none"
        BY <3>2 DEF TabMove
      <4>2. buyer'[c] = t
        BY <4>1 DEF Tab, CheckoutTypeOK
      <4> QED BY <4>1, <4>2
    <3> QED BY <2>1, <3>1, <3>2
  (* A step that leaves the sale itself.                                     *)
  <2>4. ASSUME UNCHANGED <<billing, contract, sold, heard, knew>>, ~PriceCheckout(c)
        PROVE  SaleInv'
    <3>1. Paid' /\ Followed'
      BY <1>0, <2>4 DEF Paid, Followed
    <3>2. buyer'[c].txn = buyer[c].txn \/ (buyer'[c].txn = "none" /\ buyer'[c].at \in {"panel", "return"})
      BY <2>3, <2>4
    <3>3. Tabs'
      BY <1>0, <2>2, <2>3, <2>4, <3>2 DEF Tabs
    <3>4. Known'
      BY <1>0, <2>2, <2>4, <3>2 DEF Known
    <3> QED BY <3>1, <3>3, <3>4 DEF SaleInv
  <2>5. CASE PriceCheckout(c)
    <3>1. /\ UNCHANGED <<billing, contract, sold, heard>> /\ ~Entitled(billing.status)
          /\ buyer[c].at = "asking" /\ knew' = [knew EXCEPT ![c] = heard]
      BY <2>5 DEF PriceCheckout
    <3>2. sold[c] = "none"
      BY <1>0, <3>1 DEF Tabs
    <3>3. /\ buyer'[c].at = "priced"
          /\ buyer'[c].txn = IF TrialAvailable THEN "trial" ELSE "plain"
      BY <2>5 DEF PriceCheckout, Tab, CheckoutTypeOK
    <3>4. \A b \in heard : contract[b] = "canceled"
      BY <1>0, <3>1 DEF Followed, CheckoutTypeOK, Statuses, Entitled
    <3>5. heard # {} => buyer'[c].txn = "plain"
      BY <1>0, <3>3 DEF Followed, TrialAvailable
    <3>6. Paid' /\ Followed'
      BY <1>0, <3>1 DEF Paid, Followed
    <3>7. Tabs'
      BY <1>0, <2>2, <3>1, <3>3 DEF Tabs
    <3>8. Known'
      <4>1. knew'[c] = heard /\ \A d \in Buyers \ {c} : knew'[d] = knew[d]
        BY <3>1 DEF CheckoutTypeOK
      <4> QED BY <1>0, <2>2, <3>1, <3>2, <3>4, <3>5, <4>1 DEF Known
    <3> QED BY <3>6, <3>7, <3>8 DEF SaleInv
  <2>6. CASE Pay(c)
    <3>1. /\ buyer[c].at = "overlay" /\ sold[c] = "none"
          /\ sold' = [sold EXCEPT ![c] = buyer[c].txn]
          /\ contract' = [contract EXCEPT ![c] = IF buyer[c].txn = "trial" THEN "trialing" ELSE "active"]
          /\ UNCHANGED <<billing, heard, knew>>
      BY <2>6 DEF Pay
    <3>2. buyer[c].txn # "none" /\ contract[c] = "none" /\ c \notin heard
      BY <1>0, <3>1 DEF Tabs, Paid, Followed
    <3>3. sold'[c] = buyer[c].txn /\ contract'[c] \in {"trialing", "active"}
      BY <3>1 DEF CheckoutTypeOK
    <3>4. \A b \in Buyers \ {c} : sold'[b] = sold[b] /\ contract'[b] = contract[b]
      BY <3>1 DEF CheckoutTypeOK
    <3>5. buyer'[c].at = "return" /\ buyer'[c].txn = "none"
      BY <2>6 DEF Pay, Tab, CheckoutTypeOK, FreshTab
    <3>6. Paid'
      BY <1>0, <3>2, <3>3, <3>4 DEF Paid
    <3>7. Tabs'
      BY <1>0, <2>2, <3>4, <3>5 DEF Tabs
    <3>8. Followed'
      BY <1>0, <3>1, <3>2, <3>4 DEF Followed, CheckoutTypeOK
    <3>9. Known'
      BY <1>0, <2>2, <3>1, <3>2, <3>3, <3>4, <3>5 DEF Known
    <3> QED BY <3>6, <3>7, <3>8, <3>9 DEF SaleInv
  <2>7. CASE ContractChanges(c)
    <3>1. /\ UNCHANGED <<billing, sold, heard, knew, buyer>>
          /\ contract[c] \in {"trialing", "active"} /\ contract'[c] \in {"active", "canceled"}
          /\ \A b \in Buyers \ {c} : contract'[b] = contract[b]
      BY <2>7 DEF ContractChanges, Entitled, CheckoutTypeOK
    <3>2. Paid' /\ Tabs' /\ Known'
      BY <1>0, <3>1 DEF Paid, Tabs, Known
    <3>3. Followed'
      BY <1>0, <3>1 DEF Followed, Entitled, CheckoutTypeOK
    <3> QED BY <3>2, <3>3 DEF SaleInv
  <2>8. CASE ApplyEvent(c)
    <3>1. /\ contract[c] # "none" /\ (billing.of # c => ~Entitled(billing.status))
          /\ billing'.status = contract[c] /\ billing'.of = c /\ heard' = heard \cup {c}
          /\ UNCHANGED <<contract, sold, knew, buyer>>
      BY <2>8 DEF ApplyEvent
    <3>2. Paid' /\ Tabs' /\ Known'
      BY <1>0, <3>1 DEF Paid, Tabs, Known
    <3>3. \A b \in heard \ {c} : ~Entitled(contract[b])
      BY <1>0, <3>1 DEF Followed
    <3>4. Followed'
      BY <1>0, <3>1, <3>3 DEF Followed
    <3> QED BY <3>2, <3>4 DEF SaleInv
  <2>9. PriceCheckout(c) \/ Pay(c) \/ ContractChanges(c) \/ ApplyEvent(c)
          \/ UNCHANGED <<billing, contract, sold, heard, knew>>
    BY <1>3 DEF CardStep, RouteStepOf, PaddleStep, ReturnStep, OpenPanel, TickTerms, PressUpgrade,
         CreateTransaction, CheckoutFails, OpenOverlay, CloseOverlay, LeaveCheckout, FollowLink,
         PollTick, ReturnRefreshed, CloseWelcome, TabOnly
  <2> QED BY <2>4, <2>5, <2>6, <2>7, <2>8, <2>9
<1> QED BY <1>1, <1>2, <1>3 DEF CheckoutNext

(* Whichever admin buys, from however old a tab or link, and in whatever      *)
(* order the events come (routes/api/guild.ts, services/subscriptions.ts):    *)
(* of two subscriptions of a guild that are in force at once, and of two      *)
(* trials, each was priced before the backend had heard of the other.        *)
THEOREM OneTrial == CheckoutSpec => []NoSecondPurchase
<1>1. CheckoutInit => SaleInv
  BY DEF CheckoutInit, SaleInv, Paid, Tabs, Followed, Known, FreshTab
<1>2. SaleInv => NoSecondPurchase
  BY DEF SaleInv, Known, NoSecondPurchase, Entitled
<1>3. CheckoutTypeOK /\ SaleInv /\ [CheckoutNext]_sale => SaleInv'
  BY SaleStep
<1> QED BY <1>1, <1>2, <1>3, CheckoutTypes, PTL DEF CheckoutSpec

-----------------------------------------------------------------------------
(* The publish state.                                                        *)
PublishSpec == PublishInit /\ [][PublishNext]_pubVars

(* What a read has been told of a channel that is not old is true, and so is  *)
(* what a report says of one.                                                *)
JobShape(j) ==
  /\ DOMAIN j = DOMAIN NoJob /\ j.entries = [c \in News |-> j.entries[c]]
  /\ j.got = [r \in Routes |-> j.got[r]]
  /\ j.at \in {"idle", "misses"} => \A c \in News : j.entries[c] = "none"
ReportTrue(j, now) ==
  \A c \in News \ j.old : j.entries[c] # "none" => j.entries[c] = Entry(now, c)
ReadTrue(j, now) ==
  \A c \in News \ j.old :
    /\ j.got["list"] # Unread => j.got["list"][1][c] = now.list[c]
    /\ j.got["roles"] # Unread => j.got["roles"][1] = now.roles
    /\ j.got["member"] # Unread => j.got["member"][1] = now.member
JobOk(j, now) == JobShape(j) /\ ReportTrue(j, now) /\ ReadTrue(j, now)
JobsOk == job = [w \in Writers |-> job[w]] /\ \A w \in Writers : JobOk(job[w], Now)

(* While it listens, the bot's cache is what Discord has.                    *)
Heard == /\ DOMAIN gateway = {"roles", "member", "list"}
         /\ listening => gateway = Now
HashShape == hash = [c \in News |-> hash[c]] /\ kind = [c \in News |-> kind[c]]
PublishInv == JobsOk /\ Heard /\ HashShape /\ ReportsStand

LEMMA SameNow ==
  ASSUME UNCHANGED <<permits, holds, kind>>
  PROVE  Now' = Now
BY DEF Now

(* What is under way stays as good as it was when nothing changes, and where  *)
(* something changes it becomes old.                                         *)
LEMMA NoJobIs ==
  /\ DOMAIN NoJob = {"at", "full", "entries", "got", "stale", "old"}
  /\ NoJob.at = "idle" /\ NoJob.entries = NoEntries /\ NoJob.got = Nothing
BY DEF NoJob

LEMMA NoJobOk ==
  ASSUME NEW now
  PROVE  JobOk(NoJob, now) /\ NoJob.at = "idle" /\ \A c \in News : NoJob.entries[c] = "none"
<1>1. \A r \in Routes : NoJob.got[r] = Unread
  BY NoJobIs DEF Nothing
<1>2. \A c \in News : NoJob.entries[c] = "none"
  BY NoJobIs DEF NoEntries
<1>3. JobShape(NoJob)
  BY NoJobIs, <1>2 DEF JobShape, NoEntries, Nothing
<1> QED BY <1>1, <1>2, <1>3, NoJobIs DEF JobOk, ReportTrue, ReadTrue, Routes

LEMMA OutdatedOk ==
  ASSUME NEW j, NEW chans, NEW before, NEW now, JobOk(j, before),
         (now.roles = before.roles /\ now.member = before.member) \/ News \subseteq chans,
         \A c \in News \ chans : now.list[c] = before.list[c],
         NEW k, k = IF j = NoJob THEN NoJob ELSE [j EXCEPT !.old = @ \cup chans]
  PROVE  /\ JobOk(k, now) /\ k.entries = j.entries
         /\ k.old \cap News \subseteq j.old \cup chans
         /\ j = NoJob => k = NoJob
<1>1. CASE j = NoJob
  BY <1>1, NoJobOk
<1>2. CASE j # NoJob
  <2>1. /\ DOMAIN k = DOMAIN NoJob /\ k.at = j.at /\ k.entries = j.entries
        /\ k.got = j.got /\ k.old = j.old \cup chans
    <3>1. DOMAIN j = {"at", "full", "entries", "got", "stale", "old"}
      BY NoJobIs DEF JobOk, JobShape
    <3>2. k = [j EXCEPT !.old = j.old \cup chans]
      BY <1>2
    <3> QED BY <3>1, <3>2, NoJobIs
  <2>2. JobShape(k)
    BY <2>1 DEF JobOk, JobShape
  <2>3. ReportTrue(k, now)
    BY <2>1 DEF JobOk, ReportTrue, Entry
  <2>4. ReadTrue(k, now)
    BY <2>1 DEF JobOk, ReadTrue
  <2> QED BY <1>2, <2>1, <2>2, <2>3, <2>4 DEF JobOk
<1> QED BY <1>1, <1>2

LEMMA OldIsOutdated ==
  ASSUME JobsOk, NEW chans, UNCHANGED <<permits, holds>> \/ News \subseteq chans,
         \A c \in News \ chans : kind'[c] = kind[c],
         NEW jobs, jobs = Outdated(chans)
  PROVE  /\ jobs = [w \in Writers |-> jobs[w]]
         /\ \A w \in Writers :
              /\ JobOk(jobs[w], Now') /\ jobs[w].entries = job[w].entries
              /\ jobs[w].old \cap News \subseteq job[w].old \cup chans
              /\ job[w] = NoJob => jobs[w] = NoJob
<1>1. jobs = [w \in Writers |-> jobs[w]]
  BY DEF Outdated
<1>2. /\ (Now'.roles = Now.roles /\ Now'.member = Now.member) \/ News \subseteq chans
      /\ \A c \in News \ chans : Now'.list[c] = Now.list[c]
  BY DEF Now
<1>3. ASSUME NEW w \in Writers
      PROVE  /\ JobOk(jobs[w], Now') /\ jobs[w].entries = job[w].entries
             /\ jobs[w].old \cap News \subseteq job[w].old \cup chans
             /\ job[w] = NoJob => jobs[w] = NoJob
  <2>1. jobs[w] = IF job[w] = NoJob THEN NoJob ELSE [job[w] EXCEPT !.old = @ \cup chans]
    BY DEF Outdated
  <2>2. JobOk(job[w], Now)
    BY DEF JobsOk
  <2> QED BY <1>2, <2>1, <2>2, OutdatedOk
<1> QED BY <1>1, <1>3

(* A push reports what the cache has, and knows where that is not the truth.  *)
LEMMA PushOk ==
  ASSUME NEW jobs, jobs = [w \in Writers |-> jobs[w]],
         \A w \in Writers : JobOk(jobs[w], Now'),
         NEW v \in Writers, NEW cache, NEW chans, NEW full, Push(jobs, v, cache, chans, full)
  PROVE  /\ JobsOk' /\ job[v] = NoJob
         /\ \A w \in Writers \ {v} : job'[w] = jobs[w]
         /\ Reported(v)' = News \cap chans
         /\ cache = Now' => job'[v].old = {}
<1>0. PICK now : now = Now'
  OBVIOUS
<1> DEFINE es == [c \in News |-> IF c \in chans THEN Entry(cache, c) ELSE "none"]
           old == {c \in News : Entry(cache, c) # Entry(now, c)}
           k == [NoJob EXCEPT !.at = "sent", !.full = full, !.entries = es, !.old = old]
<1>2. job[v] = NoJob /\ job' = [jobs EXCEPT ![v] = k]
  BY <1>0 DEF Push
<1>1. /\ DOMAIN k = DOMAIN NoJob /\ k.at = "sent" /\ k.entries = es /\ k.old = old
      /\ k.got = Nothing
  <2> HIDE DEF es, old
  <2> QED BY NoJobIs
<1> HIDE DEF k
<1>a. /\ JobOk(k, now) /\ {c \in News : k.entries[c] # "none"} = News \cap chans
      /\ cache = now => k.old = {}
  <2>1. \A c \in News : Entry(cache, c) # "none"
    BY DEF Entry
  <2>2. JobShape(k)
    BY <1>1 DEF JobShape, Nothing
  <2>3. ReportTrue(k, now)
    BY <1>1 DEF ReportTrue
  <2>4. ReadTrue(k, now)
    BY <1>1 DEF ReadTrue, Nothing, Routes
  <2> QED BY <1>1, <2>1, <2>2, <2>3, <2>4 DEF JobOk
<1>3. job'[v] = k /\ \A w \in Writers \ {v} : job'[w] = jobs[w]
  BY <1>2
<1>4. job' = [w \in Writers |-> job'[w]]
  BY <1>2
<1>5. \A w \in Writers : JobOk(job'[w], Now')
  BY <1>0, <1>a, <1>3
<1>6. JobsOk'
  BY <1>4, <1>5 DEF JobsOk
<1> QED BY <1>0, <1>2, <1>a, <1>3, <1>6 DEF Reported

(* One writer moves on, to what is as good.                                  *)
LEMMA WriterMoves ==
  ASSUME JobsOk, NEW v \in Writers, NEW k, JobOk(k, Now), job' = [job EXCEPT ![v] = k],
         UNCHANGED <<permits, holds, kind>>
  PROVE  /\ JobsOk' /\ job'[v] = k
         /\ \A w \in Writers \ {v} : job'[w] = job[w]
<1>1. \A w \in Writers : JobOk(job'[w], Now)
  BY DEF JobsOk
<1>2. Now' = Now
  BY DEF Now
<1>3. job' = [w \in Writers |-> job'[w]]
  BY DEF JobsOk
<1>4. JobsOk'
  BY <1>1, <1>2, <1>3 DEF JobsOk
<1> QED BY <1>4 DEF JobsOk

(* The bot's steps.                                                          *)
LEMMA BotSteps ==
  ASSUME PublishInv, NEW w \in Writers,
         \/ \E c \in News : EnablePushes(w, c) \/ \E k \in ChannelKinds : ChannelMoves(w, c, k)
         \/ RoleUpdate(w) \/ GuildMemberUpdate(w) \/ Sweep(w) \/ RoleDelete
  PROVE  PublishInv'
<1>0. JobsOk /\ Heard /\ HashShape /\ ReportsStand
  BY DEF PublishInv
<1>1. \A v \in Writers : JobOk(job[v], Now) /\ (job[v] = NoJob => Reported(v) = {})
  BY <1>0, NoJobOk DEF JobsOk, Reported
(* A channel that was right, and of which nothing changed, is.               *)
<1>2. ASSUME NEW c \in News, UNCHANGED <<permits, holds, hash>>, kind'[c] = kind[c],
             c \notin muddled, \A v \in Writers : c \in Reported(v) \ job[v].old =>
                                 \E u \in Writers : c \in Reported(u)' \ job'[u].old
      PROVE  IsNews(kind'[c]) /\ ~Awaited(c)' => hash'[c] \in {"none", Truth(c)'}
  BY <1>0, <1>2 DEF ReportsStand, Awaited, Truth, Now, Entry
<1>3. ASSUME NEW c \in News, EnablePushes(w, c) PROVE PublishInv'
  <2>1. /\ UNCHANGED <<permits, holds, kind, listening, gateway, hash, muddled>>
        /\ Push(job, w, gateway, {c}, FALSE)
    BY <1>3 DEF EnablePushes, discord
  <2>2. \A v \in Writers : JobOk(job[v], Now')
    BY <1>1, <2>1, SameNow
  <2>3. /\ JobsOk' /\ job[w] = NoJob /\ \A v \in Writers \ {w} : job'[v] = job[v]
    BY <1>0, <2>1, <2>2, PushOk DEF JobsOk
  <2>4. \A v \in Writers \ {w} : Reported(v)' = Reported(v)
    BY <2>3 DEF Reported
  <2>5. Heard' /\ HashShape'
    BY <1>0, <2>1 DEF Heard, HashShape, Now
  <2>6. ReportsStand'
    BY <1>1, <1>2, <2>1, <2>3, <2>4 DEF ReportsStand
  <2> QED BY <2>3, <2>5, <2>6 DEF PublishInv
<1>4. CASE Sweep(w)
  <2>1. /\ UNCHANGED <<permits, holds, kind, hash, muddled>> /\ listening' = TRUE
        /\ gateway' = Now /\ Push(job, w, gateway', Announcements(gateway'), TRUE)
    BY <1>4 DEF Sweep
  <2>2. \A v \in Writers : JobOk(job[v], Now')
    BY <1>1, <2>1, SameNow
  <2>3. /\ JobsOk' /\ job[w] = NoJob /\ \A v \in Writers \ {w} : job'[v] = job[v]
    BY <1>0, <2>1, <2>2, PushOk DEF JobsOk
  <2>4. \A v \in Writers \ {w} : Reported(v)' = Reported(v)
    BY <2>3 DEF Reported
  <2>5. Heard' /\ HashShape'
    BY <1>0, <2>1 DEF Heard, HashShape, Now
  <2>6. ReportsStand'
    BY <1>1, <1>2, <2>1, <2>3, <2>4 DEF ReportsStand
  <2> QED BY <2>3, <2>5, <2>6 DEF PublishInv
<1>5. ASSUME NEW c \in News, NEW k \in ChannelKinds, ChannelMoves(w, c, k) PROVE PublishInv'
  <2>1. /\ kind' = [kind EXCEPT ![c] = k] /\ UNCHANGED <<permits, holds, listening, hash>>
        /\ gateway' = IF listening THEN [gateway EXCEPT !.list[c] = k] ELSE gateway
        /\ muddled' = IF listening THEN muddled ELSE muddled \cup {c}
    BY <1>5 DEF ChannelMoves
  <2>2. /\ kind' = [d \in News |-> kind'[d]] /\ kind'[c] = k
        /\ \A d \in News \ {c} : kind'[d] = kind[d]
    BY <1>0, <2>1 DEF HashShape
  <2>3. Heard' /\ HashShape'
    <3>1. CASE listening
      <4>1. gateway = [roles |-> permits, member |-> holds, list |-> kind]
        BY <1>0, <3>1 DEF Heard, Now
      <4>2. gateway' = [gateway EXCEPT !.list[c] = k]
        BY <2>1, <3>1
      <4>3. gateway' = [roles |-> permits, member |-> holds, list |-> [kind EXCEPT ![c] = k]]
        <5> DEFINE g == [gateway EXCEPT !.list = [gateway.list EXCEPT ![c] = k]]
        <5>1. g \in [roles : {permits}, member : {holds}, list : {[kind EXCEPT ![c] = k]}]
          BY <4>1
        <5>2. gateway' = g
          BY <4>2
        <5> HIDE DEF g
        <5> QED BY <5>1, <5>2
      <4> QED BY <1>0, <2>1, <2>2, <4>3 DEF Heard, HashShape, Now
    <3>2. CASE ~listening
      BY <1>0, <2>1, <2>2, <3>2 DEF Heard, HashShape
    <3> QED BY <3>1, <3>2
  <2>a. PICK jobs : jobs = Outdated({c})
    OBVIOUS
  <2>4. /\ jobs = [v \in Writers |-> jobs[v]]
        /\ \A v \in Writers : /\ JobOk(jobs[v], Now') /\ jobs[v].entries = job[v].entries
                              /\ jobs[v].old \cap News \subseteq job[v].old \cup {c}
                              /\ job[v] = NoJob => jobs[v] = NoJob
    <3>1. UNCHANGED <<permits, holds>>
      BY <2>1
    <3>2. PICK chans : chans = {c}
      OBVIOUS
    <3>3. jobs = Outdated(chans) /\ \A d \in News \ chans : kind'[d] = kind[d]
      BY <2>a, <2>2, <3>2
    <3>4. /\ jobs = [v \in Writers |-> jobs[v]]
          /\ \A v \in Writers : /\ JobOk(jobs[v], Now') /\ jobs[v].entries = job[v].entries
                                /\ jobs[v].old \cap News \subseteq job[v].old \cup chans
                                /\ job[v] = NoJob => jobs[v] = NoJob
      BY <1>0, <3>1, <3>3, OldIsOutdated
    <3> QED BY <3>2, <3>4
  (* A true report of another channel is one still.                          *)
  <2>5. ASSUME NEW v \in Writers, job'[v] = jobs[v], NEW d \in News \ {c},
               d \in Reported(v) \ job[v].old
        PROVE  d \in Reported(v)' \ job'[v].old
    BY <2>4, <2>5 DEF Reported
  <2>6. CASE listening /\ IsNews(k)
    <3>1. Push(jobs, w, gateway', {c}, FALSE)
      BY <1>5, <2>a, <2>6 DEF ChannelMoves
    <3>2. /\ JobsOk' /\ job[w] = NoJob /\ \A v \in Writers \ {w} : job'[v] = jobs[v]
          /\ Reported(w)' = {c} /\ (gateway' = Now' => job'[w].old = {})
      <4>1. PICK cache : cache = gateway'
        OBVIOUS
      <4>2. Push(jobs, w, cache, {c}, FALSE)
        BY <3>1, <4>1
      <4>3. /\ JobsOk' /\ job[w] = NoJob /\ \A v \in Writers \ {w} : job'[v] = jobs[v]
            /\ Reported(w)' = News \cap {c} /\ (cache = Now' => job'[w].old = {})
        BY <2>4, <4>2, PushOk
      <4> QED BY <4>1, <4>3
    <3>3. gateway' = Now'
      BY <2>1, <2>3, <2>6 DEF Heard
    <3>4. Awaited(c)'
      BY <3>2, <3>3 DEF Awaited
    <3>5. ASSUME NEW d \in News \ {c}, d \notin muddled
          PROVE  IsNews(kind'[d]) /\ ~Awaited(d)' => hash'[d] \in {"none", Truth(d)'}
      <4>1. \A v \in Writers : d \in Reported(v) \ job[v].old => d \in Reported(v)' \ job'[v].old
        BY <1>1, <2>5, <3>2
      <4> QED BY <1>2, <2>1, <2>2, <3>5, <4>1
    <3>6. ReportsStand'
      BY <2>1, <2>6, <3>4, <3>5 DEF ReportsStand
    <3> QED BY <2>3, <3>2, <3>6 DEF PublishInv
  <2>7. CASE ~(listening /\ IsNews(k))
    <3>1. job' = jobs
      BY <1>5, <2>a, <2>7 DEF ChannelMoves
    <3>2. JobsOk'
      BY <2>4, <3>1 DEF JobsOk
    <3>3. ASSUME NEW d \in News \ {c}, d \notin muddled
          PROVE  IsNews(kind'[d]) /\ ~Awaited(d)' => hash'[d] \in {"none", Truth(d)'}
      <4>1. \A v \in Writers : d \in Reported(v) \ job[v].old => d \in Reported(v)' \ job'[v].old
        BY <2>5, <3>1
      <4> QED BY <1>2, <2>1, <2>2, <3>3, <4>1
    <3>4. c \in muddled' \/ ~IsNews(kind'[c])
      BY <2>1, <2>2, <2>7
    <3>5. ReportsStand'
      BY <2>1, <3>3, <3>4 DEF ReportsStand
    <3> QED BY <2>3, <3>2, <3>5 DEF PublishInv
  <2> QED BY <2>6, <2>7
<1>6. ASSUME RolesMove(w) PROVE PublishInv'
  <2>1. /\ UNCHANGED <<kind, listening, hash>>
        /\ gateway' = IF listening THEN [gateway EXCEPT !.roles = permits', !.member = holds']
                      ELSE gateway
        /\ muddled' = IF listening THEN muddled ELSE News
    BY <1>6 DEF RolesMove
  <2>2. Heard' /\ HashShape'
    <3>1. CASE listening
      <4> DEFINE g == [gateway EXCEPT !.roles = permits', !.member = holds']
      <4>1. g \in [roles : {permits'}, member : {holds'}, list : {kind'}]
        <5>1. gateway = [roles |-> permits, member |-> holds, list |-> kind]
          BY <1>0, <3>1 DEF Heard, Now
        <5> QED BY <2>1, <5>1
      <4>2. gateway' = g
        BY <2>1, <3>1
      <4> HIDE DEF g
      <4>3. gateway' = [roles |-> permits', member |-> holds', list |-> kind']
        BY <4>1, <4>2
      <4> QED BY <1>0, <2>1, <4>3 DEF Heard, HashShape, Now
    <3>2. CASE ~listening
      BY <1>0, <2>1, <3>2 DEF Heard, HashShape
    <3> QED BY <3>1, <3>2
  <2>a. PICK jobs : jobs = Outdated(News)
    OBVIOUS
  <2>3. /\ jobs = [v \in Writers |-> jobs[v]] /\ \A v \in Writers : JobOk(jobs[v], Now')
    BY <1>0, <2>a, OldIsOutdated
  <2>4. CASE listening
    <3>1. Push(jobs, w, gateway', Announcements(gateway), FALSE)
      BY <1>6, <2>a, <2>4 DEF RolesMove
    <3>2. JobsOk' /\ Reported(w)' = News \cap Announcements(gateway)
          /\ (gateway' = Now' => job'[w].old = {})
      <4>1. PICK cache : cache = gateway'
        OBVIOUS
      <4>2. Push(jobs, w, cache, Announcements(gateway), FALSE)
        BY <3>1, <4>1
      <4> QED BY <2>3, <4>1, <4>2, PushOk
    <3>3. gateway' = Now'
      BY <2>1, <2>2, <2>4 DEF Heard
    <3>4. \A c \in News : IsNews(kind'[c]) => c \in Announcements(gateway)
      <4>1. gateway = [roles |-> permits, member |-> holds, list |-> kind]
        BY <1>0, <2>4 DEF Heard, Now
      <4>2. gateway.list = kind
        BY <4>1
      <4> QED BY <2>1, <4>2 DEF Announcements
    <3>5. ReportsStand'
      BY <3>2, <3>3, <3>4 DEF ReportsStand, Awaited
    <3> QED BY <2>2, <3>2, <3>5 DEF PublishInv
  <2>5. CASE ~listening
    <3>1. job' = jobs
      BY <1>6, <2>a, <2>5 DEF RolesMove
    <3> QED BY <2>1, <2>2, <2>3, <2>5, <3>1 DEF PublishInv, JobsOk, ReportsStand
  <2> QED BY <2>4, <2>5
<1>7. CASE RoleDelete
  <2>1. /\ job' = Outdated(News) /\ muddled' = News /\ permits /\ permits' = FALSE
        /\ gateway' = IF listening THEN [gateway EXCEPT !.roles = FALSE] ELSE gateway
        /\ UNCHANGED <<holds, kind, listening, hash>>
    BY <1>7 DEF RoleDelete
  <2>2. JobsOk'
    <3>1. PICK jobs : jobs = Outdated(News)
      OBVIOUS
    <3>2. /\ jobs = [v \in Writers |-> jobs[v]] /\ \A v \in Writers : JobOk(jobs[v], Now')
      BY <1>0, <3>1, OldIsOutdated
    <3> QED BY <2>1, <3>1, <3>2 DEF JobsOk
  <2>3. Heard' /\ HashShape'
    <3>1. CASE listening
      <4> DEFINE g == [gateway EXCEPT !.roles = FALSE]
      <4>1. g \in [roles : {FALSE}, member : {holds}, list : {kind}]
        <5>1. gateway = [roles |-> permits, member |-> holds, list |-> kind]
          BY <1>0, <3>1 DEF Heard, Now
        <5> QED BY <5>1
      <4>2. gateway' = g
        BY <2>1, <3>1
      <4> HIDE DEF g
      <4> QED BY <1>0, <2>1, <4>1, <4>2 DEF Heard, HashShape, Now
    <3>2. CASE ~listening
      BY <1>0, <2>1, <3>2 DEF Heard, HashShape
    <3> QED BY <3>1, <3>2
  <2> QED BY <2>1, <2>2, <2>3 DEF PublishInv, ReportsStand
<1> QED BY <1>3, <1>4, <1>5, <1>6, <1>7 DEF RoleUpdate, GuildMemberUpdate

(* A job that a write or a read replaces.                                    *)
LEMMA JobReplaced ==
  ASSUME PublishInv, NEW w \in Writers, NEW k, JobOk(k, Now), job' = [job EXCEPT ![w] = k],
         UNCHANGED <<permits, holds, kind, listening, gateway>>, hash' = [c \in News |-> hash'[c]],
         \A c \in News \ muddled' :
           \/ /\ c \notin muddled /\ hash'[c] \in {hash[c], "none"}
              /\ c \in Reported(w) \ job[w].old => k.entries[c] # "none" /\ c \notin k.old
           \/ hash'[c] = Truth(c)
  PROVE  PublishInv'
<1>0. JobsOk /\ Heard /\ HashShape /\ ReportsStand
  BY DEF PublishInv
<1>1. /\ JobsOk' /\ job'[w] = k /\ \A v \in Writers \ {w} : job'[v] = job[v]
  BY <1>0, WriterMoves
<1>2. Heard' /\ HashShape' /\ \A c : Truth(c)' = Truth(c)
  BY <1>0 DEF Heard, HashShape, Now, Truth, Entry
<1>3. ASSUME NEW c \in News \ muddled', c \notin muddled,
             c \in Reported(w) \ job[w].old => k.entries[c] # "none" /\ c \notin k.old
      PROVE  Awaited(c) => Awaited(c)'
  BY <1>1, <1>3 DEF Awaited, Reported
<1>4. ReportsStand'
  BY <1>0, <1>2, <1>3 DEF ReportsStand
<1> QED BY <1>1, <1>2, <1>4 DEF PublishInv

LEMMA WriteSteps ==
  ASSUME PublishInv, NEW w \in Writers,
         StaleFields(w) \/ DropStale(w) \/ Store(w) \/ WriteLost(w)
  PROVE  PublishInv'
<1> DEFINE j == job[w]
<1>0. JobsOk /\ HashShape /\ JobOk(j, Now) /\ hash = [c \in News |-> hash[c]]
  BY DEF PublishInv, JobsOk, HashShape
<1>1. CASE StaleFields(w)
  <2> DEFINE k == [j EXCEPT !.at = "drop",
                     !.stale = {c \in News : hash[c] # "none"} \ Reported(w)]
  <2>1. job' = [job EXCEPT ![w] = k] /\ j.at = "sent" /\ UNCHANGED <<discord, hash, muddled>>
    BY <1>1 DEF StaleFields
  <2>2. JobOk(k, Now) /\ k.entries = j.entries /\ k.old = j.old
    <3>1. /\ DOMAIN k = DOMAIN NoJob /\ k.entries = j.entries /\ k.old = j.old
          /\ k.got = j.got /\ k.at = "drop"
      BY <1>0 DEF JobOk, JobShape, NoJob
    <3> HIDE DEF k
    <3> QED BY <1>0, <3>1 DEF JobOk, JobShape, ReportTrue, ReadTrue
  <2> HIDE DEF k
  <2> QED BY <1>0, <2>1, <2>2, JobReplaced DEF Reported, discord
<1>2. CASE DropStale(w)
  <2> DEFINE k == [j EXCEPT !.at = "store"]
  <2>1. /\ job' = [job EXCEPT ![w] = k] /\ UNCHANGED <<discord, muddled>>
        /\ hash' = [c \in News |-> IF c \in j.stale THEN "none" ELSE hash[c]]
    BY <1>2 DEF DropStale, At
  <2>2. JobOk(k, Now) /\ k.entries = j.entries /\ k.old = j.old
    <3>1. /\ DOMAIN k = DOMAIN NoJob /\ k.entries = j.entries /\ k.old = j.old
          /\ k.got = j.got /\ k.at = "store"
      BY <1>0 DEF JobOk, JobShape, NoJob
    <3> HIDE DEF k
    <3> QED BY <1>0, <3>1 DEF JobOk, JobShape, ReportTrue, ReadTrue
  <2> HIDE DEF k
  <2>3. \A c \in News : hash'[c] \in {hash[c], "none"}
    BY <2>1
  <2>4. hash' = [c \in News |-> hash'[c]]
    BY <2>1
  <2> QED BY <2>1, <2>2, <2>3, <2>4, JobReplaced DEF Reported, discord
<1>3. CASE Store(w)
  <2>1. /\ job' = [job EXCEPT ![w] = NoJob] /\ UNCHANGED discord
        /\ hash' = [c \in News |-> IF c \in Reported(w) THEN j.entries[c] ELSE hash[c]]
        /\ muddled' = (muddled \ Reported(w)) \cup (Reported(w) \cap j.old)
    BY <1>3 DEF Store, End
  <2>2. hash' = [c \in News |-> hash'[c]]
    BY <2>1
  <2>3. ASSUME NEW c \in News \ muddled', c \in Reported(w) PROVE hash'[c] = Truth(c)
    BY <1>0, <2>1, <2>3 DEF JobOk, ReportTrue, Reported, Truth
  <2>4. ASSUME NEW c \in News \ muddled', c \notin Reported(w)
        PROVE  c \notin muddled /\ hash'[c] = hash[c]
    BY <2>1, <2>4
  <2> QED BY <2>1, <2>2, <2>3, <2>4, NoJobOk, JobReplaced DEF discord
<1>4. CASE WriteLost(w)
  <2>1. /\ job' = [job EXCEPT ![w] = NoJob] /\ UNCHANGED <<discord, hash>>
        /\ muddled' = muddled \cup Reported(w)
    BY <1>4 DEF WriteLost, End
  <2> QED BY <1>0, <2>1, NoJobOk, JobReplaced DEF discord
<1> QED BY <1>1, <1>2, <1>3, <1>4

(* What a read computes of answers that are not old is true.                  *)
LEMMA ReadSteps ==
  ASSUME PublishInv, NEW w \in Writers,
         ReadDashboard(w) \/ ReadRoute(w, "roles") \/ ReadRoute(w, "member")
  PROVE  PublishInv'
<1> DEFINE j == job[w]
<1>0. JobsOk /\ HashShape /\ JobOk(j, Now) /\ hash = [c \in News |-> hash[c]]
  BY DEF PublishInv, JobsOk, HashShape
<1>1. UNCHANGED <<discord, hash, muddled>>
  BY DEF ReadDashboard, ReadRoute
<1>2. ASSUME NEW k, JobOk(k, Now), job' = [job EXCEPT ![w] = k], j.at \in {"idle", "misses"}
      PROVE  PublishInv'
  <2>1. Reported(w) = {}
    BY <1>0, <1>2 DEF Reported, JobOk, JobShape
  <2> QED BY <1>0, <1>1, <1>2, <2>1, JobReplaced DEF discord
<1>3. CASE ReadDashboard(w)
  <2>1. PICK list \in CopiesOf("list"), known \in {hash, NoEntries} :
          job' = IF list = Unread \/ Misses(list[1], known) = {} THEN job
                 ELSE [job EXCEPT ![w] = [NoJob EXCEPT !.at = "misses", !.got.list = list,
                         !.stale = Misses(list[1], known),
                         !.old = {c \in News : list[1][c] # kind[c]}]]
    <3> HIDE DEF j
    <3> QED BY <1>3, Zenon DEF ReadDashboard
  <2>2. j = NoJob /\ j.at = "idle"
    <3>1. job[w] = NoJob
      <4> HIDE DEF j
      <4> QED BY <1>3, Zenon DEF ReadDashboard
    <3> QED BY <3>1, NoJobIs
  <2>3. CASE job' = job
    <3>1. job' = [job EXCEPT ![w] = NoJob]
      BY <1>0, <2>2, <2>3 DEF JobsOk
    <3> QED BY <1>2, <2>2, <3>1, NoJobOk
  <2>4. ASSUME NEW missed,
               job' = [job EXCEPT ![w] =
                  [NoJob EXCEPT !.at = "misses", !.got.list = list, !.stale = missed,
                    !.old = {c \in News : list[1][c] # kind[c]}]]
        PROVE  PublishInv'
    <3> DEFINE got == [NoJob.got EXCEPT !["list"] = list]
               old == {c \in News : list[1][c] # kind[c]}
               k == [NoJob EXCEPT !.at = "misses", !.got = got, !.stale = missed, !.old = old]
    <3>1. job' = [job EXCEPT ![w] = k]
      BY <2>4
    <3>2. /\ DOMAIN k = DOMAIN NoJob /\ k.at = "misses" /\ k.got = got /\ k.old = old
          /\ k.entries = NoEntries
      <4> HIDE DEF got, old
      <4> QED BY NoJobIs
    <3> HIDE DEF k
    <3>3. /\ got = [r \in Routes |-> got[r]] /\ got["list"] = list
          /\ got["roles"] = Unread /\ got["member"] = Unread
      BY NoJobIs DEF Nothing, Routes
    <3> HIDE DEF got
    <3>4. JobOk(k, Now)
      <4>1. Now.list = kind
        BY DEF Now
      <4>2. \A c \in News \ k.old : k.got["list"][1][c] = Now.list[c]
        BY <3>2, <3>3, <4>1
      <4>3. ReadTrue(k, Now)
        BY <3>2, <3>3, <4>2 DEF ReadTrue
      <4> HIDE DEF old
      <4>4. JobShape(k) /\ ReportTrue(k, Now)
        BY <3>2, <3>3 DEF JobShape, ReportTrue, NoEntries
      <4> QED BY <4>3, <4>4 DEF JobOk
    <3> QED BY <1>2, <2>2, <3>1, <3>4
  <2> QED BY <2>1, <2>3, <2>4
<1>4. ASSUME NEW route \in {"roles", "member"}, ReadRoute(w, route) PROVE PublishInv'
  <2>1. PICK answer : IF answer = Unread THEN End(w) ELSE Got(w, route, answer)
    BY <1>4 DEF ReadRoute
  <2>2. j.at = "misses"
    BY <1>4 DEF ReadRoute
  <2>3. CASE answer = Unread
    BY <1>2, <2>1, <2>2, <2>3, NoJobOk DEF End
  <2>4. CASE answer # Unread
    <3> DEFINE got == [j.got EXCEPT ![route] = answer]
               old == IF answer = <<Now[route]>> THEN j.old ELSE News
               seen == [r \in Routes |-> got[r][1]]
               es == [c \in News |-> IF c \in j.stale THEN Entry(seen, c) ELSE "none"]
               k == [j EXCEPT !.got = got, !.old = old]
               m == [NoJob EXCEPT !.at = "store", !.old = old, !.entries = es]
    <3>1. IF \A r \in Routes : got[r] # Unread THEN job' = [job EXCEPT ![w] = m]
          ELSE job' = [job EXCEPT ![w] = k]
      <4>1. Got(w, route, answer)
        BY <2>1, <2>4
      <4>2. \A c \in News : [d \in News |-> Entry(seen, d)][c] = Entry(seen, c)
        OBVIOUS
      <4>3. WriteBack(w, [c \in News |-> Entry(seen, c)], old) => job' = [job EXCEPT ![w] = m]
        BY <4>2 DEF WriteBack
      <4> QED BY <4>1, <4>3 DEF Got
    <3>2. /\ got = [r \in Routes |-> got[r]] /\ got[route] = answer
          /\ \A r \in Routes \ {route} : got[r] = j.got[r]
      BY <1>0, <1>4 DEF JobOk, JobShape, Routes
    <3>3. Now["roles"] = permits /\ Now["member"] = holds
      BY DEF Now
    <3>4. \A c \in News \ old : c \notin j.old /\ answer[1] = Now[route]
      OBVIOUS
    <3>5. ASSUME NEW c \in News \ old
          PROVE  /\ got["list"] # Unread => got["list"][1][c] = kind[c]
                 /\ got["roles"] # Unread => got["roles"][1] = permits
                 /\ got["member"] # Unread => got["member"][1] = holds
      <4>1. /\ j.got["list"] # Unread => j.got["list"][1][c] = kind[c]
            /\ j.got["roles"] # Unread => j.got["roles"][1] = permits
            /\ j.got["member"] # Unread => j.got["member"][1] = holds
        BY <1>0, <3>4, <3>5 DEF JobOk, ReadTrue, Now
      <4>2. answer[1] = Now[route]
        BY <3>4, <3>5
      <4> HIDE DEF got
      <4> QED BY <1>4, <3>2, <3>3, <4>1, <4>2 DEF Routes
    <3>6. JobOk(k, Now)
      <4>1. /\ DOMAIN k = DOMAIN NoJob /\ k.got = got /\ k.old = old
            /\ k.entries = j.entries /\ k.at = "misses"
        BY <1>0, <2>2 DEF JobOk, JobShape, NoJob
      <4> HIDE DEF k, got, old
      <4>2. JobShape(k)
        BY <1>0, <2>2, <3>2, <4>1 DEF JobOk, JobShape
      <4>3. ReportTrue(k, Now)
        BY <4>1, <4>2 DEF JobShape, ReportTrue
      <4>4. ReadTrue(k, Now)
        BY <3>5, <4>1 DEF ReadTrue, Now
      <4> QED BY <4>2, <4>3, <4>4 DEF JobOk
    <3>7. ASSUME \A r \in Routes : got[r] # Unread PROVE JobOk(m, Now)
      <4>1. /\ DOMAIN m = DOMAIN NoJob /\ m.got = Nothing /\ m.old = old /\ m.entries = es
            /\ m.at = "store"
        BY DEF NoJob
      <4>2. ASSUME NEW c \in News \ old PROVE Entry(seen, c) = Truth(c)
        <5>1. /\ seen["list"] = got["list"][1] /\ seen["roles"] = got["roles"][1]
              /\ seen["member"] = got["member"][1]
          BY DEF Routes
        <5>2. seen["list"][c] = kind[c] /\ seen["roles"] = permits /\ seen["member"] = holds
          <6> HIDE DEF got, seen, old
          <6> QED BY <3>5, <3>7, <4>2, <5>1 DEF Routes
        <5>3. seen.list[c] = kind[c] /\ seen.roles = permits /\ seen.member = holds
          BY <5>2
        <5> HIDE DEF seen
        <5> QED BY <5>3 DEF Entry, Truth, Now
      <4> HIDE DEF m, old, seen
      <4>3. JobShape(m)
        BY <4>1 DEF JobShape, Nothing
      <4>4. ReportTrue(m, Now)
        <5> HIDE DEF es, got
        <5>1. \A c \in News : es[c] # "none" => es[c] = Entry(seen, c)
          BY DEF es
        <5> QED BY <4>1, <4>2, <5>1 DEF ReportTrue, Truth
      <4>5. ReadTrue(m, Now)
        BY <4>1 DEF ReadTrue, Nothing, Routes
      <4> QED BY <4>3, <4>4, <4>5 DEF JobOk
    <3> HIDE DEF k, m, got
    <3> QED BY <1>2, <2>2, <3>1, <3>6, <3>7
  <2> QED BY <2>3, <2>4
<1> QED BY <1>3, <1>4

(* What the hash says of an announcement channel is true, or a report that is *)
(* is on its way (services/publishState.ts), for any number of channels,      *)
(* writers and reads, however they overlap and whatever fails, but for a      *)
(* change that no report was made of, a report that was lost or overtaken by  *)
(* a change, and an answer that was old: the next true report ends each.     *)
THEOREM HashIsTrue == PublishSpec => []ReportsStand
<1>1. PublishInit => PublishInv
  <2> SUFFICES ASSUME PublishInit PROVE PublishInv
    OBVIOUS
  <2>1. JobsOk
    BY NoJobOk DEF PublishInit, JobsOk
  <2>2. Heard /\ HashShape /\ ReportsStand
    BY DEF PublishInit, Heard, HashShape, ReportsStand, Now, NoEntries
  <2> QED BY <2>1, <2>2 DEF PublishInv
<1>2. PublishInv /\ [PublishNext]_pubVars => PublishInv'
  <2> SUFFICES ASSUME PublishInv, [PublishNext]_pubVars PROVE PublishInv'
    OBVIOUS
  <2>0. JobsOk /\ Heard /\ HashShape /\ ReportsStand
    BY DEF PublishInv
  <2>1. ASSUME UNCHANGED <<permits, holds, kind, job, muddled>>, Heard', HashShape',
               \A c \in News : hash'[c] \in {hash[c], "none"}
        PROVE  PublishInv'
    <3>1. JobsOk'
      BY <2>0, <2>1, SameNow DEF JobsOk
    <3>2. \A c \in News : Truth(c)' = Truth(c) /\ Awaited(c)' = Awaited(c)
      BY <2>1 DEF Truth, Now, Entry, Awaited, Reported
    <3> QED BY <2>0, <2>1, <3>1, <3>2 DEF PublishInv, ReportsStand
  <2>2. CASE HashExpires
    BY <2>0, <2>1, <2>2 DEF HashExpires, discord, Heard, HashShape, Now, NoEntries
  <2>3. CASE GatewayDrops
    BY <2>0, <2>1, <2>3 DEF GatewayDrops, Heard, HashShape
  <2>4. CASE GatewayReturns
    BY <2>0, <2>1, <2>4 DEF GatewayReturns, Heard, HashShape, Now
  <2>5. CASE (\E r \in Routes : CopyAges(r)) \/ UNCHANGED pubVars
    BY <2>0, <2>1, <2>5 DEF CopyAges, pubVars, discord, Heard, HashShape, Now
  <2>6. CASE RoleDelete
    <3>1. CASE Writers = {}
      <4>1. /\ job' = Outdated(News) /\ muddled' = News /\ permits' = FALSE
            /\ gateway' = IF listening THEN [gateway EXCEPT !.roles = FALSE] ELSE gateway
            /\ UNCHANGED <<holds, kind, listening, hash>>
        BY <2>6 DEF RoleDelete
      <4>2. JobsOk' /\ HashShape' /\ ReportsStand'
        BY <2>0, <3>1, <4>1 DEF JobsOk, Outdated, HashShape, ReportsStand
      <4>3. Heard'
        <5>1. CASE listening
          <6> DEFINE g == [gateway EXCEPT !.roles = FALSE]
          <6>1. g \in [roles : {FALSE}, member : {holds}, list : {kind}]
            <7>1. gateway = [roles |-> permits, member |-> holds, list |-> kind]
              BY <2>0, <5>1 DEF Heard, Now
            <7> QED BY <7>1
          <6>2. gateway' = g
            BY <4>1, <5>1
          <6> HIDE DEF g
          <6> QED BY <4>1, <6>1, <6>2 DEF Heard, Now
        <5>2. CASE ~listening
          BY <2>0, <4>1, <5>2 DEF Heard
        <5> QED BY <5>1, <5>2
      <4> QED BY <4>2, <4>3 DEF PublishInv
    <3>2. CASE \E w \in Writers : TRUE
      BY <2>6, <3>2, BotSteps
    <3> QED BY <3>1, <3>2
  <2> QED BY <2>2, <2>3, <2>4, <2>5, <2>6, BotSteps, WriteSteps, ReadSteps DEF PublishNext
<1>3. PublishInv => ReportsStand
  BY DEF PublishInv
<1> QED BY <1>1, <1>2, <1>3, PTL DEF PublishSpec

-----------------------------------------------------------------------------
(* Lists: what filters, sorts and joins of them keep.                        *)

(* The n-th least: the ranks of a finite set of numbers are 1 to its size,   *)
(* and a larger number has a larger rank.                                    *)
LEMMA Ranks ==
  ASSUME NEW S \in SUBSET Nat, IsFiniteSet(S)
  PROVE  /\ Cardinality(S) \in Nat
         /\ \A n \in 1..Cardinality(S) : Nth(S, n) \in S
         /\ \A n, m \in 1..Cardinality(S) : n < m => Nth(S, n) < Nth(S, m)
         /\ \A i \in S : \E n \in 1..Cardinality(S) : Nth(S, n) = i
<1> DEFINE N == Cardinality(S)
           Below(i) == {j \in S : j <= i}
           rank == [i \in S |-> Cardinality(Below(i))]
<1>1. N \in Nat
  BY FS_CardinalityType
<1>2. \A i \in S : IsFiniteSet(Below(i)) /\ Cardinality(Below(i)) \in 1..N
  <2> SUFFICES ASSUME NEW i \in S
               PROVE  IsFiniteSet(Below(i)) /\ Cardinality(Below(i)) \in 1..N
    OBVIOUS
  <2>1. IsFiniteSet(Below(i)) /\ Cardinality(Below(i)) <= N
    BY FS_Subset, Below(i) \in SUBSET S
  <2>2. Cardinality(Below(i)) \in Nat
    BY <2>1, FS_CardinalityType
  <2>3. i \in Below(i)
    OBVIOUS
  <2>4. Cardinality(Below(i)) # 0
    BY <2>1, <2>3, FS_EmptySet
  <2> QED BY <1>1, <2>1, <2>2, <2>4
<1>3. \A i, k \in S : i < k => Cardinality(Below(i)) < Cardinality(Below(k))
  <2> SUFFICES ASSUME NEW i \in S, NEW k \in S, i < k
               PROVE  Cardinality(Below(i)) < Cardinality(Below(k))
    OBVIOUS
  <2>1. Below(i) \in SUBSET Below(k)
    <3>1. i \in Nat /\ k \in Nat
      OBVIOUS
    <3>2. \A j \in S : j <= i => j <= k
      BY <3>1
    <3> QED BY <3>2
  <2>2. k \in Below(k) /\ k \notin Below(i)
    OBVIOUS
  <2>3. /\ Cardinality(Below(i)) <= Cardinality(Below(k))
        /\ Cardinality(Below(i)) # Cardinality(Below(k))
    BY <1>2, <2>1, <2>2, FS_Subset
  <2> QED BY <1>1, <1>2, <2>3
<1> HIDE DEF Below
<1>4. rank \in Injection(S, 1..N)
  <2>1. rank \in [S -> 1..N]
    BY <1>2
  <2>2. \A i, k \in S : rank[i] = rank[k] => i = k
    BY <1>1, <1>2, <1>3
  <2> QED BY <2>1, <2>2 DEF Injection, IsInjective
<1>5. rank \in Surjection(S, 1..N)
  <2>1. IsFiniteSet(1..N) /\ Cardinality(1..N) = N
    BY <1>1, FS_Interval
  <2> HIDE DEF rank
  <2> QED BY <1>4, <2>1, FS_Injection
<1>6. \A n \in 1..N : Nth(S, n) \in S /\ Cardinality(Below(Nth(S, n))) = n
  BY <1>5 DEF Surjection, Nth, Below
<1>7. \A i \in S : Nth(S, Cardinality(Below(i))) = i
  <2> SUFFICES ASSUME NEW i \in S PROVE Nth(S, Cardinality(Below(i))) = i
    OBVIOUS
  <2> DEFINE k == Nth(S, Cardinality(Below(i)))
  <2>1. k \in S /\ Cardinality(Below(k)) = Cardinality(Below(i))
    BY <1>2, <1>6
  <2> HIDE DEF k
  <2>2. k = i
    BY <1>1, <1>2, <1>3, <2>1
  <2> QED BY <2>2 DEF k
<1>8. \A n, m \in 1..N : n < m => Nth(S, n) < Nth(S, m)
  <2> SUFFICES ASSUME NEW n \in 1..N, NEW m \in 1..N, n < m PROVE Nth(S, n) < Nth(S, m)
    OBVIOUS
  <2>1. Nth(S, n) \in Nat /\ Nth(S, m) \in Nat /\ Nth(S, n) \in S /\ Nth(S, m) \in S
    BY <1>6
  <2>2. CASE Nth(S, n) = Nth(S, m)
    BY <1>1, <1>6, <2>2
  <2>3. CASE Nth(S, m) < Nth(S, n)
    BY <1>1, <1>3, <1>6, <2>1, <2>3
  <2> QED BY <2>1, <2>2, <2>3
<1> QED BY <1>1, <1>2, <1>6, <1>7, <1>8

(* A list that names each member of a set once.                              *)
Enumerates(q, S) ==
  /\ q \in Seq(S)
  /\ \A x \in S : \E i \in 1..Len(q) : q[i] = x
  /\ \A i, j \in 1..Len(q) : q[i] = q[j] => i = j

(* It is as long as the set is large, and two members stand in one order.    *)
LEMMA Enumerated ==
  ASSUME NEW S, NEW q, Enumerates(q, S)
  PROVE  /\ IsFiniteSet(S) /\ Len(q) = Cardinality(S) /\ Values(q) = S
         /\ \A x, y \in S : x # y => Precedes(q, x, y) \/ Precedes(q, y, x)
<1>1. q \in [1..Len(q) -> S] /\ Len(q) \in Nat /\ DOMAIN q = 1..Len(q)
  BY DEF Enumerates
<1>2. q \in Bijection(1..Len(q), S)
  BY <1>1 DEF Enumerates, Bijection, Injection, IsInjective, Surjection
<1>3. IsFiniteSet(1..Len(q)) /\ Cardinality(1..Len(q)) = Len(q)
  <2> DEFINE n == Len(q)
  <2>1. n \in Int /\ n >= 0
    BY <1>1
  <2> HIDE DEF n
  <2>2. IsFiniteSet(1..n) /\ Cardinality(1..n) = n
    BY <2>1, FS_Interval
  <2> QED BY <2>2 DEF n
<1>4. ExistsBijection(1..Len(q), S)
  BY <1>2 DEF ExistsBijection
<1>5. IsFiniteSet(S) /\ Len(q) = Cardinality(S)
  BY <1>3, <1>4, FS_Bijection
<1>6. Values(q) = S
  BY <1>1 DEF Enumerates, Values
<1>7. ASSUME NEW x \in S, NEW y \in S, x # y
      PROVE  Precedes(q, x, y) \/ Precedes(q, y, x)
  <2>1. PICK i \in 1..Len(q) : q[i] = x
    BY DEF Enumerates
  <2>2. PICK j \in 1..Len(q) : q[j] = y
    BY DEF Enumerates
  <2>3. i < j \/ j < i
    BY <1>1, <1>7, <2>1, <2>2
  <2> QED BY <1>1, <2>1, <2>2, <2>3 DEF Precedes
<1> QED BY <1>5, <1>6, <1>7

(* Sorted, a set of numbers is in ascending order.                           *)
LEMMA Ascends ==
  ASSUME NEW S \in SUBSET Nat, IsFiniteSet(S)
  PROVE  /\ Enumerates(Ascending(S), S)
         /\ \A x, y : Precedes(Ascending(S), x, y) => x \in S /\ y \in S /\ x < y
<1> DEFINE q == Ascending(S)
           N == Cardinality(S)
<1>1. /\ N \in Nat
      /\ \A n \in 1..N : Nth(S, n) \in S
      /\ \A n, m \in 1..N : n < m => Nth(S, n) < Nth(S, m)
      /\ \A i \in S : \E n \in 1..N : Nth(S, n) = i
  BY Ranks
<1>2. DOMAIN q = 1..N /\ \A n \in 1..N : q[n] = Nth(S, n)
  BY DEF Ascending
<1>3. q \in Seq(S) /\ Len(q) = N
  BY <1>1 DEF Ascending
<1> HIDE DEF q, N
<1>4. \A n, m \in 1..N : q[n] = q[m] => n = m
  <2> SUFFICES ASSUME NEW n \in 1..N, NEW m \in 1..N, q[n] = q[m], n # m PROVE FALSE
    OBVIOUS
  <2>1. Nth(S, n) \in Nat /\ Nth(S, n) = Nth(S, m)
    BY <1>1, <1>2
  <2>2. n < m \/ m < n
    BY <1>1
  <2>3. Nth(S, n) < Nth(S, n)
    BY <1>1, <2>1, <2>2
  <2> QED BY <2>1, <2>3
<1>5. Enumerates(q, S)
  BY <1>1, <1>2, <1>3, <1>4 DEF Enumerates
<1>6. \A x, y : Precedes(q, x, y) => x \in S /\ y \in S /\ x < y
  BY <1>1, <1>2 DEF Precedes
<1> QED BY <1>5, <1>6 DEF q

(* A part of a list names what it should, once, and keeps the order.         *)
LEMMA Picked ==
  ASSUME NEW T, NEW q, Enumerates(q, T), NEW I \in SUBSET (1..Len(q))
  PROVE  /\ Enumerates(Pick(q, I), {q[i] : i \in I})
         /\ \A x, y : Precedes(Pick(q, I), x, y) => Precedes(q, x, y)
<1> DEFINE p == Pick(q, I)
           N == Cardinality(I)
<1>1. Len(q) \in Nat /\ DOMAIN q = 1..Len(q)
  BY DEF Enumerates
<1>2. I \in SUBSET Nat /\ IsFiniteSet(I)
  <2> DEFINE n == Len(q)
  <2>1. n \in Int /\ I \in SUBSET (1..n)
    BY <1>1
  <2> HIDE DEF n
  <2>2. IsFiniteSet(1..n)
    BY <2>1, FS_Interval
  <2>3. IsFiniteSet(I)
    BY <2>1, <2>2, FS_Subset
  <2>4. I \in SUBSET Nat
    BY <2>1
  <2> QED BY <2>3, <2>4
<1>3. /\ N \in Nat
      /\ \A n \in 1..N : Nth(I, n) \in I
      /\ \A n, m \in 1..N : n < m => Nth(I, n) < Nth(I, m)
      /\ \A i \in I : \E n \in 1..N : Nth(I, n) = i
  BY <1>2, Ranks
<1>4. DOMAIN p = 1..N /\ \A n \in 1..N : p[n] = q[Nth(I, n)]
  BY DEF Pick
<1>5. p \in Seq({q[i] : i \in I}) /\ Len(p) = N
  BY <1>3 DEF Pick
<1> HIDE DEF p, N
<1>6. \A n, m \in 1..N : p[n] = p[m] => n = m
  <2> SUFFICES ASSUME NEW n \in 1..N, NEW m \in 1..N, p[n] = p[m], n # m PROVE FALSE
    OBVIOUS
  <2>1. Nth(I, n) \in 1..Len(q) /\ Nth(I, m) \in 1..Len(q) /\ q[Nth(I, n)] = q[Nth(I, m)]
    BY <1>3, <1>4
  <2>2. Nth(I, n) = Nth(I, m) /\ Nth(I, n) \in Nat
    BY <1>1, <2>1 DEF Enumerates
  <2>3. n < m \/ m < n
    BY <1>3
  <2>4. Nth(I, n) < Nth(I, n)
    BY <1>3, <2>2, <2>3
  <2> QED BY <2>2, <2>4
<1>7. \A x \in {q[i] : i \in I} : \E n \in 1..N : p[n] = x
  BY <1>3, <1>4
<1>8. Enumerates(p, {q[i] : i \in I})
  BY <1>5, <1>6, <1>7 DEF Enumerates
<1>9. \A x, y : Precedes(p, x, y) => Precedes(q, x, y)
  <2> SUFFICES ASSUME NEW x, NEW y, Precedes(p, x, y) PROVE Precedes(q, x, y)
    OBVIOUS
  <2>1. PICK n \in 1..N, m \in 1..N : n < m /\ p[n] = x /\ p[m] = y
    BY <1>4 DEF Precedes
  <2>2. Nth(I, n) \in DOMAIN q /\ Nth(I, m) \in DOMAIN q /\ Nth(I, n) < Nth(I, m)
    BY <1>1, <1>3, <2>1
  <2> QED BY <1>4, <2>1, <2>2 DEF Precedes
<1> QED BY <1>8, <1>9 DEF p

LEMMA ThosePicked ==
  ASSUME NEW T, NEW q, Enumerates(q, T), NEW S
  PROVE  /\ Enumerates(Those(q, S), T \cap S) /\ Enumerates(TheRest(q, S), T \ S)
         /\ \A x, y : Precedes(Those(q, S), x, y) => x \in S /\ y \in S /\ Precedes(q, x, y)
         /\ \A x, y : Precedes(TheRest(q, S), x, y)
                        => x \notin S /\ y \notin S /\ Precedes(q, x, y)
<1> DEFINE I == {i \in DOMAIN q : q[i] \in S}
           J == {i \in DOMAIN q : q[i] \notin S}
<1>1. DOMAIN q = 1..Len(q) /\ \A i \in DOMAIN q : q[i] \in T
  BY DEF Enumerates
<1>2. I \in SUBSET (1..Len(q)) /\ J \in SUBSET (1..Len(q))
  BY <1>1
<1>3. {q[i] : i \in I} = T \cap S /\ {q[i] : i \in J} = T \ S
  BY <1>1 DEF Enumerates
<1> HIDE DEF I, J
<1>4. /\ Enumerates(Pick(q, I), T \cap S)
      /\ \A x, y : Precedes(Pick(q, I), x, y) => Precedes(q, x, y)
  <2>1. /\ Enumerates(Pick(q, I), {q[i] : i \in I})
        /\ \A x, y : Precedes(Pick(q, I), x, y) => Precedes(q, x, y)
    BY <1>2, Picked
  <2> QED BY <1>3, <2>1
<1>5. /\ Enumerates(Pick(q, J), T \ S)
      /\ \A x, y : Precedes(Pick(q, J), x, y) => Precedes(q, x, y)
  <2>1. /\ Enumerates(Pick(q, J), {q[i] : i \in J})
        /\ \A x, y : Precedes(Pick(q, J), x, y) => Precedes(q, x, y)
    BY <1>2, Picked
  <2> QED BY <1>3, <2>1
<1>6. \A p, R, x, y : Enumerates(p, R) /\ Precedes(p, x, y) => x \in R /\ y \in R
  BY DEF Enumerates, Precedes
<1>7. Pick(q, I) = Those(q, S) /\ Pick(q, J) = TheRest(q, S)
  BY DEF I, J, Those, TheRest
<1> QED BY <1>4, <1>5, <1>6, <1>7

(* Two lists of different things, one behind the other.                      *)
LEMMA Joined ==
  ASSUME NEW S, NEW T, NEW p, NEW q, Enumerates(p, S), Enumerates(q, T), S \cap T = {}
  PROVE  /\ Enumerates(p \o q, S \cup T)
         /\ \A x, y : Precedes(p \o q, x, y)
                        => Precedes(p, x, y) \/ Precedes(q, x, y) \/ (x \in S /\ y \in T)
<1> DEFINE r == p \o q
           M == Len(p)
           N == Len(q)
<1>1. /\ M \in Nat /\ N \in Nat /\ DOMAIN p = 1..M /\ DOMAIN q = 1..N
      /\ p \in Seq(S) /\ q \in Seq(T)
  BY DEF Enumerates
<1>2. /\ r \in Seq(S \cup T) /\ Len(r) = M + N /\ DOMAIN r = 1..(M + N)
      /\ \A i \in 1..(M + N) : r[i] = IF i <= M THEN p[i] ELSE q[i - M]
  BY <1>1
<1>3. /\ \A i \in 1..M : i \in 1..(M + N) /\ r[i] = p[i] /\ r[i] \in S
      /\ \A i \in 1..N : M + i \in 1..(M + N) /\ r[M + i] = q[i] /\ r[M + i] \in T
      /\ \A i \in 1..(M + N) : i \in 1..M \/ i - M \in 1..N
      /\ \A i \in 1..(M + N) : i \notin 1..M => r[i] = q[i - M] /\ i - M \in 1..N /\ r[i] \in T
  BY <1>1, <1>2
<1> HIDE DEF r, M, N
<1>4. \A i, j \in 1..(M + N) : r[i] = r[j] => i = j
  <2> SUFFICES ASSUME NEW i \in 1..(M + N), NEW j \in 1..(M + N), r[i] = r[j] PROVE i = j
    OBVIOUS
  <2>1. CASE i \in 1..M /\ j \in 1..M
    BY <1>3, <2>1 DEF Enumerates, M
  <2>2. CASE i \notin 1..M /\ j \notin 1..M
    <3>1. q[i - M] = q[j - M] /\ i - M \in 1..N /\ j - M \in 1..N
      BY <1>3, <2>2
    <3>2. i - M = j - M
      BY <3>1 DEF Enumerates, N
    <3> QED BY <1>1, <3>2
  <2> QED BY <1>3, <2>1, <2>2
<1>5. \A x \in S \cup T : \E i \in 1..(M + N) : r[i] = x
  <2> SUFFICES ASSUME NEW x \in S \cup T PROVE \E i \in 1..(M + N) : r[i] = x
    OBVIOUS
  <2>1. CASE x \in S
    <3>1. PICK i \in 1..M : p[i] = x
      BY <2>1 DEF Enumerates, M
    <3> QED BY <1>3, <3>1
  <2>2. CASE x \in T
    <3>1. PICK i \in 1..N : q[i] = x
      BY <2>2 DEF Enumerates, N
    <3>2. M + i \in 1..(M + N) /\ r[M + i] = x
      BY <1>3, <3>1
    <3> QED BY <3>2
  <2> QED BY <2>1, <2>2
<1>6. Enumerates(r, S \cup T)
  BY <1>2, <1>4, <1>5 DEF Enumerates
<1>7. ASSUME NEW x, NEW y, Precedes(r, x, y)
      PROVE  Precedes(p, x, y) \/ Precedes(q, x, y) \/ (x \in S /\ y \in T)
  <2>1. PICK i \in 1..(M + N), j \in 1..(M + N) : i < j /\ r[i] = x /\ r[j] = y
    BY <1>2, <1>7 DEF Precedes
  <2>2. CASE j \in 1..M
    <3>1. i \in 1..M
      BY <1>1, <2>1, <2>2
    <3> QED BY <1>1, <1>3, <2>1, <2>2, <3>1 DEF Precedes
  <2>3. CASE i \notin 1..M
    <3>1. j \notin 1..M /\ i - M < j - M
      BY <1>1, <2>1, <2>3
    <3> QED BY <1>1, <1>3, <2>1, <2>3, <3>1 DEF Precedes
  <2>4. CASE i \in 1..M /\ j \notin 1..M
    BY <1>3, <2>1, <2>4
  <2> QED BY <2>2, <2>3, <2>4
<1> QED BY <1>6, <1>7 DEF r

(* A stable sort by one rank.                                                *)
LEMMA SortedFirst ==
  ASSUME NEW T, NEW q, Enumerates(q, T), NEW S
  PROVE  /\ Enumerates(FirstThose(q, S), T)
         /\ \A x, y : Precedes(FirstThose(q, S), x, y)
                        => \/ x \in S /\ y \notin S
                           \/ (x \in S <=> y \in S) /\ Precedes(q, x, y)
<1>1. (T \cap S) \cap (T \ S) = {} /\ (T \cap S) \cup (T \ S) = T
  OBVIOUS
<1>2. /\ Enumerates(FirstThose(q, S), T)
      /\ \A x, y : Precedes(FirstThose(q, S), x, y)
                     => \/ Precedes(Those(q, S), x, y) \/ Precedes(TheRest(q, S), x, y)
                        \/ (x \in T \cap S /\ y \in T \ S)
  <2>1. Enumerates(Those(q, S), T \cap S) /\ Enumerates(TheRest(q, S), T \ S)
    BY ThosePicked
  <2> DEFINE A == T \cap S
             B == T \ S
  <2> HIDE DEF A, B
  <2>2. /\ Enumerates(Those(q, S) \o TheRest(q, S), A \cup B)
        /\ \A x, y : Precedes(Those(q, S) \o TheRest(q, S), x, y)
                       => \/ Precedes(Those(q, S), x, y) \/ Precedes(TheRest(q, S), x, y)
                          \/ (x \in A /\ y \in B)
    BY <1>1, <2>1, Joined DEF A, B
  <2> QED BY <1>1, <2>2 DEF FirstThose, A, B
<1> QED BY <1>2, ThosePicked

(* The first few of a list.                                                  *)
LEMMA Shortened ==
  ASSUME NEW T, NEW q, Enumerates(q, T), NEW n \in Nat
  PROVE  LET p == Shorten(q, n) IN
         /\ p \in Seq(T) /\ Len(p) = IF Len(q) < n THEN Len(q) ELSE n
         /\ \A x, y : Precedes(p, x, y) => Precedes(q, x, y)
         /\ \A x \in T : x \in Values(p) \/ \A y \in Values(p) : Precedes(q, y, x)
<1> DEFINE p == Shorten(q, n)
           N == IF Len(q) < n THEN Len(q) ELSE n
<1>1. q \in Seq(T) /\ Len(q) \in Nat /\ DOMAIN q = 1..Len(q) /\ N \in 0..Len(q)
  BY DEF Enumerates
<1>2. p \in Seq(T) /\ Len(p) = N /\ DOMAIN p = 1..N /\ \A i \in 1..N : p[i] = q[i]
  BY <1>1 DEF Shorten
<1> HIDE DEF p, N
<1>3. \A x, y : Precedes(p, x, y) => Precedes(q, x, y)
  BY <1>1, <1>2 DEF Precedes
<1>4. ASSUME NEW x \in T, x \notin Values(p), NEW y \in Values(p)
      PROVE  Precedes(q, y, x)
  <2>1. PICK k \in 1..Len(q) : q[k] = x
    BY DEF Enumerates
  <2>2. k \notin 1..N
    BY <1>2, <1>4, <2>1 DEF Values
  <2>3. PICK i \in 1..N : q[i] = y
    BY <1>2, <1>4 DEF Values
  <2>4. i < k /\ i \in DOMAIN q /\ k \in DOMAIN q
    BY <1>1, <2>2
  <2> QED BY <2>1, <2>3, <2>4 DEF Precedes
<1> QED BY <1>2, <1>3, <1>4 DEF p, N

(* However a query answers, it names each row once.                          *)
LEMMA OrderEnumerates ==
  ASSUME NEW S, IsFiniteSet(S), NEW order \in Orders(S)
  PROVE  Enumerates(order, S)
<1> DEFINE N == Cardinality(S)
<1>1. N \in Nat
  BY FS_CardinalityType
<1>2. order \in [1..N -> S] /\ \A i, j \in 1..N : order[i] = order[j] => i = j
  BY DEF Orders
<1> HIDE DEF N
<1>3. order \in Injection(1..N, S)
  BY <1>2 DEF Injection, IsInjective
<1>4. Cardinality(1..N) = N
  BY <1>1, FS_Interval
<1>5. order \in Surjection(1..N, S)
  BY <1>3, <1>4, FS_Injection DEF N
<1>6. order \in Seq(S) /\ Len(order) = N
  BY <1>1, <1>2
<1> QED BY <1>2, <1>5, <1>6 DEF Enumerates, Surjection

-----------------------------------------------------------------------------
(* Two surfaces, one guild.                                                  *)

(* Channels that have a place stand in it.                                   *)
Rising(ids, placed) == \A x, y \in placed : Precedes(ids, x, y) => x < y

(* What the dashboard lists: what Discord does and what has a row.           *)
Listed(s) == {c \in Channels : Announces(s.health[c]) \/ s.rows[c] # "off"}

LEMMA DashboardIds ==
  ASSUME NEW s \in Sites, NEW stored \in Orders(Hidden(s)), NEW S
  PROVE  /\ Enumerates(Those(DashboardOrder(s, stored), S), Listed(s) \cap S)
         /\ Rising(Those(DashboardOrder(s, stored), S), Visible(s))
<1> DEFINE A == {c \in Visible(s) : Announces(s.health[c]) \/ s.rows[c] # "off"}
           B == {c \in Hidden(s) : s.rows[c] # "off"}
           ids == DashboardOrder(s, stored)
<1>1. A \in SUBSET Channels /\ A \cap B = {} /\ A \cup (Hidden(s) \cap B) = Listed(s)
  BY DEF Listed, Visible, Hidden, Announces
<1>2. IsFiniteSet(A) /\ A \in SUBSET Nat /\ IsFiniteSet(Hidden(s))
  BY <1>1, OverviewAssumption, FS_Subset, Hidden(s) \in SUBSET Channels DEF Hidden
<1>3. ids = Ascending(A) \o Those(stored, B)
  BY DEF DashboardOrder
<1>4. \A x \in Visible(s) : x \notin B
  BY DEF Hidden
<1> HIDE DEF A, B, ids
<1>5. Enumerates(Ascending(A), A) /\ \A x, y : Precedes(Ascending(A), x, y) => x < y
  BY <1>2, Ascends
<1>6. /\ Enumerates(Those(stored, B), Hidden(s) \cap B)
      /\ \A x, y : Precedes(Those(stored, B), x, y) => x \in B
  <2>1. Enumerates(stored, Hidden(s))
    BY <1>2, OrderEnumerates
  <2> QED BY <2>1, ThosePicked
<1>7. /\ Enumerates(ids, Listed(s))
      /\ \A x, y : Precedes(ids, x, y)
                     => \/ Precedes(Ascending(A), x, y) \/ Precedes(Those(stored, B), x, y)
                        \/ (x \in A /\ y \in Hidden(s) \cap B)
  <2>1. A \cap (Hidden(s) \cap B) = {}
    BY <1>1
  <2>2. /\ Enumerates(ids, A \cup (Hidden(s) \cap B))
        /\ \A x, y : Precedes(ids, x, y)
                       => \/ Precedes(Ascending(A), x, y) \/ Precedes(Those(stored, B), x, y)
                          \/ (x \in A /\ y \in Hidden(s) \cap B)
    BY <1>3, <1>5, <1>6, <2>1, Joined
  <2> QED BY <1>1, <2>2
<1>8. Rising(ids, Visible(s))
  BY <1>4, <1>5, <1>6, <1>7 DEF Rising
<1>9. Rising(Those(ids, S), Visible(s))
  <2>1. \A x, y : Precedes(Those(ids, S), x, y) => Precedes(ids, x, y)
    BY <1>7, ThosePicked
  <2> QED BY <1>8, <2>1 DEF Rising
<1> QED BY <1>7, <1>9, ThosePicked DEF ids

(* The bot's: the roots, what is hidden from it, the channels of categories. *)
LEMMA BotIds ==
  ASSUME NEW s \in Sites, NEW order \in Orders(Hidden(s)), NEW S \in SUBSET Channels
  PROVE  /\ Enumerates(BotOrder(s, S, "member", order), S)
         /\ Rising(BotOrder(s, S, "member", order), Visible(s))
<1> DEFINE A == (S \ Hidden(s)) \cap Roots
           B == Hidden(s) \cap S
           C == (S \ Hidden(s)) \ Roots
           ids == BotOrder(s, S, "member", order)
<1>1. /\ A \in SUBSET Channels /\ C \in SUBSET Channels /\ A \cap B = {}
      /\ (A \cup B) \cap C = {} /\ (A \cup B) \cup C = S
      /\ \A x \in Visible(s) : x \notin B
  BY OverviewAssumption DEF Hidden, Visible
<1>2. /\ IsFiniteSet(A) /\ A \in SUBSET Nat /\ IsFiniteSet(C) /\ C \in SUBSET Nat
      /\ IsFiniteSet(Hidden(s))
  BY <1>1, OverviewAssumption, FS_Subset, Hidden(s) \in SUBSET Channels DEF Hidden
<1>3. ids = (Ascending(A) \o Those(order, S)) \o Ascending(C)
  BY DEF BotOrder, Unplaced
<1>4. \A x \in A, y \in C : x < y
  BY OverviewAssumption
<1> HIDE DEF A, B, C, ids
<1>5. /\ Enumerates(Ascending(A), A) /\ \A x, y : Precedes(Ascending(A), x, y) => x < y
      /\ Enumerates(Ascending(C), C) /\ \A x, y : Precedes(Ascending(C), x, y) => x < y
  BY <1>2, Ascends
<1>6. /\ Enumerates(Those(order, S), B)
      /\ \A x, y : Precedes(Those(order, S), x, y) => x \in B
  <2>1. /\ Enumerates(Those(order, S), Hidden(s) \cap S)
    BY <1>2, OrderEnumerates, ThosePicked
  <2> QED BY <2>1 DEF B, Enumerates, Precedes
<1> DEFINE head == Ascending(A) \o Those(order, S)
<1>7. /\ Enumerates(head, A \cup B)
      /\ \A x, y : Precedes(head, x, y)
                     => \/ Precedes(Ascending(A), x, y) \/ Precedes(Those(order, S), x, y)
                        \/ (x \in A /\ y \in B)
  BY <1>1, <1>5, <1>6, Joined
<1>8. \A x, y : Precedes(head, x, y) => x \in A \cup B
  BY <1>7 DEF Enumerates, Precedes
<1> HIDE DEF head
<1> DEFINE D == A \cup B
<1>9. /\ Enumerates(ids, S)
      /\ \A x, y : Precedes(ids, x, y)
                     => \/ Precedes(head, x, y) \/ Precedes(Ascending(C), x, y)
                        \/ (x \in D /\ y \in C)
  <2>1. Enumerates(head, D) /\ D \cap C = {} /\ D \cup C = S
    BY <1>1, <1>7
  <2> HIDE DEF D
  <2>2. /\ Enumerates(head \o Ascending(C), D \cup C)
        /\ \A x, y : Precedes(head \o Ascending(C), x, y)
                       => \/ Precedes(head, x, y) \/ Precedes(Ascending(C), x, y)
                          \/ (x \in D /\ y \in C)
    BY <1>5, <2>1, Joined
  <2>3. ids = head \o Ascending(C)
    BY <1>3 DEF head
  <2> QED BY <2>1, <2>2, <2>3
<1>10. Rising(ids, Visible(s))
  BY <1>1, <1>4, <1>5, <1>6, <1>7, <1>9 DEF Rising
<1> QED BY <1>9, <1>10 DEF ids

(* A row stands above another: broken first, then by its place.              *)
RowLess(x, y) == (~x.ok /\ y.ok) \/ ((x.ok <=> y.ok) /\ x.id < y.id)

(* The channels as rows, what cannot publish first.                          *)
AsRows(s, ids) == FirstThose([i \in DOMAIN ids |-> DashboardRow(s, ids[i])], Broken)

RowsOf(s, S) == {DashboardRow(s, c) : c \in S}
Wrong(s, S) == {c \in S : s.health[c] # "ok"}

LEMMA RowsListed ==
  ASSUME NEW s \in Sites, NEW S \in SUBSET Channels, NEW ids,
         Enumerates(ids, S), Rising(ids, Visible(s))
  PROVE  LET list == AsRows(s, ids) IN
         /\ Enumerates(list, RowsOf(s, S))
         /\ \A x, y \in RowsOf(s, S \cap Visible(s)) : Precedes(list, x, y) => RowLess(x, y)
         /\ \A x, y : Precedes(list, x, y) /\ y \in Broken => x \in Broken
         /\ Len(list) = Cardinality(S)
         /\ Len(Those(list, Broken)) = Cardinality(Wrong(s, S))
<1> DEFINE rows == [i \in DOMAIN ids |-> DashboardRow(s, ids[i])]
           R == RowsOf(s, S)
           list == AsRows(s, ids)
<1>1. /\ Len(ids) \in Nat /\ DOMAIN ids = 1..Len(ids) /\ \A i \in 1..Len(ids) : ids[i] \in S
  BY DEF Enumerates
<1>2. \A c \in S : DashboardRow(s, c).id = c
  BY DEF DashboardRow
<1>ok. \A c \in S : DashboardRow(s, c).ok = (s.health[c] = "ok")
  BY DEF DashboardRow
<1>br. \A c \in S : DashboardRow(s, c) \in Broken <=> s.health[c] # "ok"
  <2>1. \A c \in S : DashboardRow(s, c) \in Verdicts
    BY DEF DashboardRow, Verdicts
  <2> QED BY <1>ok, <2>1 DEF Broken
<1>3. rows \in Seq(R) /\ Len(rows) = Len(ids) /\ DOMAIN rows = 1..Len(ids)
      /\ \A i \in 1..Len(ids) : rows[i] = DashboardRow(s, ids[i])
  BY <1>1 DEF RowsOf
<1>li. list = FirstThose(rows, Broken)
  BY DEF AsRows
<1> HIDE DEF rows, list
<1>4. Enumerates(rows, R)
  <2>1. ASSUME NEW i \in 1..Len(ids), NEW j \in 1..Len(ids), rows[i] = rows[j]
        PROVE  i = j
    <3>1. ids[i] = ids[j]
      BY <1>1, <1>2, <1>3, <2>1
    <3> QED BY <3>1 DEF Enumerates
  <2>2. ASSUME NEW x \in R
        PROVE  \E i \in 1..Len(ids) : rows[i] = x
    <3>1. PICK c \in S : x = DashboardRow(s, c)
      BY <2>2 DEF RowsOf
    <3>2. PICK i \in 1..Len(ids) : ids[i] = c
      BY DEF Enumerates
    <3> QED BY <1>3, <3>1, <3>2
  <2> QED BY <1>3, <2>1, <2>2 DEF Enumerates
<1>5. /\ Enumerates(list, R)
      /\ \A x, y : Precedes(list, x, y)
                     => \/ x \in Broken /\ y \notin Broken
                        \/ (x \in Broken <=> y \in Broken) /\ Precedes(rows, x, y)
  <2> QED BY <1>4, <1>li, SortedFirst
<1>6. \A x, y : Precedes(rows, x, y) => Precedes(ids, x.id, y.id)
  <2> SUFFICES ASSUME NEW x, NEW y, Precedes(rows, x, y) PROVE Precedes(ids, x.id, y.id)
    OBVIOUS
  <2>1. PICK i \in 1..Len(ids), j \in 1..Len(ids) : i < j /\ rows[i] = x /\ rows[j] = y
    BY <1>3 DEF Precedes
  <2>2. ids[i] = x.id /\ ids[j] = y.id
    BY <1>1, <1>2, <1>3, <2>1
  <2> QED BY <1>1, <2>1, <2>2 DEF Precedes
<1>7. ASSUME NEW c \in S \cap Visible(s), NEW d \in S \cap Visible(s),
             Precedes(list, DashboardRow(s, c), DashboardRow(s, d))
      PROVE  RowLess(DashboardRow(s, c), DashboardRow(s, d))
  <2>1. CASE DashboardRow(s, c) \in Broken /\ DashboardRow(s, d) \notin Broken
    BY <1>ok, <1>br, <2>1 DEF RowLess
  <2>2. CASE /\ DashboardRow(s, c) \in Broken <=> DashboardRow(s, d) \in Broken
             /\ Precedes(rows, DashboardRow(s, c), DashboardRow(s, d))
    <3>1. Precedes(ids, c, d)
      BY <1>2, <1>6, <2>2
    <3>2. c < d
      BY <3>1 DEF Rising
    <3> QED BY <1>2, <1>ok, <1>br, <2>2, <3>2 DEF RowLess
  <2> QED BY <1>5, <1>7, <2>1, <2>2
<1>8. Len(list) = Cardinality(S)
  <2>1. Len(list) = Cardinality(R) /\ Len(rows) = Cardinality(R)
    BY <1>4, <1>5, Enumerated
  <2>2. Len(ids) = Cardinality(S)
    BY Enumerated
  <2> QED BY <1>3, <2>1, <2>2
<1>9. Len(Those(list, Broken)) = Cardinality(Wrong(s, S))
  <2> DEFINE T == Wrong(s, S)
             f == [c \in T |-> DashboardRow(s, c)]
  <2>1. Enumerates(Those(list, Broken), R \cap Broken)
    BY <1>5, ThosePicked
  <2>2. Len(Those(list, Broken)) = Cardinality(R \cap Broken)
    BY <2>1, Enumerated
  <2>3. f \in Bijection(T, R \cap Broken)
    <3>1. f \in [T -> R \cap Broken]
      BY <1>br DEF RowsOf, Wrong
    <3>2. \A c, d \in T : f[c] = f[d] => c = d
      BY <1>2 DEF Wrong
    <3>3. \A x \in R \cap Broken : \E c \in T : f[c] = x
      BY <1>br DEF RowsOf, Wrong
    <3> QED BY <3>1, <3>2, <3>3 DEF Bijection, Injection, IsInjective, Surjection
  <2>4. IsFiniteSet(T)
    BY OverviewAssumption, FS_Subset, T \in SUBSET Channels DEF Wrong
  <2>5. Cardinality(R \cap Broken) = Cardinality(T)
    BY <2>3, <2>4, FS_Bijection DEF ExistsBijection
  <2> QED BY <2>2, <2>5
<1>10. \A x, y \in RowsOf(s, S \cap Visible(s)) : Precedes(list, x, y) => RowLess(x, y)
  BY <1>7 DEF RowsOf
<1>11. \A x, y : Precedes(list, x, y) /\ y \in Broken => x \in Broken
  BY <1>5
<1> HIDE DEF R
<1>12. Enumerates(list, RowsOf(s, S))
  BY <1>5 DEF R
<1> QED BY <1>8, <1>9, <1>10, <1>11, <1>12 DEF list

(* Where the two agree on the channels, the bot's reply says what the page   *)
(* does: both lists are sorted, as far as the channels have a place.         *)
LEMMA SameWords ==
  ASSUME NEW s \in Sites, NEW order \in Orders(Hidden(s)), NEW stored \in Orders(Hidden(s)),
         s.migrated \/ \A c \in Channels : s.rows[c] = "off"
  PROVE  SaysAsPage(s, Reply(s, "member", order), stored)
<1> DEFINE r == Reply(s, "member", order)
           web(S) == Those(DashboardOrder(s, stored), S)
<1>1. \A S : /\ DashboardList(s, S, stored) = AsRows(s, web(S))
              /\ Enumerates(web(S), Listed(s) \cap S) /\ Rising(web(S), Visible(s))
  BY DashboardIds DEF DashboardList, AsRows
<1> HIDE DEF web
<1>2. CASE ~s.migrated
  <2> DEFINE A == {c \in Channels : Announces(s.health[c])}
             all == AsRows(s, web(Channels))
  <2>1. Listed(s) \cap Channels = A
    BY <1>2 DEF Listed
  <2>2. /\ Len(all) = Cardinality(A)
        /\ Len(Those(all, Broken)) = Cardinality(Wrong(s, A))
    <3>1. A \in SUBSET Channels
      OBVIOUS
    <3> HIDE DEF A
    <3>2. Enumerates(web(Channels), A) /\ Rising(web(Channels), Visible(s))
      BY <1>1, <2>1
    <3> QED BY <3>1, <3>2, RowsListed
  <2>3. /\ r.view = "legacy" /\ r.more = Cardinality(A)
        /\ r.blocked = Cardinality(Wrong(s, A))
    BY <1>2 DEF Reply, LegacyReply, NoReply, Wrong
  <2>4. DashboardList(s, IF s.migrated THEN Serving(s) ELSE Channels, stored) = all
    BY <1>1, <1>2
  <2> HIDE DEF r, A, all
  <2> QED BY <2>2, <2>3, <2>4 DEF SaysAsPage, r
<1>3. CASE s.migrated
  <2> DEFINE S == Serving(s)
             P == Paused(s)
             all == AsRows(s, web(S))
             ids == BotOrder(s, S, "member", order)
             built == AsRows(s, ids)
             R == RowsOf(s, S)
             sunk == BotOrder(s, P, "member", order)
  <2>1. /\ S \in SUBSET Channels /\ Listed(s) \cap S = S
        /\ P \in SUBSET Channels /\ Listed(s) \cap P = P
    BY DEF Serving, Paused, Listed
  <2>2. /\ r.view # "legacy" /\ r.list = Shorten(built, MaxListed)
        /\ r.more = Len(built) - Len(Shorten(built, MaxListed))
        /\ r.blocked = Len(Those(built, Broken)) /\ r.paused = Shorten(sunk, MaxPaused)
    <3>1. BuildOverviewChannels(s, "member", order) = built
      <4>1. \A c : [id |-> c, ok |-> CanPublish(s, c, "member")] = DashboardRow(s, c)
        <5> SUFFICES ASSUME NEW c
                     PROVE  CanPublish(s, c, "member") = (s.health[c] = "ok")
          BY DEF DashboardRow
        <5> QED BY DEF CanPublish
      <4> QED BY <4>1 DEF BuildOverviewChannels, AsRows
    <3>2. r = [view |-> IF Serving(s) = {} /\ Paused(s) = {} THEN "empty" ELSE "list",
               list |-> Shorten(built, MaxListed),
               more |-> Len(built) - Len(Shorten(built, MaxListed)),
               blocked |-> Len(Those(built, Broken)),
               paused |-> Shorten(sunk, MaxPaused), reason |-> PausedReason(s),
               cache |-> "member"]
      BY <1>3, <3>1 DEF Reply
    <3> HIDE DEF r, built, sunk
    <3> QED BY <3>2
  <2> HIDE DEF r
  <2>3. /\ Enumerates(web(S), S) /\ Rising(web(S), Visible(s))
        /\ Enumerates(web(P), P) /\ Rising(web(P), Visible(s))
        /\ Enumerates(ids, S) /\ Rising(ids, Visible(s))
        /\ Enumerates(sunk, P) /\ Rising(sunk, Visible(s))
    BY <1>1, <2>1, BotIds
  <2> DEFINE placed == RowsOf(s, S \cap Visible(s))
             wrong == Cardinality(Wrong(s, S))
  <2> HIDE DEF S, P, ids, sunk, placed, wrong
  <2>4. ASSUME NEW q, Enumerates(q, S), Rising(q, Visible(s))
        PROVE  /\ Enumerates(AsRows(s, q), R) /\ Len(AsRows(s, q)) = Cardinality(S)
               /\ Len(Those(AsRows(s, q), Broken)) = wrong
               /\ \A x, y \in placed : Precedes(AsRows(s, q), x, y) => RowLess(x, y)
               /\ \A x, y : Precedes(AsRows(s, q), x, y) /\ y \in Broken => x \in Broken
    <3>1. S \in SUBSET Channels
      BY <2>1
    <3>2. Enumerates(AsRows(s, q), RowsOf(s, S))
      BY <2>4, <3>1, RowsListed
    <3>3. Len(AsRows(s, q)) = Cardinality(S)
      BY <2>4, <3>1, RowsListed
    <3>4. Len(Those(AsRows(s, q), Broken)) = Cardinality(Wrong(s, S))
      BY <2>4, <3>1, RowsListed
    <3>5. \A x, y \in RowsOf(s, S \cap Visible(s)) :
            Precedes(AsRows(s, q), x, y) => RowLess(x, y)
      BY <2>4, <3>1, RowsListed
    <3>6. \A x, y : Precedes(AsRows(s, q), x, y) /\ y \in Broken => x \in Broken
      BY <2>4, <3>1, RowsListed
    <3> QED BY <3>2, <3>3, <3>4, <3>5, <3>6 DEF placed, wrong
  <2> HIDE DEF R
  <2>5. /\ Enumerates(all, R) /\ Len(all) = Cardinality(S) /\ Len(Those(all, Broken)) = wrong
        /\ \A x, y \in placed : Precedes(all, x, y) => RowLess(x, y)
        /\ Enumerates(built, R) /\ Len(built) = Cardinality(S)
        /\ Len(Those(built, Broken)) = wrong
        /\ \A x, y \in placed : Precedes(built, x, y) => RowLess(x, y)
        /\ \A x, y : Precedes(built, x, y) /\ y \in Broken => x \in Broken
    BY <2>3, <2>4
  <2>6. \A x, y \in placed : RowLess(x, y) => ~RowLess(y, x)
    <3>1. \A x \in placed : x \in Verdicts
      <4>1. \A c \in S : DashboardRow(s, c) \in Verdicts
        BY <2>1 DEF DashboardRow, Verdicts
      <4> QED BY <4>1 DEF RowsOf, placed
    <3>2. \A x \in placed : x.id \in Nat /\ x.ok \in BOOLEAN
      BY <3>1, OverviewAssumption DEF Verdicts
    <3> QED BY <3>2 DEF RowLess
  <2>7. placed = R \cap {x \in Verdicts : x.id \in Visible(s)}
    <3>1. \A c \in S : DashboardRow(s, c) \in Verdicts /\ DashboardRow(s, c).id = c
      BY <2>1 DEF DashboardRow, Verdicts
    <3> QED BY <3>1 DEF R, RowsOf, placed
  <2> HIDE DEF all, built
  <2> DEFINE list == Shorten(built, MaxListed)
  <2>8. /\ MaxListed \in Nat \ {0} /\ MaxPaused \in Nat \ {0}
    BY OverviewAssumption
  <2>9. /\ r.list = list /\ list \in Seq(R)
        /\ Len(list) = IF Len(built) < MaxListed THEN Len(built) ELSE MaxListed
        /\ \A x, y : Precedes(list, x, y) => Precedes(built, x, y)
        /\ \A x \in R : x \in Values(list) \/ \A y \in Values(list) : Precedes(built, y, x)
    BY <2>2, <2>5, <2>8, Shortened
  <2> HIDE DEF list
  <2>10. Values(all) = R /\ \A x, y \in R : x # y => Precedes(all, x, y) \/ Precedes(all, y, x)
    BY <2>5, Enumerated
  <2>11. Values(list) \subseteq R
    BY <2>9 DEF Values
  <2>12. InPageOrder(list, all, {x \in Verdicts : x.id \in Visible(s)})
    <3> SUFFICES ASSUME NEW x \in placed, NEW y \in placed, Precedes(list, x, y)
                 PROVE  Precedes(all, x, y)
      BY <2>7, <2>10, <2>11 DEF InPageOrder
    <3>1. RowLess(x, y) /\ ~RowLess(y, x)
      BY <2>5, <2>6, <2>9
    <3>2. x # y /\ x \in R /\ y \in R
      BY <2>7, <3>1
    <3> QED BY <2>5, <2>10, <3>1, <3>2
  <2>13. Broken \cap Values(all) \subseteq Values(list) \/ Values(list) \subseteq Broken
    BY <2>5, <2>9, <2>10
  <2>14. InPageOrder(Shorten(sunk, MaxPaused), web(P), Visible(s))
    <3> DEFINE few == Shorten(sunk, MaxPaused)
    <3>1. few \in Seq(P) /\ \A x, y : Precedes(few, x, y) => Precedes(sunk, x, y)
      BY <2>3, <2>8, Shortened
    <3> HIDE DEF few
    <3>2. Values(few) \subseteq P
      BY <3>1 DEF Values
    <3>3. /\ Values(web(P)) = P
          /\ \A x, y \in P : x # y => Precedes(web(P), x, y) \/ Precedes(web(P), y, x)
      BY <2>3, Enumerated
    <3> SUFFICES ASSUME NEW x \in P \cap Visible(s), NEW y \in P \cap Visible(s),
                        Precedes(few, x, y)
                 PROVE  Precedes(web(P), x, y)
      BY <3>2, <3>3 DEF InPageOrder, few
    <3>4. x \in Nat /\ y \in Nat /\ x < y
      BY <2>1, <2>3, <3>1, OverviewAssumption DEF Rising
    <3> QED BY <2>3, <3>3, <3>4 DEF Rising
  <2>15. NeedsFixing([site |-> s]) = Wrong(s, S)
    BY <1>3 DEF NeedsFixing, Wrong, S
  <2>16. Cardinality(S) \in Nat
    BY <2>1, OverviewAssumption, FS_Subset, FS_CardinalityType
  <2>17. r.more = Len(all) - Len(list) /\ (r.more > 0 => Len(list) = MaxListed)
    <3>1. r.more = Len(built) - Len(list)
      BY <2>2 DEF list
    <3> QED BY <2>5, <2>8, <2>9, <2>16, <3>1
  <2>18. r.blocked = Len(Those(all, Broken)) /\ r.blocked = Cardinality(NeedsFixing([site |-> s]))
    BY <2>2, <2>5, <2>15 DEF wrong
  <2>19. DashboardList(s, IF s.migrated THEN Serving(s) ELSE Channels, stored) = all
    BY <1>1, <1>3 DEF all, S
  <2>20. /\ r.view # "legacy" /\ r.list = list
         /\ InPageOrder(r.paused, Those(DashboardOrder(s, stored), Paused(s)), Visible(s))
    BY <2>2, <2>9, <2>14 DEF web, P
  <2>21. SaysAsPage(s, r, stored)
    BY <2>12, <2>13, <2>17, <2>18, <2>19, <2>20 DEF SaysAsPage
  <2> QED BY <2>21 DEF r
<1> QED BY <1>2, <1>3

-----------------------------------------------------------------------------
(* The reply of /ap overview.                                                *)

OverviewSpec == OverviewInit /\ [][OverviewNext \/ SiteChanges]_overviewVars

(* A guild that has not migrated has no rows.                                *)
Guilds == {s \in Sites : s.migrated \/ \A c \in Channels : s.rows[c] = "off"}

(* What is shown was computed from one guild: the rows as they were read,    *)
(* the channels as they were an await later.                                 *)
RepliesTrue ==
  /\ site \in Guilds
  /\ overview.at = "read" => overview.seen \in Guilds
  /\ (overview.at = "replied" /\ overview.reply.cache = "member")
       => /\ overview.seen \in Guilds
          /\ \E order \in Orders(Hidden(overview.seen)) :
               overview.reply = Reply(overview.seen, "member", order)

LEMMA SitesChange ==
  ASSUME site \in Guilds, SiteChanges
  PROVE  site' \in Guilds /\ UNCHANGED overview
<1>1. ASSUME NEW c \in Channels, NEW r \in RowStates, site.migrated,
             SiteIs([site EXCEPT !.rows[c] = r])
      PROVE  site' \in Guilds
  BY <1>1 DEF SiteIs, Guilds, Sites
<1>2. ASSUME NEW c \in Channels, NEW h \in Health, SiteIs([site EXCEPT !.health[c] = h])
      PROVE  site' \in Guilds
  BY <1>2 DEF SiteIs, Guilds, Sites
<1>3. ASSUME NEW p \in {"free", "live", "ending"}, SiteIs([site EXCEPT !.plan = p])
      PROVE  site' \in Guilds
  BY <1>3 DEF SiteIs, Guilds, Sites
<1>4. ASSUME SiteIs([site EXCEPT !.migrated = TRUE])
      PROVE  site' \in Guilds
  BY <1>4 DEF SiteIs, Guilds, Sites
<1> QED BY <1>1, <1>2, <1>3, <1>4 DEF SiteChanges, SiteIs

LEMMA RepliesStayTrue ==
  ASSUME RepliesTrue, [OverviewNext \/ SiteChanges]_overviewVars
  PROVE  RepliesTrue'
<1>1. CASE RunOverview
  BY <1>1 DEF RepliesTrue, RunOverview, OverviewIs, NoReply
<1>2. ASSUME NEW cache \in {"none", "guild", "member"}, ShowOverview(cache)
      PROVE  RepliesTrue'
  <2> DEFINE s == [overview.seen EXCEPT !.health = site.health]
  <2>1. site' = site /\ s \in Guilds /\ site \in Guilds
    BY <1>2 DEF RepliesTrue, ShowOverview, OverviewIs, Guilds, Sites
  <2> HIDE DEF s
  <2>2. PICK order \in Orders(Unplaced(s, cache)) :
          overview' = [at |-> "replied", seen |-> s, reply |-> Reply(s, cache, order)]
    BY <1>2 DEF ShowOverview, OverviewIs, s
  <2>3. overview'.at = "replied" /\ overview'.seen = s /\ overview'.reply = Reply(s, cache, order)
    BY <2>2
  <2>4. Reply(s, cache, order).cache = cache
    BY DEF Reply, LegacyReply, NoReply
  <2>5. cache = "member" => Unplaced(s, cache) = Hidden(s)
    BY DEF Unplaced
  <2> QED BY <2>1, <2>3, <2>4, <2>5 DEF RepliesTrue
<1>3. CASE ReadGuildList \/ ReadGuild \/ DismissPaused \/ UNCHANGED overviewVars
  BY <1>3 DEF RepliesTrue, ReadGuildList, ReadGuild, DismissPaused, overviewVars, Guilds, Sites
<1>4. CASE SiteChanges
  BY <1>4, SitesChange DEF RepliesTrue
<1> QED BY <1>1, <1>2, <1>3, <1>4 DEF OverviewNext

(* OverviewAgrees: for any number of channels, hidden ones among them, any   *)
(* categories and any lengths of the lists, and whatever changes between the *)
(* backend's answer and the reply.                                           *)
THEOREM OverviewsAgree == OverviewSpec => []OverviewAgrees
<1>1. OverviewInit => RepliesTrue
  <2> SUFFICES ASSUME OverviewInit PROVE RepliesTrue
    OBVIOUS
  <2>1. site \in Guilds
    BY DEF OverviewInit, Guilds, Sites, Serving, Paused, RowStates
  <2>2. overview.at = "idle"
    BY DEF OverviewInit
  <2> QED BY <2>1, <2>2 DEF RepliesTrue
<1>2. RepliesTrue /\ [OverviewNext \/ SiteChanges]_overviewVars => RepliesTrue'
  BY RepliesStayTrue
<1>3. RepliesTrue => OverviewAgrees
  <2> SUFFICES ASSUME RepliesTrue, overview.at = "replied", overview.reply.cache = "member",
                      NEW stored \in Orders(Hidden(overview.seen))
               PROVE  SaysAsPage(overview.seen, overview.reply, stored)
    BY DEF OverviewAgrees
  <2>1. PICK order \in Orders(Hidden(overview.seen)) :
          overview.reply = Reply(overview.seen, "member", order)
    BY DEF RepliesTrue
  <2>2. /\ overview.seen \in Sites
        /\ overview.seen.migrated \/ \A c \in Channels : overview.seen.rows[c] = "off"
    BY DEF RepliesTrue, Guilds
  <2>3. SaysAsPage(overview.seen, Reply(overview.seen, "member", order), stored)
    BY <2>2, SameWords
  <2> QED BY <2>1, <2>3
<1> QED BY <1>1, <1>2, <1>3, PTL DEF OverviewSpec
=============================================================================
