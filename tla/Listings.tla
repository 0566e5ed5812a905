------------------------------ MODULE Listings ------------------------------
(***************************************************************************)
(* Lists as the code makes them: a filter keeps what it keeps in order, a  *)
(* sort of channels is by their place in the sidebar, a stable sort by one *)
(* rank is two filters, and a query without ORDER BY answers in any order. *)
(* They are written by positions, so that the prover can open them.        *)
(***************************************************************************)
EXTENDS Naturals, Sequences, FiniteSets

(* The n-th least of a set of numbers.                                     *)
Nth(S, n) == CHOOSE i \in S : Cardinality({j \in S : j <= i}) = n

Ascending(S) == [n \in 1..Cardinality(S) |-> Nth(S, n)]

(* What a sequence has at some of its positions.                           *)
Pick(seq, I) == [n \in 1..Cardinality(I) |-> seq[Nth(I, n)]]

Those(seq, S) == Pick(seq, {i \in DOMAIN seq : seq[i] \in S})
TheRest(seq, S) == Pick(seq, {i \in DOMAIN seq : seq[i] \notin S})
FirstThose(seq, S) == Those(seq, S) \o TheRest(seq, S)

Shorten(seq, n) == SubSeq(seq, 1, IF Len(seq) < n THEN Len(seq) ELSE n)

Orders(S) ==
  {seq \in [1..Cardinality(S) -> S] : \A i, j \in DOMAIN seq : seq[i] = seq[j] => i = j}

Values(seq) == {seq[i] : i \in DOMAIN seq}
Precedes(seq, x, y) == \E i, j \in DOMAIN seq : i < j /\ seq[i] = x /\ seq[j] = y
=============================================================================
