------------------------------- MODULE Queues -------------------------------
(***************************************************************************)
(* What the dispatcher does with its in-memory queues besides pushing and  *)
(* popping: retain what still belongs there, and insert by priority.  Both *)
(* are stated over positions, so that what they keep, and in which order,  *)
(* can be proved (Queues_proofs).                                          *)
(***************************************************************************)
EXTENDS Naturals, Sequences, FiniteSets

\* The k-th smallest member of a finite set of positions.
Rank(at, i) == Cardinality({j \in at : j <= i})
Nth(at, k) == CHOOSE i \in at : Rank(at, i) = k

\* VecDeque::retain: the entries of q that are in S, in their order.
Where(q, S) == {i \in DOMAIN q : q[i] \in S}
Retain(q, S) == [k \in 1..Cardinality(Where(q, S)) |-> q[Nth(Where(q, S), k)]]

\* position(..).unwrap_or(len) and insert: e goes right before the first entry
\* that is in S, or to the end.
FirstIn(q, S) ==
  CHOOSE p \in 1..Len(q) + 1 : /\ p <= Len(q) => q[p] \in S
                               /\ \A i \in 1..p - 1 : q[i] \notin S
Insert(q, p, e) ==
  [i \in 1..Len(q) + 1 |-> IF i < p THEN q[i] ELSE IF i = p THEN e ELSE q[i - 1]]
InsertBefore(q, S, e) == Insert(q, FirstIn(q, S), e)
=============================================================================
