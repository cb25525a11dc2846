------------------------- MODULE MCDomainForwarder -------------------------
(* Instances of DomainForwarder for TLC. *)
EXTENDS DomainForwarder, TLC

CONSTANTS t1, t2, t3, e1

OneTarget == [t \in Txs |-> e1]

\* t3 is retried before t2, and t2 before t1.
Values == [t \in Txs |-> IF t = t1 THEN 1 ELSE IF t = t2 THEN 2 ELSE 3]

\* No transaction is preferred: a pass takes the stored ones in any order, so
\* the three are interchangeable.
SameValue == [t \in Txs |-> 1]

Symmetric == Permutations(Txs)

=============================================================================
