----------------------------- MODULE RetryStore -----------------------------
(***************************************************************************)
(* What the domain forwarder relies on when it hands transactions to its   *)
(* retry queue: a transaction put in the store can be taken out once, in   *)
(* any order and company, or be lost there; the store never gives out one  *)
(* transaction twice and a lost one never comes back.  TransactionRetry-   *)
(* Queue implements this with memory and files; DomainForwarder uses it.   *)
(***************************************************************************)

CONSTANT Txs  \* transactions

VARIABLES held,   \* transactions in the hands of the forwarder
          stored  \* transactions in the store

vars == <<held, stored>>

Init == held = Txs /\ stored = {}

\* Add, seen from outside: the transaction is in the store.
Put(t) ==
    /\ t \in held
    /\ held' = held \ {t}
    /\ stored' = stored \cup {t}

\* ExtractTransactions; together with the transactions that are returned it
\* may lose some (a file that cannot be read).
Take(S) ==
    /\ S \subseteq stored
    /\ held' = held \cup S
    /\ stored' \subseteq stored \ S

\* The limits, a failed write or a crash.
Lose ==
    /\ held' = held
    /\ stored' \subseteq stored

Next ==
    \/ \E t \in Txs : Put(t)
    \/ \E S \in SUBSET Txs : Take(S)
    \/ Lose

Spec == Init /\ [][Next]_vars

=============================================================================
