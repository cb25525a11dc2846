-------------------------- MODULE BlockedEndpoints --------------------------
(***************************************************************************)
(* The state machine of blockedEndpoints as its concurrent callers see it. *)
(* Worker.process and sendHTTPTransactionDirect bracket every HTTP request *)
(* with isBlockForSend before it and close or recover after it; the three  *)
(* take the mutex one after the other, so requests that were admitted      *)
(* earlier come back in any later state of the breaker.                    *)
(***************************************************************************)
EXTENDS CircuitBreaker, FiniteSets

CONSTANTS Endpoints,  \* the targets: domain and route of a transaction
          Requests    \* the transactions that may be on the wire

VARIABLES cb,      \* cb[e]: the record of endpoint e
          sending  \* sending[e]: requests admitted to e and not yet answered

vars == <<cb, sending>>

Idle(r) == \A e \in Endpoints : r \notin sending[e]

Init ==
    /\ cb = [e \in Endpoints |-> NoBlock]
    /\ sending = [e \in Endpoints |-> {}]

\* isBlockForSend answers FALSE and the caller goes on to t.Process.  (When it
\* answers TRUE nothing changes here: the caller requeues the transaction.)
IsBlockForSend(e, r) ==
    /\ Idle(r)
    /\ ~BlockedForSend(cb[e])
    /\ cb' = [cb EXCEPT ![e] = AdmitBlock(@)]
    /\ sending' = [sending EXCEPT ![e] = @ \cup {r}]

\* t.Process returned an error.
Close(e, r) ==
    /\ r \in sending[e]
    /\ cb' = [cb EXCEPT ![e] = CloseBlock(@)]
    /\ sending' = [sending EXCEPT ![e] = @ \ {r}]

\* t.Process returned nil: a success, but also a dropped or cancelled request.
Recover(e, r) ==
    /\ r \in sending[e]
    /\ cb' = [cb EXCEPT ![e] = RecoverBlock(@)]
    /\ sending' = [sending EXCEPT ![e] = @ \ {r}]

\* The clock reaches b.until.
Expire(e) ==
    /\ cb[e].state = "blocked"
    /\ ~cb[e].expired
    /\ cb' = [cb EXCEPT ![e].expired = TRUE]
    /\ UNCHANGED sending

Next ==
    \E e \in Endpoints :
        \/ Expire(e)
        \/ \E r \in Requests :
              IsBlockForSend(e, r) \/ Close(e, r) \/ Recover(e, r)

Spec == Init /\ [][Next]_vars

-----------------------------------------------------------------------------

TypeOK ==
    /\ cb \in [Endpoints -> Block]
    /\ sending \in [Endpoints -> SUBSET Requests]

\* A half-blocked endpoint is waiting for an answer that is really on its way.
\* halfBlocked has no timer: if this failed, isBlockForSend would refuse every
\* transaction to the endpoint until the process restarts.
HalfBlockedAwaitsAnswer ==
    \A e \in Endpoints :
        cb[e].state = "halfBlocked" => sending[e] # {}

\* The counter and the state tell the same story: an unblocked endpoint has no
\* error left over (its next block starts at the shortest backoff) and a
\* blocked one has a backoff that is neither empty nor beyond the maximum.
CounterMatchesState ==
    \A e \in Endpoints :
        /\ cb[e].state = "unblocked" => cb[e].nbError = 0
        /\ cb[e].state # "unblocked" /\ MaxErrors > 0
              => cb[e].nbError \in 1 .. MaxErrors

=============================================================================
