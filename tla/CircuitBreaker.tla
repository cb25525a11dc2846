--------------------------- MODULE CircuitBreaker ---------------------------
(***************************************************************************)
(* The circuit breaker of the forwarder: what one `block` record of        *)
(* comp/forwarder/defaultforwarder/impl/blocked_endpoints.go holds and how *)
(* close, recover, isBlockForSend and isBlockForRetry transform it, with   *)
(* the error counter of pkg/util/backoff.  The functions are pure here;    *)
(* BlockedEndpoints and DomainForwarder keep one record per endpoint and   *)
(* run them atomically, as the code does under blockedEndpoints.m.         *)
(*                                                                         *)
(* Time is abstracted to the one question the code asks of it, "is now     *)
(* before b.until?": `expired` says that the backoff of the record is      *)
(* over.  The field is meaningful only while the record is blocked.        *)
(***************************************************************************)
EXTENDS Integers

CONSTANTS MaxErrors,        \* ExpBackoffPolicy.MaxErrors
          RecoveryInterval  \* ExpBackoffPolicy.RecoveryInterval

(***************************************************************************)
(* newBlockedEndpoints forces the configured interval to be positive, and  *)
(* NewExpBackoffPolicy replaces it by maxErrors when recovery resets the   *)
(* counter.  MaxErrors itself is floor(log2(max/base)) + 1 and is zero or  *)
(* negative when forwarder_backoff_max is smaller than the base.           *)
(***************************************************************************)
ASSUME BackoffAssumption ==
    /\ MaxErrors \in Int
    /\ RecoveryInterval \in Int
    /\ RecoveryInterval > 0 \/ RecoveryInterval = MaxErrors

BreakerStates == {"unblocked", "halfBlocked", "blocked"}

\* A policy whose maximum is not positive counts below zero.
CounterValues == IF MaxErrors > 0 THEN 0 .. MaxErrors ELSE Int

Block == [state : BreakerStates, nbError : CounterValues, expired : BOOLEAN]

\* The record of an endpoint that is not in errorPerEndpoint yet: every
\* function of the breaker treats it as unblocked with no error.
NoBlock == [state |-> "unblocked", nbError |-> 0, expired |-> FALSE]

IncError(n) == IF n + 1 > MaxErrors THEN MaxErrors ELSE n + 1

\* Mutant of DecError: the counter is not floored.
DecErrorUnfloored(n) == n - RecoveryInterval

DecError(n) == IF n - RecoveryInterval < 0 THEN 0 ELSE n - RecoveryInterval

\* GetBackoffDuration is zero exactly when the counter is not positive, so
\* such a block is over at the moment it is set.
BlockFor(n) == [state |-> "blocked", nbError |-> n, expired |-> n <= 0]

\* Mutant of CloseBlock: the answer to a probe is taken for a late error and
\* ignored as well.
CloseBlockOnlyUnblocked(b) ==
    IF b.state = "unblocked" THEN BlockFor(IncError(b.nbError)) ELSE b

\* blockedEndpoints.close: an error ends a probe or opens the breaker; while
\* the endpoint is blocked it is ignored.
CloseBlock(b) ==
    IF b.state = "blocked" THEN b ELSE BlockFor(IncError(b.nbError))

\* Mutant of RecoverBlock: the counter is not written back before unblocking.
RecoverBlockKeepsCounter(b) ==
    IF b.state = "halfBlocked" /\ DecError(b.nbError) = 0
    THEN [b EXCEPT !.state = "unblocked"]
    ELSE b

\* blockedEndpoints.recover: only the answer to a probe changes anything.
RecoverBlock(b) ==
    IF b.state = "halfBlocked"
    THEN IF DecError(b.nbError) = 0
         THEN [state |-> "unblocked", nbError |-> 0, expired |-> b.expired]
         ELSE BlockFor(DecError(b.nbError))
    ELSE b

\* The result of blockedEndpoints.isBlockForSend, and the record it leaves
\* behind when the answer is FALSE.
BlockedForSend(b) ==
    \/ b.state = "halfBlocked"
    \/ b.state = "blocked" /\ ~b.expired

AdmitBlock(b) ==
    IF b.state = "blocked" THEN [b EXCEPT !.state = "halfBlocked"] ELSE b

\* retryBlockList.isBlockForRetry: `listed` is the entry of the endpoint in
\* the list of the pass.  An endpoint found unblocked is not entered, so it
\* is looked up again for the next transaction of the pass.
BlockedForRetry(b, listed) == listed \/ BlockedForSend(b)

ListAfterRetry(b, listed) == listed \/ b.state # "unblocked"

=============================================================================
