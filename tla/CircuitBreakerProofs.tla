------------------------ MODULE CircuitBreakerProofs ------------------------
(***************************************************************************)
(* Facts about the pure functions of CircuitBreaker, for every backoff     *)
(* policy.                                                                 *)
(***************************************************************************)
EXTENDS CircuitBreaker, TLAPS

\* The error counter stays in its range, and for a policy with a positive
\* maximum an increment never yields zero.
LEMMA CounterRange ==
    ASSUME NEW n \in CounterValues
    PROVE  /\ IncError(n) \in CounterValues
           /\ DecError(n) \in CounterValues
           /\ MaxErrors > 0 => IncError(n) \in 1 .. MaxErrors
  BY BackoffAssumption DEF IncError, DecError, CounterValues

\* Every function of the breaker returns a record of type Block.
LEMMA BreakerTypes ==
    ASSUME NEW b \in Block
    PROVE  /\ CloseBlock(b) \in Block
           /\ RecoverBlock(b) \in Block
           /\ AdmitBlock(b) \in Block
           /\ NoBlock \in Block
  <1>1. IncError(b.nbError) \in CounterValues /\ DecError(b.nbError) \in CounterValues
    BY CounterRange DEF Block
  <1>2. \A n \in CounterValues : BlockFor(n) \in Block
    BY DEF BlockFor, Block, BreakerStates
  <1>3. CloseBlock(b) \in Block
    BY <1>1, <1>2 DEF CloseBlock
  <1>4. 0 \in CounterValues
    BY BackoffAssumption DEF CounterValues
  <1>5. [state |-> "unblocked", nbError |-> 0, expired |-> b.expired] \in Block
    BY <1>4 DEF Block, BreakerStates
  <1>6. RecoverBlock(b) \in Block
    BY <1>1, <1>2, <1>5 DEF RecoverBlock
  <1>7. AdmitBlock(b) \in Block
    BY DEF AdmitBlock, Block, BreakerStates
  <1>8. NoBlock \in Block
    BY <1>4 DEF NoBlock, Block, BreakerStates
  <1>. QED
    BY <1>3, <1>6, <1>7, <1>8

\* Any answer, good or bad, takes a record out of halfBlocked, and none takes
\* it there.
LEMMA AnswerEndsProbe ==
    ASSUME NEW b \in Block
    PROVE  /\ CloseBlock(b).state # "halfBlocked"
           /\ RecoverBlock(b).state # "halfBlocked"
  BY DEF CloseBlock, RecoverBlock, BlockFor, Block, BreakerStates

=============================================================================
