----------------------- MODULE BlockedEndpointsProofs -----------------------
(***************************************************************************)
(* What BlockedEndpoints guarantees for every set of endpoints, every      *)
(* number of concurrent requests and every backoff policy.                 *)
(***************************************************************************)
EXTENDS BlockedEndpoints, CircuitBreakerProofs

-----------------------------------------------------------------------------

\* The records of the breaker and the sets of requests keep their types.
THEOREM TypeCorrect == Spec => []TypeOK
  <1>1. Init => TypeOK
    <2>1. 0 \in CounterValues
      BY BackoffAssumption DEF CounterValues
    <2>. QED
      BY <2>1 DEF Init, TypeOK, NoBlock, Block, BreakerStates
  <1>2. TypeOK /\ [Next]_vars => TypeOK'
    <2> SUFFICES ASSUME TypeOK, [Next]_vars PROVE TypeOK'
      OBVIOUS
    <2>1. ASSUME NEW e \in Endpoints, Expire(e) PROVE TypeOK'
      BY <2>1 DEF Expire, TypeOK, Block
    <2>2. ASSUME NEW e \in Endpoints, NEW r \in Requests, IsBlockForSend(e, r)
          PROVE  TypeOK'
      BY <2>2, BreakerTypes DEF IsBlockForSend, TypeOK
    <2>3. ASSUME NEW e \in Endpoints, NEW r \in Requests, Close(e, r)
          PROVE  TypeOK'
      BY <2>3, BreakerTypes DEF Close, TypeOK
    <2>4. ASSUME NEW e \in Endpoints, NEW r \in Requests, Recover(e, r)
          PROVE  TypeOK'
      BY <2>4, BreakerTypes DEF Recover, TypeOK
    <2>5. CASE UNCHANGED vars
      BY <2>5 DEF vars, TypeOK
    <2>. QED
      BY <2>1, <2>2, <2>3, <2>4, <2>5 DEF Next
  <1>. QED
    BY <1>1, <1>2, PTL DEF Spec

\* A half-blocked endpoint always has a request on the wire, so its state is
\* going to be resolved (worker.go, process: every request admitted by
\* isBlockForSend is followed by close or recover).
THEOREM NoWedge == Spec => []HalfBlockedAwaitsAnswer
  <1>1. Init => HalfBlockedAwaitsAnswer
    BY DEF Init, HalfBlockedAwaitsAnswer, NoBlock
  <1>2. TypeOK /\ HalfBlockedAwaitsAnswer /\ [Next]_vars
          => HalfBlockedAwaitsAnswer'
    <2> SUFFICES ASSUME TypeOK, HalfBlockedAwaitsAnswer, [Next]_vars
                 PROVE  HalfBlockedAwaitsAnswer'
      OBVIOUS
    <2>1. ASSUME NEW e \in Endpoints, Expire(e)
          PROVE  HalfBlockedAwaitsAnswer'
      BY <2>1 DEF Expire, TypeOK, Block, HalfBlockedAwaitsAnswer
    <2>2. ASSUME NEW e \in Endpoints, NEW r \in Requests, IsBlockForSend(e, r)
          PROVE  HalfBlockedAwaitsAnswer'
      BY <2>2 DEF IsBlockForSend, TypeOK, HalfBlockedAwaitsAnswer
    <2>3. ASSUME NEW e \in Endpoints, NEW r \in Requests, Close(e, r)
          PROVE  HalfBlockedAwaitsAnswer'
      BY <2>3, AnswerEndsProbe DEF Close, TypeOK, HalfBlockedAwaitsAnswer
    <2>4. ASSUME NEW e \in Endpoints, NEW r \in Requests, Recover(e, r)
          PROVE  HalfBlockedAwaitsAnswer'
      BY <2>4, AnswerEndsProbe DEF Recover, TypeOK, HalfBlockedAwaitsAnswer
    <2>5. CASE UNCHANGED vars
      BY <2>5 DEF vars, HalfBlockedAwaitsAnswer
    <2>. QED
      BY <2>1, <2>2, <2>3, <2>4, <2>5 DEF Next
  <1>. QED
    BY <1>1, <1>2, TypeCorrect, PTL DEF Spec

\* The backoff counter and the state of a record agree for every policy
\* (pkg/util/backoff, IncError and DecError).
THEOREM CounterCorrect == Spec => []CounterMatchesState
  <1>1. Init => CounterMatchesState
    BY DEF Init, CounterMatchesState, NoBlock
  <1>2. TypeOK /\ CounterMatchesState /\ [Next]_vars => CounterMatchesState'
    <2> SUFFICES ASSUME TypeOK, CounterMatchesState, [Next]_vars
                 PROVE  CounterMatchesState'
      OBVIOUS
    <2> DEFINE Good(b) == /\ b.state = "unblocked" => b.nbError = 0
                          /\ b.state # "unblocked" /\ MaxErrors > 0
                                => b.nbError \in 1 .. MaxErrors
    <2>1. ASSUME NEW b \in Block, Good(b)
          PROVE  /\ Good(CloseBlock(b))
                 /\ Good(RecoverBlock(b))
                 /\ Good(AdmitBlock(b)) \/ b.state = "unblocked"
      <3>1. /\ b.nbError \in CounterValues
            /\ DecError(b.nbError) \in CounterValues
            /\ MaxErrors > 0 => IncError(b.nbError) \in 1 .. MaxErrors
        BY CounterRange DEF Block
      <3>. QED
        BY <2>1, <3>1, BackoffAssumption
        DEF CloseBlock, RecoverBlock, AdmitBlock, BlockFor, Block, BreakerStates,
            CounterValues
    <2>2. ASSUME NEW e \in Endpoints, Expire(e) PROVE CounterMatchesState'
      BY <2>2 DEF Expire, TypeOK, Block, CounterMatchesState
    <2>3. ASSUME NEW e \in Endpoints, NEW r \in Requests, IsBlockForSend(e, r)
          PROVE  CounterMatchesState'
      BY <2>3, <2>1
      DEF IsBlockForSend, TypeOK, CounterMatchesState, AdmitBlock, Block
    <2>4. ASSUME NEW e \in Endpoints, NEW r \in Requests, Close(e, r)
          PROVE  CounterMatchesState'
      BY <2>4, <2>1 DEF Close, TypeOK, CounterMatchesState
    <2>5. ASSUME NEW e \in Endpoints, NEW r \in Requests, Recover(e, r)
          PROVE  CounterMatchesState'
      BY <2>5, <2>1 DEF Recover, TypeOK, CounterMatchesState
    <2>6. CASE UNCHANGED vars
      BY <2>6 DEF vars, CounterMatchesState
    <2>. QED
      BY <2>2, <2>3, <2>4, <2>5, <2>6 DEF Next
  <1>. QED
    BY <1>1, <1>2, TypeCorrect, PTL DEF Spec

=============================================================================
