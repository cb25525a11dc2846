----------------------- MODULE DomainForwarderProofs -----------------------
(***************************************************************************)
(* What DomainForwarder guarantees for any number of workers, transactions *)
(* and endpoints, any sizes of the channels and any backoff policy.        *)
(***************************************************************************)
EXTENDS DomainForwarder, CircuitBreakerProofs

\* The steps of the forwarder, action by action: what a proof by cases on Next
\* has to look at.
LEMMA NextCases ==
    ASSUME Next
    PROVE  \/ \E t \in Txs : Submit(t)
           \/ \E t \in Txs : SendHTTPTransactions(t)
           \/ \E t \in Txs : SendOnClosedChannel(t)
           \/ \E t \in Txs : HighPrioFull(t)
           \/ \E t \in Txs : SendDirect(t)
           \/ \E t \in Txs : DirectSucceeds(t)
           \/ \E t \in Txs : DirectFails(t)
           \/ \E w \in Workers : TakeHighPrio(w)
           \/ \E w \in Workers : NothingUrgent(w)
           \/ \E w \in Workers : TakeLowPrio(w)
           \/ \E w \in Workers : SeeStop(w)
           \/ \E w \in Workers : Acquire(w)
           \/ \E w \in Workers : AcquireFails(w)
           \/ \E w \in Workers, t \in Txs : Blocked(w, t)
           \/ \E w \in Workers, t \in Txs : Process(w, t)
           \/ \E w \in Workers, t \in Txs : ProcessOK(w, t)
           \/ \E w \in Workers, t \in Txs : ProcessFails(w, t)
           \/ \E w \in Workers, t \in Txs : ProcessCanceled(w, t)
           \/ \E t \in Txs : RetryOne(t)
           \/ Tick \/ PassEnds \/ RequeueTransaction
           \/ StopBegins \/ StopRetry \/ StopSignal \/ StopJoin
           \/ PurgeOne \/ PurgeEnds \/ StopInflight \/ StopCloses
           \/ StopDrains \/ StopFlushes
           \/ \E e \in Endpoints : Expire(e)
  BY DEF Next, Submission, Worker, Request, Retry, Stop

-----------------------------------------------------------------------------

\* Sets of transactions stay sets of transactions, program counters stay in
\* their ranges and the records of the breaker keep their type, through every
\* step of workers, requests, retry goroutine and Stop.
THEOREM TypeCorrect == Spec => []TypeOK
  <1>1. Init => TypeOK
    <2>1. NoBlock \in Block
      BY BackoffAssumption DEF NoBlock, Block, BreakerStates, CounterValues
    <2>2. 1 \in Workers
      BY ForwarderAssumption DEF Workers
    <2> SUFFICES ASSUME Init PROVE TypeOK
      OBVIOUS
    <2>3. how \in [wait : BOOLEAN, purge : BOOLEAN]
      BY DEF Init
    <2>4. /\ wpc \in [Workers -> WorkerStates]
          /\ stopChan \in [Workers -> BOOLEAN] /\ canceled \in [Workers -> BOOLEAN]
      BY DEF Init, WorkerStates
    <2>5. /\ hand \in [Workers -> SUBSET Txs] /\ gate \in [Workers -> SUBSET Txs]
          /\ wire \in [Workers -> SUBSET Txs] /\ dead \in [Workers -> SUBSET Txs]
      BY DEF Init
    <2>6. cb \in [Endpoints -> Block]
      BY <2>1 DEF Init
    <2>. QED
      BY <2>2, <2>3, <2>4, <2>5, <2>6 DEF Init, TypeOK
  <1>2. TypeOK /\ [Next]_vars => TypeOK'
    <2> SUFFICES ASSUME TypeOK, [Next]_vars PROVE TypeOK'
      OBVIOUS
    <2>1. ASSUME NEW t \in Txs, Submit(t) PROVE TypeOK'
      BY <2>1 DEF Submit, chanVars, workerVars, reqVars, retryVars, stopVars,
          endVars, TypeOK
    <2>2. ASSUME NEW t \in Txs, SendHTTPTransactions(t) PROVE TypeOK'
      BY <2>2 DEF SendHTTPTransactions, workerVars, reqVars, retryVars,
          stopVars, endVars, TypeOK
    <2>3. ASSUME NEW t \in Txs, SendOnClosedChannel(t) PROVE TypeOK'
      BY <2>3 DEF SendOnClosedChannel, chanVars, workerVars, reqVars, retryVars,
          stopVars, TypeOK
    <2>4. ASSUME NEW t \in Txs, SendDirect(t) PROVE TypeOK'
      BY <2>4, BreakerTypes, ForwarderAssumption DEF SendDirect, chanVars,
          workerVars, reqVars, retryVars, stopVars, endVars, TypeOK
    <2>5. ASSUME NEW t \in Txs, DirectSucceeds(t) PROVE TypeOK'
      BY <2>5, BreakerTypes, ForwarderAssumption DEF DirectSucceeds, chanVars,
          workerVars, reqVars, retryVars, stopVars, TypeOK
    <2>6. ASSUME NEW t \in Txs, DirectFails(t) PROVE TypeOK'
      BY <2>6, BreakerTypes, ForwarderAssumption DEF DirectFails, chanVars,
          workerVars, reqVars, retryVars, stopVars, endVars, TypeOK
    <2>7. ASSUME NEW w \in Workers, TakeHighPrio(w) PROVE TypeOK'
      BY <2>7 DEF TakeHighPrio, txVars, reqVars, retryVars, stopVars, endVars,
          WorkerStates, TypeOK
    <2>8. ASSUME NEW w \in Workers, NothingUrgent(w) PROVE TypeOK'
      BY <2>8 DEF NothingUrgent, txVars, chanVars, reqVars, retryVars, stopVars,
          endVars, WorkerStates, TypeOK
    <2>9. ASSUME NEW w \in Workers, TakeLowPrio(w) PROVE TypeOK'
      BY <2>9 DEF TakeLowPrio, txVars, reqVars, retryVars, stopVars, endVars,
          WorkerStates, TypeOK
    <2>10. ASSUME NEW w \in Workers, SeeStop(w) PROVE TypeOK'
      BY <2>10 DEF SeeStop, txVars, chanVars, reqVars, retryVars, stopVars,
          endVars, WorkerStates, TypeOK
    <2>11. ASSUME NEW w \in Workers, Acquire(w) PROVE TypeOK'
      BY <2>11 DEF Acquire, txVars, chanVars, retryVars, stopVars, endVars,
          Inflight, WorkerStates, TypeOK
    <2>12. ASSUME NEW w \in Workers, AcquireFails(w) PROVE TypeOK'
      BY <2>12 DEF AcquireFails, txVars, reqVars, retryVars, stopVars, Requeue,
          WorkerStates, TypeOK
    <2>13. ASSUME NEW w \in Workers, NEW t \in Txs, Blocked(w, t)
          PROVE  TypeOK'
      BY <2>13 DEF Blocked, txVars, workerVars, retryVars, stopVars, Requeue,
          RequestEnds, TypeOK
    <2>14. ASSUME NEW w \in Workers, NEW t \in Txs, Process(w, t)
          PROVE  TypeOK'
      BY <2>14, BreakerTypes, ForwarderAssumption DEF Process, txVars, chanVars,
          workerVars, retryVars, stopVars, endVars, TypeOK
    <2>15. ASSUME NEW w \in Workers, NEW t \in Txs, ProcessOK(w, t)
          PROVE  TypeOK'
      BY <2>15, BreakerTypes, ForwarderAssumption DEF ProcessOK, txVars,
          chanVars, workerVars, retryVars, stopVars, RequestEnds, TypeOK
    <2>16. ASSUME NEW w \in Workers, NEW t \in Txs, ProcessFails(w, t)
          PROVE  TypeOK'
      BY <2>16, BreakerTypes, ForwarderAssumption DEF ProcessFails, txVars,
          workerVars, retryVars, stopVars, Requeue, RequestEnds, TypeOK
    <2>17. ASSUME NEW w \in Workers, NEW t \in Txs, ProcessCanceled(w, t)
          PROVE  TypeOK'
      BY <2>17, BreakerTypes, ForwarderAssumption DEF ProcessCanceled, txVars,
          chanVars, workerVars, retryVars, stopVars, RequestEnds, TypeOK
    <2>18. ASSUME NEW t \in Txs, RetryOne(t) PROVE TypeOK'
      BY <2>18, ForwarderAssumption DEF RetryOne, txVars, workerVars, reqVars,
          stopVars, AddToRetryQueue, TypeOK
    <2>19. ASSUME Tick PROVE TypeOK'
      <3>1. PICK S \in SUBSET stored, D \in SUBSET stored :
               pass' = S /\ stored' = stored \ (S \cup D)
                         /\ dropped' = dropped \cup D
        BY <2>19 DEF Tick
      <3>. QED
        BY <2>19, <3>1 DEF Tick, txVars, chanVars, workerVars, reqVars, stopVars,
            TypeOK
    <2>20. ASSUME PassEnds PROVE TypeOK'
      BY <2>20 DEF PassEnds, txVars, chanVars, workerVars, reqVars, stopVars,
          endVars, TypeOK
    <2>21. ASSUME RequeueTransaction PROVE TypeOK'
      BY <2>21 DEF RequeueTransaction, txVars, workerVars, reqVars, retryVars,
          stopVars, AddToRetryQueue, TypeOK
    <2>22. ASSUME StopBegins PROVE TypeOK'
      BY <2>22 DEF StopBegins, txVars, chanVars, workerVars, reqVars, retryVars,
          endVars, TypeOK
    <2>23. ASSUME StopRetry PROVE TypeOK'
      BY <2>23 DEF StopRetry, txVars, chanVars, workerVars, reqVars, endVars,
          TypeOK
    <2>24. ASSUME StopSignal PROVE TypeOK'
      BY <2>24 DEF StopSignal, txVars, chanVars, retryVars, endVars, Inflight,
          TypeOK
    <2>25. ASSUME StopJoin PROVE TypeOK'
      BY <2>25 DEF StopJoin, txVars, chanVars, reqVars, retryVars, endVars,
          TypeOK
    <2>26. ASSUME PurgeOne PROVE TypeOK'
      BY <2>26 DEF PurgeOne, txVars, reqVars, retryVars, stopVars, endVars,
          TypeOK
    <2>27. ASSUME PurgeEnds PROVE TypeOK'
      BY <2>27 DEF PurgeEnds, txVars, chanVars, workerVars, reqVars, retryVars,
          endVars, TypeOK
    <2>28. ASSUME StopInflight PROVE TypeOK'
      BY <2>28, ForwarderAssumption DEF StopInflight, txVars, chanVars, reqVars,
          retryVars, endVars, Inflight, Workers, TypeOK
    <2>29. ASSUME StopCloses PROVE TypeOK'
      BY <2>29 DEF StopCloses, txVars, workerVars, reqVars, retryVars, endVars,
          TypeOK
    <2>30. ASSUME StopDrains PROVE TypeOK'
      BY <2>30 DEF StopDrains, txVars, workerVars, reqVars, retryVars, stopVars,
          AddToRetryQueue, TypeOK
    <2>31. ASSUME StopFlushes PROVE TypeOK'
      <3>1. stored' \subseteq Txs /\ dropped' \subseteq Txs /\ lost' \subseteq Txs
        BY <2>31 DEF StopFlushes, TypeOK
      <3>3. saved' \in BOOLEAN /\ spc' = "stopped"
        BY <2>31 DEF StopFlushes, TypeOK
      <3>2. UNCHANGED <<txVars, chanVars, workerVars, reqVars, cb, retryVars, sw, how, late, sent, panicked>>
        BY <2>31 DEF StopFlushes
      <3>. QED
        BY <3>1, <3>2, <3>3 DEF txVars, chanVars, workerVars, reqVars, retryVars, TypeOK
    <2>32. ASSUME NEW e \in Endpoints, Expire(e) PROVE TypeOK'
      BY <2>32 DEF Expire, TypeOK, Block, txVars, chanVars, workerVars, reqVars,
               retryVars, stopVars, endVars
    <2>33. CASE UNCHANGED vars
      BY <2>33 DEF vars, TypeOK, txVars, chanVars, workerVars, reqVars,
               retryVars, stopVars, endVars
    <2>34. ASSUME NEW t \in Txs, HighPrioFull(t) PROVE TypeOK'
      BY <2>34 DEF HighPrioFull, chanVars, workerVars, reqVars, retryVars,
          stopVars, AddToRetryQueue, TypeOK
    <2>. QED
      BY NextCases, <2>1, <2>2, <2>3, <2>4, <2>5, <2>6, <2>7, <2>8, <2>9, <2>10,
          <2>11, <2>12, <2>13, <2>14, <2>15, <2>16, <2>17, <2>18, <2>19, <2>20,
          <2>21, <2>22, <2>23, <2>24, <2>25, <2>26, <2>27, <2>28, <2>29, <2>30,
          <2>31, <2>32, <2>33, <2>34
  <1>. QED
    BY <1>1, <1>2, PTL DEF Spec

-----------------------------------------------------------------------------

\* Worker w is behind Stop: joined, purged and without a request.
Joined(w) == w < sw \/ spc \in {"close", "drain", "stopped"}

\* The inductive invariant behind QuietWhenClosed: how far Stop has come says
\* who can still be at work.  A worker holds a transaction only where it waits
\* for the semaphore, or where Stop purges on its behalf.
StopOrder ==
    /\ spc \in {"running", "retry"} => sw = 1
    /\ rpc = "exited" <=> spc \notin {"running", "retry"}
    /\ rpc # "pass" => pass = {}
    /\ closed => spc \in {"drain", "stopped"}
    /\ spc \in {"purge", "inflight"} => wpc[sw] = "done"
    /\ spc = "inflight" => hand[sw] = {}
    /\ \A w \in Workers :
          /\ hand[w] # {} => wpc[w] = "acquire" \/ (spc = "purge" /\ w = sw)
          /\ Joined(w) => wpc[w] = "done" /\ hand[w] = {} /\ Inflight(w) = {}

\* Stop passes its stages in order and leaves no worker behind at work.
THEOREM StopOrdered == Spec => []StopOrder
  <1>1. Init => StopOrder
    BY ForwarderAssumption DEF Init, StopOrder, Joined, Inflight, Workers
  <1>2. TypeOK /\ StopOrder /\ [Next]_vars => StopOrder'
    <2> SUFFICES ASSUME TypeOK, StopOrder, [Next]_vars PROVE StopOrder'
      OBVIOUS
    <2>0. NumWorkers \in Nat
      BY ForwarderAssumption
    <2>1. ASSUME NEW t \in Txs, Submit(t) PROVE StopOrder'
      BY <2>1, <2>0 DEF Submit, chanVars, workerVars, reqVars, retryVars,
          stopVars, endVars, TypeOK, StopOrder, Joined, Inflight, Workers
    <2>2. ASSUME NEW t \in Txs, SendHTTPTransactions(t) PROVE StopOrder'
      BY <2>2, <2>0 DEF SendHTTPTransactions, workerVars, reqVars, retryVars,
          stopVars, endVars, TypeOK, StopOrder, Joined, Inflight, Workers
    <2>3. ASSUME NEW t \in Txs, SendOnClosedChannel(t) PROVE StopOrder'
      BY <2>3, <2>0 DEF SendOnClosedChannel, chanVars, workerVars, reqVars,
          retryVars, stopVars, TypeOK, StopOrder, Joined, Inflight, Workers
    <2>4. ASSUME NEW t \in Txs, SendDirect(t) PROVE StopOrder'
      BY <2>4, <2>0 DEF SendDirect, chanVars, workerVars, reqVars, retryVars,
          stopVars, endVars, TypeOK, StopOrder, Joined, Inflight, Workers
    <2>5. ASSUME NEW t \in Txs, DirectSucceeds(t) PROVE StopOrder'
      BY <2>5, <2>0 DEF DirectSucceeds, chanVars, workerVars, reqVars,
          retryVars, stopVars, TypeOK, StopOrder, Joined, Inflight, Workers
    <2>6. ASSUME NEW t \in Txs, DirectFails(t) PROVE StopOrder'
      BY <2>6, <2>0 DEF DirectFails, chanVars, workerVars, reqVars, retryVars,
          stopVars, endVars, TypeOK, StopOrder, Joined, Inflight, Workers
    <2>7. ASSUME NEW w \in Workers, TakeHighPrio(w) PROVE StopOrder'
      <3>1. PICK t \in Txs : hand' = [hand EXCEPT ![w] = {t}]
        BY <2>7 DEF TakeHighPrio, TypeOK
      <3>2. wpc[w] # "done" /\ wpc' = [wpc EXCEPT ![w] = "acquire"]
        BY <2>7 DEF TakeHighPrio
      <3>3. UNCHANGED <<gate, wire, rpc, pass, spc, sw, closed>>
        BY <2>7 DEF TakeHighPrio, reqVars, retryVars, stopVars
      <3>. QED
        BY <2>0, <3>1, <3>2, <3>3 DEF TypeOK, StopOrder, Joined, Inflight,
            Workers
    <2>8. ASSUME NEW w \in Workers, NothingUrgent(w) PROVE StopOrder'
      BY <2>8, <2>0 DEF NothingUrgent, txVars, chanVars, reqVars, retryVars,
          stopVars, endVars, TypeOK, StopOrder, Joined, Inflight, Workers
    <2>9. ASSUME NEW w \in Workers, TakeLowPrio(w) PROVE StopOrder'
      <3>1. PICK t \in Txs : hand' = [hand EXCEPT ![w] = {t}]
        BY <2>9 DEF TakeLowPrio, TypeOK
      <3>2. wpc[w] # "done" /\ wpc' = [wpc EXCEPT ![w] = "acquire"]
        BY <2>9 DEF TakeLowPrio
      <3>3. UNCHANGED <<gate, wire, rpc, pass, spc, sw, closed>>
        BY <2>9 DEF TakeLowPrio, reqVars, retryVars, stopVars
      <3>. QED
        BY <2>0, <3>1, <3>2, <3>3 DEF TypeOK, StopOrder, Joined, Inflight,
            Workers
    <2>10. ASSUME NEW w \in Workers, SeeStop(w) PROVE StopOrder'
      BY <2>10, <2>0 DEF SeeStop, txVars, chanVars, reqVars, retryVars,
          stopVars, endVars, TypeOK, StopOrder, Joined, Inflight, Workers
    <2>11. ASSUME NEW w \in Workers, Acquire(w) PROVE StopOrder'
      BY <2>11, <2>0 DEF Acquire, txVars, chanVars, retryVars, stopVars,
          endVars, TypeOK, StopOrder, Joined, Inflight, Workers
    <2>12. ASSUME NEW w \in Workers, AcquireFails(w) PROVE StopOrder'
      BY <2>12, <2>0 DEF AcquireFails, txVars, reqVars, retryVars, stopVars,
          Requeue, TypeOK, StopOrder, Joined, Inflight, Workers
    <2>13. ASSUME NEW w \in Workers, NEW t \in Txs, Blocked(w, t)
          PROVE  StopOrder'
      BY <2>13, <2>0 DEF Blocked, txVars, workerVars, retryVars, stopVars,
          Requeue, RequestEnds, TypeOK, StopOrder, Joined, Inflight, Workers
    <2>14. ASSUME NEW w \in Workers, NEW t \in Txs, Process(w, t)
          PROVE  StopOrder'
      BY <2>14, <2>0 DEF Process, txVars, chanVars, workerVars, retryVars,
          stopVars, endVars, TypeOK, StopOrder, Joined, Inflight, Workers
    <2>15. ASSUME NEW w \in Workers, NEW t \in Txs, ProcessOK(w, t)
          PROVE  StopOrder'
      BY <2>15, <2>0 DEF ProcessOK, txVars, chanVars, workerVars, retryVars,
          stopVars, RequestEnds, TypeOK, StopOrder, Joined, Inflight, Workers
    <2>16. ASSUME NEW w \in Workers, NEW t \in Txs, ProcessFails(w, t)
          PROVE  StopOrder'
      BY <2>16, <2>0 DEF ProcessFails, txVars, workerVars, retryVars,
          stopVars, Requeue, RequestEnds, TypeOK, StopOrder, Joined, Inflight,
          Workers
    <2>17. ASSUME NEW w \in Workers, NEW t \in Txs, ProcessCanceled(w, t)
          PROVE  StopOrder'
      BY <2>17, <2>0 DEF ProcessCanceled, txVars, chanVars, workerVars,
          retryVars, stopVars, RequestEnds, TypeOK, StopOrder, Joined,
          Inflight, Workers
    <2>18. ASSUME NEW t \in Txs, RetryOne(t) PROVE StopOrder'
      BY <2>18, <2>0 DEF RetryOne, txVars, workerVars, reqVars, stopVars,
          AddToRetryQueue, TypeOK, StopOrder, Joined, Inflight, Workers
    <2>19. ASSUME Tick PROVE StopOrder'
      BY <2>19, <2>0 DEF Tick, txVars, chanVars, workerVars, reqVars,
          stopVars, endVars, TypeOK, StopOrder, Joined, Inflight, Workers
    <2>20. ASSUME PassEnds PROVE StopOrder'
      BY <2>20, <2>0 DEF PassEnds, txVars, chanVars, workerVars, reqVars,
          stopVars, endVars, TypeOK, StopOrder, Joined, Inflight, Workers
    <2>21. ASSUME RequeueTransaction PROVE StopOrder'
      BY <2>21, <2>0 DEF RequeueTransaction, txVars, workerVars, reqVars,
          retryVars, stopVars, AddToRetryQueue, TypeOK, StopOrder, Joined,
          Inflight, Workers
    <2>22. ASSUME StopBegins PROVE StopOrder'
      BY <2>22, <2>0 DEF StopBegins, txVars, chanVars, workerVars, reqVars,
          retryVars, endVars, TypeOK, StopOrder, Joined, Inflight, Workers
    <2>23. ASSUME StopRetry PROVE StopOrder'
      BY <2>23, <2>0 DEF StopRetry, txVars, chanVars, workerVars, reqVars,
          endVars, TypeOK, StopOrder, Joined, Inflight, Workers
    <2>24. ASSUME StopSignal PROVE StopOrder'
      BY <2>24, <2>0 DEF StopSignal, txVars, chanVars, retryVars, endVars,
          TypeOK, StopOrder, Joined, Inflight, Workers
    <2>25. ASSUME StopJoin PROVE StopOrder'
      BY <2>25, <2>0 DEF StopJoin, txVars, chanVars, reqVars, retryVars,
          endVars, TypeOK, StopOrder, Joined, Inflight, Workers
    <2>26. ASSUME PurgeOne PROVE StopOrder'
      BY <2>26, <2>0 DEF PurgeOne, txVars, reqVars, retryVars, stopVars,
          endVars, TypeOK, StopOrder, Joined, Inflight, Workers
    <2>27. ASSUME PurgeEnds PROVE StopOrder'
      BY <2>27, <2>0 DEF PurgeEnds, txVars, chanVars, workerVars, reqVars,
          retryVars, endVars, TypeOK, StopOrder, Joined, Inflight, Workers
    <2>28. ASSUME StopInflight PROVE StopOrder'
      BY <2>28, <2>0 DEF StopInflight, txVars, chanVars, reqVars, retryVars,
          endVars, TypeOK, StopOrder, Joined, Inflight, Workers
    <2>29. ASSUME StopCloses PROVE StopOrder'
      BY <2>29, <2>0 DEF StopCloses, txVars, workerVars, reqVars, retryVars,
          endVars, TypeOK, StopOrder, Joined, Inflight, Workers
    <2>30. ASSUME StopDrains PROVE StopOrder'
      BY <2>30, <2>0 DEF StopDrains, txVars, workerVars, reqVars, retryVars,
          stopVars, AddToRetryQueue, TypeOK, StopOrder, Joined, Inflight,
          Workers
    <2>31. ASSUME StopFlushes PROVE StopOrder'
      BY <2>31, <2>0 DEF StopFlushes, txVars, chanVars, workerVars, reqVars,
          retryVars, TypeOK, StopOrder, Joined, Inflight, Workers
    <2>32. ASSUME NEW e \in Endpoints, Expire(e) PROVE StopOrder'
      BY <2>32, <2>0 DEF Expire, txVars, chanVars, workerVars, reqVars,
          retryVars, stopVars, endVars, TypeOK, StopOrder, Joined, Inflight,
          Workers
    <2>33. CASE UNCHANGED vars
      BY <2>33, <2>0 DEF vars, txVars, chanVars, workerVars, reqVars,
          retryVars, stopVars, endVars, TypeOK, StopOrder, Joined, Inflight,
          Workers
    <2>34. ASSUME NEW t \in Txs, HighPrioFull(t) PROVE StopOrder'
      BY <2>34, <2>0 DEF HighPrioFull, chanVars, workerVars, reqVars, retryVars,
          stopVars, TypeOK, StopOrder, Joined, Inflight, Workers
    <2>. QED
      BY NextCases, <2>1, <2>2, <2>3, <2>4, <2>5, <2>6, <2>7, <2>8, <2>9,
         <2>10, <2>11, <2>12, <2>13, <2>14, <2>15, <2>16, <2>17, <2>18, <2>19,
         <2>20, <2>21, <2>22, <2>23, <2>24, <2>25, <2>26, <2>27, <2>28, <2>29,
         <2>30, <2>31, <2>32, <2>33, <2>34
  <1>. QED
    BY <1>1, <1>2, TypeCorrect, PTL DEF Spec

\* When Stop has closed the channels, nobody can send on one of them or still
\* carries a transaction (domain_forwarder.go, Stop; worker.go, requeue).
THEOREM Quiet == Spec => []QuietWhenClosed
  <1>1. StopOrder => QuietWhenClosed
    BY DEF StopOrder, QuietWhenClosed, Joined
  <1>. QED
    BY <1>1, StopOrdered, PTL

-----------------------------------------------------------------------------

\* Every worker has been drained and Stop purges no further one.
Purged == how.purge /\ spc \in {"inflight", "close", "drain", "stopped"}

\* The inductive invariant behind NoSilentLoss.  Only a Stop that does not wait
\* makes contexts dead; once Stop has begun the submissions under way are those
\* it overtook, so that after the drain highPrio holds none but them.
LossIsLate ==
    /\ NoSilentLoss
    /\ spc = "running" \/ how.wait => \A w \in Workers : dead[w] = {}
    /\ spc # "running" => entered \cup full \subseteq late
    /\ Purged => highPrio \subseteq late
    /\ spc # "stopped" => saved

\* What most steps do with the variables of LossIsLate: none of them gives up a
\* transaction or moves Stop on.
LossKept ==
    /\ UNCHANGED <<spc, how, late, saved, lost>>
    /\ spc # "running" => entered' \cup full' \subseteq entered \cup full
    /\ highPrio' \subseteq highPrio \cup entered
    /\ \A w \in Workers : dead'[w] \subseteq dead[w]

\* Such a step keeps the invariant.
LEMMA KeepsLoss ==
    ASSUME TypeOK, LossIsLate, LossKept
    PROVE  LossIsLate'
  <1>1. NoSilentLoss'
    BY DEF LossIsLate, LossKept, NoSilentLoss
  <1>2. (spc = "running" \/ how.wait)' => \A w \in Workers : dead'[w] = {}
    BY DEF LossIsLate, LossKept
  <1>3. (spc # "running" => entered \cup full \subseteq late)'
    BY DEF LossIsLate, LossKept
  <1>4. (Purged => highPrio \subseteq late)'
    BY DEF LossIsLate, LossKept, Purged
  <1>5. (spc # "stopped" => saved)'
    BY DEF LossIsLate, LossKept
  <1>. QED
    BY <1>1, <1>2, <1>3, <1>4, <1>5 DEF LossIsLate

\* A running forwarder gives up nothing of its own accord, and a Stop that waits,
\* purges and saves its memory at most the submissions it overtook
\* (domain_forwarder.go, Stop; worker.go, drainHighPrio; transaction.go,
\* internalProcess).
THEOREM SilentLoss == Spec => []NoSilentLoss
  <1>1. Init => LossIsLate
    BY DEF Init, LossIsLate, NoSilentLoss, Purged
  <1>2. TypeOK /\ StopOrder /\ LossIsLate /\ [Next]_vars => LossIsLate'
    <2> SUFFICES ASSUME TypeOK, StopOrder, LossIsLate, [Next]_vars
                 PROVE  LossIsLate'
      OBVIOUS
    <2>1. ASSUME NEW t \in Txs, Submit(t) PROVE LossKept
      BY <2>1 DEF Submit, chanVars, reqVars, stopVars, endVars, LossKept
    <2>2. ASSUME NEW t \in Txs, SendHTTPTransactions(t) PROVE LossKept
      BY <2>2 DEF SendHTTPTransactions, reqVars, stopVars, endVars, LossKept
    <2>3. ASSUME NEW t \in Txs, SendOnClosedChannel(t) PROVE LossIsLate'
      <3>1. t \in late /\ spc # "running"
        BY <2>3 DEF SendOnClosedChannel, StopOrder, LossIsLate
      <3>2. /\ lost' = lost \cup {t} /\ entered' \subseteq entered
            /\ UNCHANGED <<spc, how, late, saved, full, highPrio, dead>>
        BY <2>3 DEF SendOnClosedChannel, chanVars, reqVars, stopVars
      <3>. QED
        BY <3>1, <3>2 DEF LossIsLate, NoSilentLoss, Purged
    <2>4. ASSUME NEW t \in Txs, SendDirect(t) \/ DirectSucceeds(t) \/ DirectFails(t)
          PROVE  LossKept
      BY <2>4 DEF SendDirect, DirectSucceeds, DirectFails, chanVars, reqVars,
          stopVars, endVars, LossKept
    <2>5. ASSUME NEW t \in Txs, HighPrioFull(t) PROVE LossIsLate'
      <3>1. /\ full' \subseteq full
            /\ UNCHANGED <<spc, how, late, saved, entered, highPrio, dead>>
        BY <2>5 DEF HighPrioFull, chanVars, reqVars, stopVars
      <3>2. CASE lost' = lost
        <4>1. LossKept
          BY <3>1, <3>2 DEF LossKept
        <4>. QED
          BY <4>1, KeepsLoss
      <3>3. CASE spc = "stopped" /\ lost' = lost \cup {t}
        <4>1. t \in late
          BY <2>5, <3>3 DEF HighPrioFull, LossIsLate
        <4>. QED
          BY <3>1, <3>3, <4>1 DEF LossIsLate, NoSilentLoss, Purged
      <3>. QED
        BY <2>5, <3>2, <3>3 DEF HighPrioFull
    <2>6. ASSUME NEW w \in Workers, TakeHighPrio(w) PROVE LossKept
      BY <2>6 DEF TakeHighPrio, txVars, reqVars, stopVars, endVars, LossKept
    <2>7. ASSUME NEW w \in Workers,
                 NothingUrgent(w) \/ TakeLowPrio(w) \/ SeeStop(w) \/ Acquire(w)
          PROVE  LossKept
      BY <2>7 DEF NothingUrgent, TakeLowPrio, SeeStop, Acquire, txVars,
          chanVars, reqVars, stopVars, endVars, LossKept
    <2>8. ASSUME NEW w \in Workers, AcquireFails(w) PROVE LossKept
      BY <2>8 DEF AcquireFails, Requeue, txVars, reqVars, stopVars, LossKept
    <2>9. ASSUME NEW w \in Workers, NEW t \in Txs,
                 Blocked(w, t) \/ ProcessOK(w, t) \/ ProcessFails(w, t)
          PROVE  LossKept
      <3>1. \A v \in Workers : dead'[v] \subseteq dead[v]
        BY <2>9 DEF Blocked, ProcessOK, ProcessFails, RequestEnds, TypeOK
      <3>2. UNCHANGED <<spc, how, late, saved, lost, entered, full, highPrio>>
        BY <2>9 DEF Blocked, ProcessOK, ProcessFails, Requeue, txVars, chanVars,
            stopVars
      <3>. QED
        BY <3>1, <3>2 DEF LossKept
    <2>10. ASSUME NEW w \in Workers, NEW t \in Txs, Process(w, t)
           PROVE  LossKept
      BY <2>10 DEF Process, txVars, chanVars, stopVars, endVars, LossKept
    <2>11. ASSUME NEW w \in Workers, NEW t \in Txs, ProcessCanceled(w, t)
           PROVE  LossIsLate'
      <3>1. spc # "running" /\ ~how.wait
        BY <2>11 DEF ProcessCanceled, LossIsLate
      <3>2. UNCHANGED <<spc, how, late, saved, entered, full, highPrio>>
        BY <2>11 DEF ProcessCanceled, txVars, chanVars, stopVars
      <3>. QED
        BY <3>1, <3>2 DEF LossIsLate, NoSilentLoss, Purged
    <2>12. ASSUME NEW t \in Txs, RetryOne(t) PROVE LossKept
      BY <2>12 DEF RetryOne, txVars, reqVars, stopVars, LossKept
    <2>13. CASE Tick \/ PassEnds \/ RequeueTransaction
      <3>1. LossKept
        BY <2>13 DEF Tick, PassEnds, RequeueTransaction, txVars, chanVars,
            reqVars, stopVars, endVars, LossKept
      <3>. QED
        BY <3>1, KeepsLoss
    <2>14. CASE StopBegins
      <3>1. spc = "running" /\ spc' = "retry" /\ late' = entered \cup full
        BY <2>14 DEF StopBegins
      <3>2. UNCHANGED <<saved, entered, full, highPrio, dead, lost>>
        BY <2>14 DEF StopBegins, txVars, chanVars, reqVars, endVars
      <3>. QED
        BY <3>1, <3>2 DEF LossIsLate, NoSilentLoss, Purged
    <2>15. CASE StopRetry \/ StopJoin
      <3>1. /\ spc \in {"retry", "join"} /\ spc' # "running"
            /\ Purged' => ~how.purge
        BY <2>15 DEF StopRetry, StopJoin, Purged
      <3>2. UNCHANGED <<how, late, saved, entered, full, highPrio, dead, lost>>
        BY <2>15 DEF StopRetry, StopJoin, txVars, chanVars, reqVars, endVars
      <3>. QED
        BY <3>1, <3>2 DEF LossIsLate, NoSilentLoss, Purged
    <2>16. CASE StopSignal
      <3>1. spc = "signal" /\ spc' = "join" /\ (how.wait => dead' = dead)
        BY <2>16 DEF StopSignal
      <3>2. UNCHANGED <<how, late, saved, entered, full, highPrio, lost>>
        BY <2>16 DEF StopSignal, txVars, chanVars, endVars
      <3>. QED
        BY <3>1, <3>2 DEF LossIsLate, NoSilentLoss, Purged
    <2>17. CASE PurgeOne \/ StopDrains
      <3>1. LossKept
        BY <2>17 DEF PurgeOne, StopDrains, txVars, reqVars, stopVars, endVars,
            LossKept
      <3>. QED
        BY <3>1, KeepsLoss
    <2>18. CASE PurgeEnds
      <3>1. spc = "purge" /\ spc' = "inflight" /\ highPrio = {}
        BY <2>18 DEF PurgeEnds
      <3>2. UNCHANGED <<how, late, saved, entered, full, highPrio, dead, lost>>
        BY <2>18 DEF PurgeEnds, txVars, chanVars, reqVars, endVars
      <3>. QED
        BY <3>1, <3>2 DEF LossIsLate, NoSilentLoss, Purged
    <2>19. CASE StopInflight
      <3>1. spc = "inflight" /\ spc' \in {"signal", "close"}
        BY <2>19 DEF StopInflight
      <3>2. UNCHANGED <<how, late, saved, entered, full, highPrio, dead, lost>>
        BY <2>19 DEF StopInflight, txVars, chanVars, reqVars, endVars
      <3>. QED
        BY <3>1, <3>2 DEF LossIsLate, NoSilentLoss, Purged
    <2>20. CASE StopCloses
      <3>1. /\ spc = "close" /\ spc' = "drain"
            /\ lost' = lost \cup highPrio /\ highPrio' = {}
        BY <2>20 DEF StopCloses
      <3>2. UNCHANGED <<how, late, saved, entered, full, dead>>
        BY <2>20 DEF StopCloses, txVars, reqVars
      <3>. QED
        BY <3>1, <3>2 DEF LossIsLate, NoSilentLoss, Purged
    <2>21. CASE StopFlushes
      <3>1. spc = "drain" /\ spc' = "stopped"
        BY <2>21 DEF StopFlushes
      <3>2. saved' => lost' = lost
        BY <2>21 DEF StopFlushes
      <3>3. UNCHANGED <<how, late, entered, full, highPrio, dead>>
        BY <2>21 DEF StopFlushes, txVars, chanVars, reqVars
      <3>. QED
        BY <3>1, <3>2, <3>3 DEF LossIsLate, NoSilentLoss, Purged
    <2>22. CASE (\E e \in Endpoints : Expire(e)) \/ UNCHANGED vars
      <3>1. LossKept
        BY <2>22 DEF Expire, vars, txVars, chanVars, reqVars, stopVars, endVars,
            LossKept
      <3>. QED
        BY <3>1, KeepsLoss
    <2>. QED
      BY NextCases, KeepsLoss, <2>1, <2>2, <2>3, <2>4, <2>5, <2>6, <2>7, <2>8,
         <2>9, <2>10, <2>11, <2>12, <2>13, <2>14, <2>15, <2>16, <2>17, <2>18,
         <2>19, <2>20, <2>21, <2>22
  <1>3. LossIsLate => NoSilentLoss
    BY DEF LossIsLate
  <1>. QED
    BY <1>1, <1>2, <1>3, TypeCorrect, StopOrdered, PTL DEF Spec

-----------------------------------------------------------------------------

\* The transactions at place p after a step that takes the set S from place a
\* to place b and, to make room for it, the set D from place b to place c.
After(p, a, S, b, D, c) ==
    IF p = a THEN At(p) \ S
    ELSE IF p = b THEN (At(p) \ D) \cup S
    ELSE IF p = c THEN At(p) \cup D
    ELSE At(p)

\* The shape of every hand-over of the forwarder: S goes from a to b, what b
\* evicts (D) goes to c, and every other place keeps what it has.
Moves(a, S, b, D, c) == \A p \in Places : At(p)' = After(p, a, S, b, D, c)

\* A hand-over between three distinct places, of transactions that are where
\* they are taken from, leaves every transaction in exactly one place. What the
\* actions of the forwarder do to transactions is reduced to this lemma.
LEMMA MovesKeepsOne ==
    ASSUME NEW a \in Places, NEW b \in Places, NEW c \in Places,
           a # b, b # c, a # c,
           NEW S \in SUBSET At(a), NEW D \in SUBSET At(b),
           ExactlyOnePlace, Moves(a, S, b, D, c)
    PROVE  ExactlyOnePlace'
  <1> SUFFICES ASSUME NEW t \in Txs
               PROVE  \E p \in Places : /\ t \in At(p)'
                                        /\ \A q \in Places : t \in At(q)' => q = p
    BY DEF ExactlyOnePlace
  <1>1. PICK p \in Places : /\ t \in At(p)
                            /\ \A q \in Places : t \in At(q) => q = p
    BY DEF ExactlyOnePlace
  <1>2. CASE t \in S
    <2>1. p = a
      BY <1>1, <1>2
    <2>2. t \in At(b)' /\ \A q \in Places : t \in At(q)' => q = b
      BY <1>1, <1>2, <2>1 DEF Moves, After
    <2>. QED
      BY <2>2
  <1>3. CASE t \in D
    <2>1. p = b
      BY <1>1, <1>3
    <2>2. t \in At(c)' /\ \A q \in Places : t \in At(q)' => q = c
      BY <1>1, <1>3, <2>1 DEF Moves, After
    <2>. QED
      BY <2>2
  <1>4. CASE t \notin S /\ t \notin D
    <2>1. t \in At(p)' /\ \A q \in Places : t \in At(q)' => q = p
      BY <1>1, <1>4 DEF Moves, After
    <2>. QED
      BY <2>1
  <1>. QED
    BY <1>2, <1>3, <1>4

\* A place is one of the twelve shared ones or belongs to one worker.
LEMMA PlaceCases ==
    ASSUME NEW p \in Places
    PROVE  \/ p = <<"fresh", 0>>
           \/ p = <<"entered", 0>>
           \/ p = <<"full", 0>>
           \/ p = <<"direct", 0>>
           \/ p = <<"highPrio", 0>>
           \/ p = <<"lowPrio", 0>>
           \/ p = <<"requeued", 0>>
           \/ p = <<"pass", 0>>
           \/ p = <<"stored", 0>>
           \/ p = <<"sent", 0>>
           \/ p = <<"dropped", 0>>
           \/ p = <<"lost", 0>>
           \/ \E w \in Workers : p = <<"hand", w>>
           \/ \E w \in Workers : p = <<"gate", w>>
           \/ \E w \in Workers : p = <<"wire", w>>
  BY DEF Places

\* Which variable holds the transactions of each place, before and after a step.
LEMMA AtValues ==
    /\ At(<<"fresh", 0>>) = fresh /\ At(<<"fresh", 0>>)' = fresh'
    /\ At(<<"entered", 0>>) = entered /\ At(<<"entered", 0>>)' = entered'
    /\ At(<<"full", 0>>) = full /\ At(<<"full", 0>>)' = full'
    /\ At(<<"direct", 0>>) = direct /\ At(<<"direct", 0>>)' = direct'
    /\ At(<<"highPrio", 0>>) = highPrio /\ At(<<"highPrio", 0>>)' = highPrio'
    /\ At(<<"lowPrio", 0>>) = lowPrio /\ At(<<"lowPrio", 0>>)' = lowPrio'
    /\ At(<<"requeued", 0>>) = requeued /\ At(<<"requeued", 0>>)' = requeued'
    /\ At(<<"pass", 0>>) = pass /\ At(<<"pass", 0>>)' = pass'
    /\ At(<<"stored", 0>>) = stored /\ At(<<"stored", 0>>)' = stored'
    /\ At(<<"sent", 0>>) = sent /\ At(<<"sent", 0>>)' = sent'
    /\ At(<<"dropped", 0>>) = dropped /\ At(<<"dropped", 0>>)' = dropped'
    /\ At(<<"lost", 0>>) = lost /\ At(<<"lost", 0>>)' = lost'
    /\ \A w \in Workers :
          /\ At(<<"hand", w>>) = hand[w] /\ At(<<"hand", w>>)' = hand'[w]
          /\ At(<<"gate", w>>) = gate[w] /\ At(<<"gate", w>>)' = gate'[w]
          /\ At(<<"wire", w>>) = wire[w] /\ At(<<"wire", w>>)' = wire'[w]
  BY DEF At

\* A step is a hand-over when it is one variable by variable.
LEMMA MovesIntro ==
    ASSUME NEW a, NEW b, NEW c, NEW S, NEW D,
           fresh' = After(<<"fresh", 0>>, a, S, b, D, c),
           entered' = After(<<"entered", 0>>, a, S, b, D, c),
           full' = After(<<"full", 0>>, a, S, b, D, c),
           direct' = After(<<"direct", 0>>, a, S, b, D, c),
           highPrio' = After(<<"highPrio", 0>>, a, S, b, D, c),
           lowPrio' = After(<<"lowPrio", 0>>, a, S, b, D, c),
           requeued' = After(<<"requeued", 0>>, a, S, b, D, c),
           pass' = After(<<"pass", 0>>, a, S, b, D, c),
           stored' = After(<<"stored", 0>>, a, S, b, D, c),
           sent' = After(<<"sent", 0>>, a, S, b, D, c),
           dropped' = After(<<"dropped", 0>>, a, S, b, D, c),
           lost' = After(<<"lost", 0>>, a, S, b, D, c),
           \A w \in Workers :
               /\ hand'[w] = After(<<"hand", w>>, a, S, b, D, c)
               /\ gate'[w] = After(<<"gate", w>>, a, S, b, D, c)
               /\ wire'[w] = After(<<"wire", w>>, a, S, b, D, c)
    PROVE  Moves(a, S, b, D, c)
  BY PlaceCases, AtValues, ZenonT(40) DEF Moves

\* The places a hand-over may name.
LEMMA PlaceMembers ==
    /\ <<"fresh", 0>> \in Places
    /\ <<"entered", 0>> \in Places
    /\ <<"full", 0>> \in Places
    /\ <<"direct", 0>> \in Places
    /\ <<"highPrio", 0>> \in Places
    /\ <<"lowPrio", 0>> \in Places
    /\ <<"requeued", 0>> \in Places
    /\ <<"pass", 0>> \in Places
    /\ <<"stored", 0>> \in Places
    /\ <<"sent", 0>> \in Places
    /\ <<"dropped", 0>> \in Places
    /\ <<"lost", 0>> \in Places
    /\ \A w \in Workers : /\ <<"hand", w>> \in Places
                          /\ <<"gate", w>> \in Places
                          /\ <<"wire", w>> \in Places
  BY DEF Places

\* A request that ends before it reached the wire only leaves the gate
\* (worker.go, callProcess).
LEMMA GateLeaves ==
    ASSUME NEW w \in Workers, NEW t \in gate[w], t \in Txs,
           RequestEnds(w, t), TypeOK, ExactlyOnePlace
    PROVE  gate' = [gate EXCEPT ![w] = @ \ {t}] /\ wire' = wire
  <1>1. t \notin wire[w]
    <2>1. <<"gate", w>> \in Places /\ <<"wire", w>> \in Places
      BY PlaceMembers
    <2>2. t \in At(<<"gate", w>>) /\ wire[w] = At(<<"wire", w>>)
      BY AtValues
    <2>3. <<"gate", w>> # <<"wire", w>>
      OBVIOUS
    <2>. QED
      BY <2>1, <2>2, <2>3 DEF ExactlyOnePlace
  <1>. QED
    BY <1>1 DEF RequestEnds, TypeOK

\* A request that ends on the wire only leaves the wire (worker.go,
\* callProcess).
LEMMA WireLeaves ==
    ASSUME NEW w \in Workers, NEW t \in wire[w], t \in Txs,
           RequestEnds(w, t), TypeOK, ExactlyOnePlace
    PROVE  wire' = [wire EXCEPT ![w] = @ \ {t}] /\ gate' = gate
  <1>1. t \notin gate[w]
    <2>1. <<"gate", w>> \in Places /\ <<"wire", w>> \in Places
      BY PlaceMembers
    <2>2. gate[w] = At(<<"gate", w>>) /\ t \in At(<<"wire", w>>)
      BY AtValues
    <2>3. <<"gate", w>> # <<"wire", w>>
      OBVIOUS
    <2>. QED
      BY <2>1, <2>2, <2>3 DEF ExactlyOnePlace
  <1>. QED
    BY <1>1 DEF RequestEnds, TypeOK

\* A step that moves no transaction keeps every one of them in its place.
LEMMA StaysPut ==
    ASSUME ExactlyOnePlace,
           UNCHANGED <<fresh, entered, full, direct, highPrio, lowPrio,
                       requeued, pass, stored, sent, dropped, lost, hand, gate,
                       wire>>
    PROVE  ExactlyOnePlace'
  BY DEF ExactlyOnePlace, At

\* A pass that takes S out of the retry queue, which loses D meanwhile, leaves
\* every transaction in one place (domain_forwarder.go, retryTransactions).
LEMMA TakesAndLoses ==
    ASSUME ExactlyOnePlace, pass = {},
           NEW S \in SUBSET stored, NEW D \in SUBSET (stored \ S),
           pass' = S, stored' = stored \ (S \cup D), dropped' = dropped \cup D,
           UNCHANGED <<fresh, entered, full, direct, highPrio, lowPrio,
                       requeued, sent, lost, hand, gate, wire>>
    PROVE  ExactlyOnePlace'
  <1> DEFINE st == <<"stored", 0>>
             pa == <<"pass", 0>>
             dr == <<"dropped", 0>>
  <1>1. /\ st \in Places /\ pa \in Places /\ dr \in Places
        /\ st # pa /\ st # dr /\ pa # dr
    BY PlaceMembers
  <1>2. /\ At(st) = stored /\ At(st)' = stored \ (S \cup D)
        /\ At(pa) = {} /\ At(pa)' = S
        /\ At(dr)' = At(dr) \cup D
    BY AtValues
  <1>3. ASSUME NEW q \in Places, q # st, q # pa, q # dr
        PROVE  At(q)' = At(q)
    <2>1. CASE \E w \in Workers : q \in {<<"hand", w>>, <<"gate", w>>, <<"wire", w>>}
      BY <2>1, AtValues, ZenonT(40)
    <2>2. CASE q \in {<<"fresh", 0>>, <<"entered", 0>>, <<"full", 0>>,
                      <<"direct", 0>>, <<"highPrio", 0>>, <<"lowPrio", 0>>}
      BY <2>2, AtValues
    <2>3. CASE q \in {<<"requeued", 0>>, <<"sent", 0>>, <<"lost", 0>>}
      BY <2>3, AtValues
    <2>. QED
      BY <1>3, <2>1, <2>2, <2>3, PlaceCases
  <1> HIDE DEF st, pa, dr
  <1> SUFFICES ASSUME NEW t \in Txs
               PROVE  \E p \in Places : /\ t \in At(p)'
                                        /\ \A q \in Places : t \in At(q)' => q = p
    BY DEF ExactlyOnePlace
  <1>4. PICK p \in Places : /\ t \in At(p)
                            /\ \A q \in Places : t \in At(q) => q = p
    BY DEF ExactlyOnePlace
  <1>5. CASE t \in S
    <2>1. p = st
      BY <1>1, <1>2, <1>4, <1>5
    <2>2. t \in At(pa)' /\ \A q \in Places : t \in At(q)' => q = pa
      BY <1>1, <1>2, <1>3, <1>4, <1>5, <2>1
    <2>. QED
      BY <1>1, <2>2
  <1>6. CASE t \in D
    <2>1. p = st
      BY <1>1, <1>2, <1>4, <1>6
    <2>2. t \in At(dr)' /\ \A q \in Places : t \in At(q)' => q = dr
      BY <1>1, <1>2, <1>3, <1>4, <1>6, <2>1
    <2>. QED
      BY <1>1, <2>2
  <1>7. CASE t \notin S /\ t \notin D
    <2>1. t \in At(p)' /\ \A q \in Places : t \in At(q)' => q = p
      BY <1>1, <1>2, <1>3, <1>4, <1>7
    <2>. QED
      BY <2>1
  <1>. QED
    BY <1>5, <1>6, <1>7

\* A direct send and the hand of a worker carry at most one transaction.
OneEach ==
    /\ \A t, u \in direct : t = u
    /\ \A w \in Workers : \A t, u \in hand[w] : t = u

\* Handlers take one transaction at a time (worker.go, Start;
\* default_forwarder.go, sendHTTPTransactionsDirect under the mutex).
LEMMA Singles == Spec => []OneEach
  <1>1. Init => OneEach
    BY DEF Init, OneEach
  <1>2. TypeOK /\ OneEach /\ [Next]_vars => OneEach'
    <2> SUFFICES ASSUME TypeOK, OneEach, [Next]_vars PROVE OneEach'
      OBVIOUS
    <2>1. ASSUME NEW t \in Txs, Submit(t) PROVE OneEach'
      BY <2>1 DEF Submit, chanVars, workerVars, reqVars, retryVars, stopVars,
          endVars, TypeOK, OneEach
    <2>2. ASSUME NEW t \in Txs, SendHTTPTransactions(t) PROVE OneEach'
      BY <2>2 DEF SendHTTPTransactions, workerVars, reqVars, retryVars,
          stopVars, endVars, TypeOK, OneEach
    <2>3. ASSUME NEW t \in Txs, SendOnClosedChannel(t) PROVE OneEach'
      BY <2>3 DEF SendOnClosedChannel, chanVars, workerVars, reqVars,
          retryVars, stopVars, TypeOK, OneEach
    <2>4. ASSUME NEW t \in Txs, SendDirect(t) PROVE OneEach'
      BY <2>4 DEF SendDirect, chanVars, workerVars, reqVars, retryVars,
          stopVars, endVars, TypeOK, OneEach
    <2>5. ASSUME NEW t \in Txs, DirectSucceeds(t) PROVE OneEach'
      BY <2>5 DEF DirectSucceeds, chanVars, workerVars, reqVars, retryVars,
          stopVars, TypeOK, OneEach
    <2>6. ASSUME NEW t \in Txs, DirectFails(t) PROVE OneEach'
      BY <2>6 DEF DirectFails, chanVars, workerVars, reqVars, retryVars,
          stopVars, endVars, TypeOK, OneEach
    <2>7. ASSUME NEW w \in Workers, TakeHighPrio(w) PROVE OneEach'
      BY <2>7 DEF TakeHighPrio, txVars, reqVars, retryVars, stopVars, endVars,
          TypeOK, OneEach
    <2>8. ASSUME NEW w \in Workers, NothingUrgent(w) PROVE OneEach'
      BY <2>8 DEF NothingUrgent, txVars, chanVars, reqVars, retryVars,
          stopVars, endVars, TypeOK, OneEach
    <2>9. ASSUME NEW w \in Workers, TakeLowPrio(w) PROVE OneEach'
      BY <2>9 DEF TakeLowPrio, txVars, reqVars, retryVars, stopVars, endVars,
          TypeOK, OneEach
    <2>10. ASSUME NEW w \in Workers, SeeStop(w) PROVE OneEach'
      BY <2>10 DEF SeeStop, txVars, chanVars, reqVars, retryVars, stopVars,
          endVars, TypeOK, OneEach
    <2>11. ASSUME NEW w \in Workers, Acquire(w) PROVE OneEach'
      BY <2>11 DEF Acquire, txVars, chanVars, retryVars, stopVars, endVars,
          TypeOK, OneEach
    <2>12. ASSUME NEW w \in Workers, AcquireFails(w) PROVE OneEach'
      BY <2>12 DEF AcquireFails, txVars, reqVars, retryVars, stopVars,
          Requeue, TypeOK, OneEach
    <2>13. ASSUME NEW w \in Workers, NEW t \in Txs, Blocked(w, t)
          PROVE  OneEach'
      BY <2>13 DEF Blocked, txVars, workerVars, retryVars, stopVars, Requeue,
          RequestEnds, TypeOK, OneEach
    <2>14. ASSUME NEW w \in Workers, NEW t \in Txs, Process(w, t)
          PROVE  OneEach'
      BY <2>14 DEF Process, txVars, chanVars, workerVars, retryVars, stopVars,
          endVars, TypeOK, OneEach
    <2>15. ASSUME NEW w \in Workers, NEW t \in Txs, ProcessOK(w, t)
          PROVE  OneEach'
      BY <2>15 DEF ProcessOK, txVars, chanVars, workerVars, retryVars,
          stopVars, RequestEnds, TypeOK, OneEach
    <2>16. ASSUME NEW w \in Workers, NEW t \in Txs, ProcessFails(w, t)
          PROVE  OneEach'
      BY <2>16 DEF ProcessFails, txVars, workerVars, retryVars, stopVars,
          Requeue, RequestEnds, TypeOK, OneEach
    <2>17. ASSUME NEW w \in Workers, NEW t \in Txs, ProcessCanceled(w, t)
          PROVE  OneEach'
      BY <2>17 DEF ProcessCanceled, txVars, chanVars, workerVars, retryVars,
          stopVars, RequestEnds, TypeOK, OneEach
    <2>18. ASSUME NEW t \in Txs, RetryOne(t) PROVE OneEach'
      BY <2>18 DEF RetryOne, txVars, workerVars, reqVars, stopVars,
          AddToRetryQueue, TypeOK, OneEach
    <2>19. ASSUME Tick PROVE OneEach'
      BY <2>19 DEF Tick, txVars, chanVars, workerVars, reqVars, stopVars,
          endVars, TypeOK, OneEach
    <2>20. ASSUME PassEnds PROVE OneEach'
      BY <2>20 DEF PassEnds, txVars, chanVars, workerVars, reqVars, stopVars,
          endVars, TypeOK, OneEach
    <2>21. ASSUME RequeueTransaction PROVE OneEach'
      BY <2>21 DEF RequeueTransaction, txVars, workerVars, reqVars, retryVars,
          stopVars, AddToRetryQueue, TypeOK, OneEach
    <2>22. ASSUME StopBegins PROVE OneEach'
      BY <2>22 DEF StopBegins, txVars, chanVars, workerVars, reqVars,
          retryVars, endVars, TypeOK, OneEach
    <2>23. ASSUME StopRetry PROVE OneEach'
      BY <2>23 DEF StopRetry, txVars, chanVars, workerVars, reqVars, endVars,
          TypeOK, OneEach
    <2>24. ASSUME StopSignal PROVE OneEach'
      BY <2>24 DEF StopSignal, txVars, chanVars, retryVars, endVars, TypeOK,
          OneEach
    <2>25. ASSUME StopJoin PROVE OneEach'
      BY <2>25 DEF StopJoin, txVars, chanVars, reqVars, retryVars, endVars,
          TypeOK, OneEach
    <2>26. ASSUME PurgeOne PROVE OneEach'
      BY <2>26 DEF PurgeOne, txVars, reqVars, retryVars, stopVars, endVars,
          TypeOK, OneEach
    <2>27. ASSUME PurgeEnds PROVE OneEach'
      BY <2>27 DEF PurgeEnds, txVars, chanVars, workerVars, reqVars,
          retryVars, endVars, TypeOK, OneEach
    <2>28. ASSUME StopInflight PROVE OneEach'
      BY <2>28 DEF StopInflight, txVars, chanVars, reqVars, retryVars,
          endVars, TypeOK, OneEach
    <2>29. ASSUME StopCloses PROVE OneEach'
      BY <2>29 DEF StopCloses, txVars, workerVars, reqVars, retryVars,
          endVars, TypeOK, OneEach
    <2>30. ASSUME StopDrains PROVE OneEach'
      BY <2>30 DEF StopDrains, txVars, workerVars, reqVars, retryVars,
          stopVars, AddToRetryQueue, TypeOK, OneEach
    <2>31. ASSUME StopFlushes PROVE OneEach'
      BY <2>31 DEF StopFlushes, txVars, chanVars, workerVars, reqVars,
          retryVars, TypeOK, OneEach
    <2>32. ASSUME NEW e \in Endpoints, Expire(e) PROVE OneEach'
      BY <2>32 DEF Expire, txVars, chanVars, workerVars, reqVars, retryVars,
          stopVars, endVars, TypeOK, OneEach
    <2>33. CASE UNCHANGED vars
      BY <2>33 DEF vars, txVars, chanVars, workerVars, reqVars, retryVars,
          stopVars, endVars, TypeOK, OneEach
    <2>34. ASSUME NEW t \in Txs, HighPrioFull(t) PROVE OneEach'
      BY <2>34 DEF HighPrioFull, chanVars, workerVars, reqVars, retryVars,
          stopVars, TypeOK, OneEach
    <2>. QED
      BY NextCases, <2>1, <2>2, <2>3, <2>4, <2>5, <2>6, <2>7, <2>8, <2>9,
         <2>10, <2>11, <2>12, <2>13, <2>14, <2>15, <2>16, <2>17, <2>18, <2>19,
         <2>20, <2>21, <2>22, <2>23, <2>24, <2>25, <2>26, <2>27, <2>28, <2>29,
         <2>30, <2>31, <2>32, <2>33, <2>34
  <1>. QED
    BY <1>1, <1>2, TypeCorrect, PTL DEF Spec

\* Every transaction is in exactly one place: the hand-overs between
\* submitters, channels, workers, requests, retry goroutine, store and Stop
\* neither copy nor lose one.
THEOREM OnePlace == Spec => []ExactlyOnePlace
  <1>1. Init => ExactlyOnePlace
    <2> SUFFICES ASSUME Init, NEW t \in Txs
                 PROVE  /\ t \in At(<<"fresh", 0>>)
                        /\ \A q \in Places : t \in At(q) => q = <<"fresh", 0>>
      BY PlaceMembers DEF ExactlyOnePlace
    <2>. QED
      BY PlaceCases, AtValues DEF Init
  <1>2. TypeOK /\ StopOrder /\ OneEach /\ ExactlyOnePlace /\ [Next]_vars
          => ExactlyOnePlace'
    <2> SUFFICES ASSUME TypeOK, StopOrder, OneEach, ExactlyOnePlace, [Next]_vars
                 PROVE  ExactlyOnePlace'
      OBVIOUS
    <2>1. ASSUME NEW t \in Txs, Submit(t) PROVE ExactlyOnePlace'
      <3>1. UNCHANGED <<full, direct, highPrio, lowPrio, requeued, pass,
                        stored, sent, dropped, lost, hand, gate, wire>>
        BY <2>1 DEF Submit, chanVars, workerVars, reqVars, retryVars,
            stopVars, endVars
      <3>2. /\ fresh' = fresh \ {t}
            /\ entered' = entered \cup {t}
            /\ t \in fresh
        BY <2>1 DEF Submit, chanVars, workerVars, reqVars, retryVars,
            stopVars, endVars
      <3>3. Moves(<<"fresh", 0>>, {t}, <<"entered", 0>>, {}, <<"lost", 0>>)
        BY <3>1, <3>2, MovesIntro, AtValues DEF TypeOK, After
      <3>. QED
        BY <3>2, <3>3, MovesKeepsOne, AtValues, PlaceMembers
    <2>2. ASSUME NEW t \in Txs, SendHTTPTransactions(t) PROVE ExactlyOnePlace'
      <3>1. CASE Cardinality(highPrio) < HighCap
        <4>1. UNCHANGED <<fresh, full, direct, lowPrio, requeued, pass, stored,
                          sent, dropped, lost, hand, gate, wire>>
          BY <2>2, <3>1 DEF SendHTTPTransactions, workerVars, reqVars,
              retryVars, endVars
        <4>2. /\ entered' = entered \ {t}
              /\ highPrio' = highPrio \cup {t}
              /\ t \in entered
          BY <2>2, <3>1 DEF SendHTTPTransactions
        <4>3. Moves(<<"entered", 0>>, {t}, <<"highPrio", 0>>, {}, <<"lost", 0>>)
          BY <4>1, <4>2, MovesIntro, AtValues DEF TypeOK, After
        <4>. QED
          BY <4>2, <4>3, MovesKeepsOne, AtValues, PlaceMembers
      <3>2. CASE ~(Cardinality(highPrio) < HighCap)
        <4>1. UNCHANGED <<fresh, direct, highPrio, lowPrio, requeued, pass,
                          stored, sent, dropped, lost, hand, gate, wire>>
          BY <2>2, <3>2 DEF SendHTTPTransactions, workerVars, reqVars,
              retryVars, endVars
        <4>2. /\ entered' = entered \ {t}
              /\ full' = full \cup {t}
              /\ t \in entered
          BY <2>2, <3>2 DEF SendHTTPTransactions
        <4>3. Moves(<<"entered", 0>>, {t}, <<"full", 0>>, {}, <<"lost", 0>>)
          BY <4>1, <4>2, MovesIntro, AtValues DEF TypeOK, After
        <4>. QED
          BY <4>2, <4>3, MovesKeepsOne, AtValues, PlaceMembers
      <3>. QED
        BY <3>1, <3>2
    <2>3. ASSUME NEW t \in Txs, SendOnClosedChannel(t) PROVE ExactlyOnePlace'
      <3>1. UNCHANGED <<fresh, full, direct, highPrio, lowPrio, requeued,
                        pass, stored, sent, dropped, hand, gate, wire>>
        BY <2>3 DEF SendOnClosedChannel, chanVars, workerVars, reqVars,
            retryVars, stopVars
      <3>2. /\ entered' = entered \ {t}
            /\ lost' = lost \cup {t}
            /\ t \in entered
        BY <2>3 DEF SendOnClosedChannel, chanVars, workerVars, reqVars,
            retryVars, stopVars
      <3>3. Moves(<<"entered", 0>>, {t}, <<"lost", 0>>, {}, <<"dropped", 0>>)
        BY <3>1, <3>2, MovesIntro, AtValues DEF TypeOK, After
      <3>. QED
        BY <3>2, <3>3, MovesKeepsOne, AtValues, PlaceMembers
    <2>4. ASSUME NEW t \in Txs, SendDirect(t) PROVE ExactlyOnePlace'
      <3>1. UNCHANGED <<entered, full, highPrio, lowPrio, requeued, pass,
                        stored, sent, dropped, lost, hand, gate, wire>>
        BY <2>4 DEF SendDirect, chanVars, workerVars, reqVars, retryVars,
            stopVars, endVars
      <3>2. /\ fresh' = fresh \ {t}
            /\ direct' = direct \cup {t}
            /\ t \in fresh
        BY <2>4 DEF SendDirect, chanVars, workerVars, reqVars, retryVars,
            stopVars, endVars
      <3>3. Moves(<<"fresh", 0>>, {t}, <<"direct", 0>>, {}, <<"lost", 0>>)
        BY <3>1, <3>2, MovesIntro, AtValues DEF TypeOK, After
      <3>. QED
        BY <3>2, <3>3, MovesKeepsOne, AtValues, PlaceMembers
    <2>5. ASSUME NEW t \in Txs, DirectSucceeds(t) PROVE ExactlyOnePlace'
      <3>1. CASE sent' = sent \cup {t} /\ dropped' = dropped
        <4>1. UNCHANGED <<fresh, entered, full, highPrio, lowPrio, requeued,
                          pass, stored, dropped, lost, hand, gate, wire>>
          BY <2>5, <3>1 DEF DirectSucceeds, chanVars, workerVars, reqVars,
              retryVars, stopVars, OneEach
        <4>2. /\ direct' = direct \ {t}
              /\ sent' = sent \cup {t}
              /\ t \in direct
          BY <2>5, <3>1 DEF DirectSucceeds, chanVars, workerVars, reqVars,
              retryVars, stopVars, OneEach
        <4>3. Moves(<<"direct", 0>>, {t}, <<"sent", 0>>, {}, <<"lost", 0>>)
          BY <4>1, <4>2, MovesIntro, AtValues DEF TypeOK, After
        <4>. QED
          BY <4>2, <4>3, MovesKeepsOne, AtValues, PlaceMembers
      <3>2. CASE dropped' = dropped \cup {t} /\ sent' = sent
        <4>1. UNCHANGED <<fresh, entered, full, highPrio, lowPrio, requeued,
                          pass, stored, sent, lost, hand, gate, wire>>
          BY <2>5, <3>2 DEF DirectSucceeds, chanVars, workerVars, reqVars,
              retryVars, stopVars, OneEach
        <4>2. /\ direct' = direct \ {t}
              /\ dropped' = dropped \cup {t}
              /\ t \in direct
          BY <2>5, <3>2 DEF DirectSucceeds, chanVars, workerVars, reqVars,
              retryVars, stopVars, OneEach
        <4>3. Moves(<<"direct", 0>>, {t}, <<"dropped", 0>>, {}, <<"lost", 0>>)
          BY <4>1, <4>2, MovesIntro, AtValues DEF TypeOK, After
        <4>. QED
          BY <4>2, <4>3, MovesKeepsOne, AtValues, PlaceMembers
      <3>. QED
        BY <2>5, <3>1, <3>2 DEF DirectSucceeds
    <2>6. ASSUME NEW t \in Txs, DirectFails(t) PROVE ExactlyOnePlace'
      <3>1. UNCHANGED <<entered, full, highPrio, lowPrio, requeued, pass,
                        stored, sent, dropped, lost, hand, gate, wire>>
        BY <2>6 DEF DirectFails, chanVars, workerVars, reqVars, retryVars,
            stopVars, endVars, OneEach
      <3>2. /\ direct' = direct \ {t}
            /\ fresh' = fresh \cup {t}
            /\ t \in direct
        BY <2>6 DEF DirectFails, chanVars, workerVars, reqVars, retryVars,
            stopVars, endVars, OneEach
      <3>3. Moves(<<"direct", 0>>, {t}, <<"fresh", 0>>, {}, <<"lost", 0>>)
        BY <3>1, <3>2, MovesIntro, AtValues DEF TypeOK, After
      <3>. QED
        BY <3>2, <3>3, MovesKeepsOne, AtValues, PlaceMembers
    <2>7. ASSUME NEW w \in Workers, TakeHighPrio(w) PROVE ExactlyOnePlace'
      <3>1. PICK t \in highPrio : /\ highPrio' = highPrio \ {t}
                                  /\ hand' = [hand EXCEPT ![w] = {t}]
        BY <2>7 DEF TakeHighPrio
      <3>2. hand[w] = {}
        BY <2>7 DEF TakeHighPrio, StopOrder
      <3>3. UNCHANGED <<fresh, entered, full, direct, lowPrio, requeued, pass,
                        stored, sent, dropped, lost, gate, wire>>
        BY <2>7, <3>1, <3>2 DEF TakeHighPrio, txVars, reqVars, retryVars,
            stopVars, endVars, TypeOK
      <3>4. /\ highPrio' = highPrio \ {t}
            /\ hand' = [hand EXCEPT ![w] = @ \cup {t}]
            /\ t \in highPrio
        BY <2>7, <3>1, <3>2 DEF TakeHighPrio, txVars, reqVars, retryVars,
            stopVars, endVars, TypeOK
      <3>5. Moves(<<"highPrio", 0>>, {t}, <<"hand", w>>, {}, <<"lost", 0>>)
        BY <3>3, <3>4, MovesIntro, AtValues, ZenonT(60) DEF TypeOK, After
      <3>6. {t} \in SUBSET At(<<"highPrio", 0>>)
        BY <3>4, AtValues
      <3>7. /\ <<"highPrio", 0>> \in Places /\ <<"hand", w>> \in Places
            /\ <<"lost", 0>> \in Places
        BY <3>4, PlaceMembers
      <3>. QED
        BY <3>5, <3>6, <3>7, MovesKeepsOne
    <2>8. ASSUME NEW w \in Workers, NothingUrgent(w) PROVE ExactlyOnePlace'
      BY <2>8, StaysPut DEF NothingUrgent, txVars, chanVars, reqVars,
          retryVars, stopVars, endVars
    <2>9. ASSUME NEW w \in Workers, TakeLowPrio(w) PROVE ExactlyOnePlace'
      <3>1. PICK t \in lowPrio : /\ lowPrio' = lowPrio \ {t}
                                 /\ hand' = [hand EXCEPT ![w] = {t}]
        BY <2>9 DEF TakeLowPrio
      <3>2. hand[w] = {}
        BY <2>9 DEF TakeLowPrio, StopOrder
      <3>3. UNCHANGED <<fresh, entered, full, direct, highPrio, requeued,
                        pass, stored, sent, dropped, lost, gate, wire>>
        BY <2>9, <3>1, <3>2 DEF TakeLowPrio, txVars, reqVars, retryVars,
            stopVars, endVars, TypeOK
      <3>4. /\ lowPrio' = lowPrio \ {t}
            /\ hand' = [hand EXCEPT ![w] = @ \cup {t}]
            /\ t \in lowPrio
        BY <2>9, <3>1, <3>2 DEF TakeLowPrio, txVars, reqVars, retryVars,
            stopVars, endVars, TypeOK
      <3>5. Moves(<<"lowPrio", 0>>, {t}, <<"hand", w>>, {}, <<"lost", 0>>)
        BY <3>3, <3>4, MovesIntro, AtValues, ZenonT(60) DEF TypeOK, After
      <3>6. {t} \in SUBSET At(<<"lowPrio", 0>>)
        BY <3>4, AtValues
      <3>7. /\ <<"lowPrio", 0>> \in Places /\ <<"hand", w>> \in Places
            /\ <<"lost", 0>> \in Places
        BY <3>4, PlaceMembers
      <3>. QED
        BY <3>5, <3>6, <3>7, MovesKeepsOne
    <2>10. ASSUME NEW w \in Workers, SeeStop(w) PROVE ExactlyOnePlace'
      BY <2>10, StaysPut DEF SeeStop, txVars, chanVars, reqVars, retryVars,
          stopVars, endVars
    <2>11. ASSUME NEW w \in Workers, Acquire(w) PROVE ExactlyOnePlace'
      <3>1. PICK t \in hand[w] : hand[w] = {t}
        <4>1. PICK t \in hand[w] : TRUE
          BY <2>11 DEF Acquire
        <4>. QED
          BY <4>1 DEF OneEach
      <3>2. UNCHANGED <<fresh, entered, full, direct, highPrio, lowPrio,
                        requeued, pass, stored, sent, dropped, lost, wire>>
        BY <2>11 DEF Acquire, txVars, chanVars, retryVars, stopVars,
            endVars, TypeOK
      <3>3. /\ hand' = [hand EXCEPT ![w] = @ \ {t}]
            /\ gate' = [gate EXCEPT ![w] = @ \cup {t}]
            /\ t \in hand[w]
        <4>1. hand[w] \ {t} = {} /\ gate[w] \cup hand[w] = gate[w] \cup {t}
          BY <3>1
        <4>2. /\ hand' = [hand EXCEPT ![w] = hand[w] \ {t}]
              /\ gate' = [gate EXCEPT ![w] = gate[w] \cup {t}]
          <5>1. /\ hand' = [hand EXCEPT ![w] = {}]
                /\ gate' = [gate EXCEPT ![w] = gate[w] \cup hand[w]]
            BY <2>11 DEF Acquire
          <5>. QED
            BY <4>1, <5>1, Zenon
        <4>. QED
          BY <3>1, <4>2
      <3>4. Moves(<<"hand", w>>, {t}, <<"gate", w>>, {}, <<"lost", 0>>)
        <4> DEFINE Aft(p) == After(p, <<"hand", w>>, {t}, <<"gate", w>>, {},
                                   <<"lost", 0>>)
        <4>1. ASSUME NEW v \in Workers
              PROVE  /\ hand'[v] = Aft(<<"hand", v>>)
                     /\ gate'[v] = Aft(<<"gate", v>>)
                     /\ wire'[v] = Aft(<<"wire", v>>)
          <5>1. /\ hand'[v] = IF v = w THEN hand[v] \ {t} ELSE hand[v]
                /\ gate'[v] = IF v = w THEN gate[v] \cup {t} ELSE gate[v]
                /\ wire'[v] = wire[v]
            BY <3>2, <3>3 DEF TypeOK
          <5>. QED
            BY <5>1, AtValues DEF After
        <4>2. /\ fresh' = Aft(<<"fresh", 0>>)
              /\ entered' = Aft(<<"entered", 0>>)
              /\ full' = Aft(<<"full", 0>>)
              /\ direct' = Aft(<<"direct", 0>>)
              /\ highPrio' = Aft(<<"highPrio", 0>>)
              /\ lowPrio' = Aft(<<"lowPrio", 0>>)
              /\ requeued' = Aft(<<"requeued", 0>>)
              /\ pass' = Aft(<<"pass", 0>>)
              /\ stored' = Aft(<<"stored", 0>>)
              /\ sent' = Aft(<<"sent", 0>>)
              /\ dropped' = Aft(<<"dropped", 0>>)
              /\ lost' = Aft(<<"lost", 0>>)
          BY <3>2, AtValues DEF After
        <4>. QED
          BY <4>1, <4>2, MovesIntro
      <3>5. {t} \in SUBSET At(<<"hand", w>>)
        BY <3>3, AtValues
      <3>6. /\ <<"hand", w>> \in Places /\ <<"gate", w>> \in Places
            /\ <<"lost", 0>> \in Places
        BY <3>3, PlaceMembers
      <3>. QED
        BY <3>4, <3>5, <3>6, MovesKeepsOne
    <2>12. ASSUME NEW w \in Workers, AcquireFails(w) PROVE ExactlyOnePlace'
      <3>1. PICK t \in hand[w] : Requeue(t)
        BY <2>12 DEF AcquireFails
      <3>2. /\ Requeue(t) /\ t \in hand[w]
            /\ hand' = [hand EXCEPT ![w] = @ \ {t}]
        <4>1. hand[w] \ {t} = {}
          BY <3>1 DEF OneEach
        <4>. QED
          BY <2>12, <3>1, <4>1 DEF AcquireFails, TypeOK
      <3>3. CASE Cardinality(requeued) < RequeueCap
        <4>1. UNCHANGED <<fresh, entered, full, direct, highPrio, lowPrio,
                          pass, stored, sent, dropped, lost, gate, wire>>
          BY <2>12, <3>3, <3>2 DEF AcquireFails, txVars, reqVars, retryVars,
              stopVars, Requeue, OneEach, TypeOK
        <4>2. /\ hand' = [hand EXCEPT ![w] = @ \ {t}]
              /\ requeued' = requeued \cup {t}
              /\ t \in hand[w]
          BY <2>12, <3>3, <3>2 DEF AcquireFails, txVars, reqVars, retryVars,
              stopVars, Requeue, OneEach, TypeOK
        <4>3. Moves(<<"hand", w>>, {t}, <<"requeued", 0>>, {}, <<"lost", 0>>)
          BY <4>1, <4>2, MovesIntro, AtValues, ZenonT(60) DEF TypeOK, After
        <4>4. {t} \in SUBSET At(<<"hand", w>>)
          BY <4>2, AtValues
        <4>5. /\ <<"hand", w>> \in Places /\ <<"requeued", 0>> \in Places
              /\ <<"lost", 0>> \in Places
          BY <4>2, PlaceMembers
        <4>. QED
          BY <4>3, <4>4, <4>5, MovesKeepsOne
      <3>4. CASE ~(Cardinality(requeued) < RequeueCap)
        <4>1. UNCHANGED <<fresh, entered, full, direct, highPrio, lowPrio,
                          requeued, pass, stored, sent, lost, gate, wire>>
          BY <2>12, <3>4, <3>2 DEF AcquireFails, txVars, reqVars, retryVars,
              stopVars, Requeue, OneEach, TypeOK
        <4>2. /\ hand' = [hand EXCEPT ![w] = @ \ {t}]
              /\ dropped' = dropped \cup {t}
              /\ t \in hand[w]
          BY <2>12, <3>4, <3>2 DEF AcquireFails, txVars, reqVars, retryVars,
              stopVars, Requeue, OneEach, TypeOK
        <4>3. Moves(<<"hand", w>>, {t}, <<"dropped", 0>>, {}, <<"lost", 0>>)
          BY <4>1, <4>2, MovesIntro, AtValues, ZenonT(60) DEF TypeOK, After
        <4>4. {t} \in SUBSET At(<<"hand", w>>)
          BY <4>2, AtValues
        <4>5. /\ <<"hand", w>> \in Places /\ <<"dropped", 0>> \in Places
              /\ <<"lost", 0>> \in Places
          BY <4>2, PlaceMembers
        <4>. QED
          BY <4>3, <4>4, <4>5, MovesKeepsOne
      <3>. QED
        BY <2>12, <3>3, <3>4
    <2>13. ASSUME NEW w \in Workers, NEW t \in Txs, Blocked(w, t)
          PROVE  ExactlyOnePlace'
      <3>1. CASE Cardinality(requeued) < RequeueCap
        <4>1. UNCHANGED <<fresh, entered, full, direct, highPrio, lowPrio,
                          pass, stored, sent, dropped, lost, hand>>
          BY <2>13, <3>1 DEF Blocked, txVars, workerVars, retryVars, stopVars,
              Requeue
        <4>2. /\ gate' = [gate EXCEPT ![w] = @ \ {t}]
              /\ wire' = wire
              /\ requeued' = requeued \cup {t}
              /\ t \in gate[w]
          BY <2>13, <3>1, GateLeaves DEF Blocked, txVars, workerVars,
              retryVars, stopVars, Requeue
        <4>3. Moves(<<"gate", w>>, {t}, <<"requeued", 0>>, {}, <<"lost", 0>>)
          BY <4>1, <4>2, MovesIntro, AtValues, ZenonT(60) DEF TypeOK, After
        <4>4. {t} \in SUBSET At(<<"gate", w>>)
          BY <4>2, AtValues
        <4>5. /\ <<"gate", w>> \in Places /\ <<"requeued", 0>> \in Places
              /\ <<"lost", 0>> \in Places
          BY <4>2, PlaceMembers
        <4>. QED
          BY <4>3, <4>4, <4>5, MovesKeepsOne
      <3>2. CASE ~(Cardinality(requeued) < RequeueCap)
        <4>1. UNCHANGED <<fresh, entered, full, direct, highPrio, lowPrio,
                          requeued, pass, stored, sent, lost, hand>>
          BY <2>13, <3>2 DEF Blocked, txVars, workerVars, retryVars, stopVars,
              Requeue
        <4>2. /\ gate' = [gate EXCEPT ![w] = @ \ {t}]
              /\ wire' = wire
              /\ dropped' = dropped \cup {t}
              /\ t \in gate[w]
          BY <2>13, <3>2, GateLeaves DEF Blocked, txVars, workerVars,
              retryVars, stopVars, Requeue
        <4>3. Moves(<<"gate", w>>, {t}, <<"dropped", 0>>, {}, <<"lost", 0>>)
          BY <4>1, <4>2, MovesIntro, AtValues, ZenonT(60) DEF TypeOK, After
        <4>4. {t} \in SUBSET At(<<"gate", w>>)
          BY <4>2, AtValues
        <4>5. /\ <<"gate", w>> \in Places /\ <<"dropped", 0>> \in Places
              /\ <<"lost", 0>> \in Places
          BY <4>2, PlaceMembers
        <4>. QED
          BY <4>3, <4>4, <4>5, MovesKeepsOne
      <3>. QED
        BY <2>13, <3>1, <3>2
    <2>14. ASSUME NEW w \in Workers, NEW t \in Txs, Process(w, t)
          PROVE  ExactlyOnePlace'
      <3>1. UNCHANGED <<fresh, entered, full, direct, highPrio, lowPrio,
                        requeued, pass, stored, sent, dropped, lost, hand>>
        BY <2>14 DEF Process, txVars, chanVars, workerVars, retryVars,
            stopVars, endVars
      <3>2. /\ gate' = [gate EXCEPT ![w] = @ \ {t}]
            /\ wire' = [wire EXCEPT ![w] = @ \cup {t}]
            /\ t \in gate[w]
        BY <2>14 DEF Process, txVars, chanVars, workerVars, retryVars,
            stopVars, endVars
      <3>3. Moves(<<"gate", w>>, {t}, <<"wire", w>>, {}, <<"lost", 0>>)
        BY <3>1, <3>2, MovesIntro, AtValues, ZenonT(60) DEF TypeOK, After
      <3>4. {t} \in SUBSET At(<<"gate", w>>)
        BY <3>2, AtValues
      <3>5. /\ <<"gate", w>> \in Places /\ <<"wire", w>> \in Places
            /\ <<"lost", 0>> \in Places
        BY <3>2, PlaceMembers
      <3>. QED
        BY <3>3, <3>4, <3>5, MovesKeepsOne
    <2>15. ASSUME NEW w \in Workers, NEW t \in Txs, ProcessOK(w, t)
          PROVE  ExactlyOnePlace'
      <3>1. CASE sent' = sent \cup {t} /\ dropped' = dropped
        <4>1. UNCHANGED <<fresh, entered, full, direct, highPrio, lowPrio,
                          requeued, pass, stored, dropped, lost, hand>>
          BY <2>15, <3>1 DEF ProcessOK, txVars, chanVars, workerVars,
              retryVars, stopVars
        <4>2. /\ wire' = [wire EXCEPT ![w] = @ \ {t}]
              /\ gate' = gate
              /\ sent' = sent \cup {t}
              /\ t \in wire[w]
          BY <2>15, <3>1, WireLeaves DEF ProcessOK, txVars, chanVars,
              workerVars, retryVars, stopVars
        <4>3. Moves(<<"wire", w>>, {t}, <<"sent", 0>>, {}, <<"lost", 0>>)
          BY <4>1, <4>2, MovesIntro, AtValues, ZenonT(60) DEF TypeOK, After
        <4>4. {t} \in SUBSET At(<<"wire", w>>)
          BY <4>2, AtValues
        <4>5. /\ <<"wire", w>> \in Places /\ <<"sent", 0>> \in Places
              /\ <<"lost", 0>> \in Places
          BY <4>2, PlaceMembers
        <4>. QED
          BY <4>3, <4>4, <4>5, MovesKeepsOne
      <3>2. CASE dropped' = dropped \cup {t} /\ sent' = sent
        <4>1. UNCHANGED <<fresh, entered, full, direct, highPrio, lowPrio,
                          requeued, pass, stored, sent, lost, hand>>
          BY <2>15, <3>2 DEF ProcessOK, txVars, chanVars, workerVars,
              retryVars, stopVars
        <4>2. /\ wire' = [wire EXCEPT ![w] = @ \ {t}]
              /\ gate' = gate
              /\ dropped' = dropped \cup {t}
              /\ t \in wire[w]
          BY <2>15, <3>2, WireLeaves DEF ProcessOK, txVars, chanVars,
              workerVars, retryVars, stopVars
        <4>3. Moves(<<"wire", w>>, {t}, <<"dropped", 0>>, {}, <<"lost", 0>>)
          BY <4>1, <4>2, MovesIntro, AtValues, ZenonT(60) DEF TypeOK, After
        <4>4. {t} \in SUBSET At(<<"wire", w>>)
          BY <4>2, AtValues
        <4>5. /\ <<"wire", w>> \in Places /\ <<"dropped", 0>> \in Places
              /\ <<"lost", 0>> \in Places
          BY <4>2, PlaceMembers
        <4>. QED
          BY <4>3, <4>4, <4>5, MovesKeepsOne
      <3>. QED
        BY <2>15, <3>1, <3>2 DEF ProcessOK
    <2>16. ASSUME NEW w \in Workers, NEW t \in Txs, ProcessFails(w, t)
          PROVE  ExactlyOnePlace'
      <3>1. CASE Cardinality(requeued) < RequeueCap
        <4>1. UNCHANGED <<fresh, entered, full, direct, highPrio, lowPrio,
                          pass, stored, sent, dropped, lost, hand>>
          BY <2>16, <3>1 DEF ProcessFails, txVars, workerVars, retryVars,
              stopVars, Requeue
        <4>2. /\ wire' = [wire EXCEPT ![w] = @ \ {t}]
              /\ gate' = gate
              /\ requeued' = requeued \cup {t}
              /\ t \in wire[w]
          BY <2>16, <3>1, WireLeaves DEF ProcessFails, txVars, workerVars,
              retryVars, stopVars, Requeue
        <4>3. Moves(<<"wire", w>>, {t}, <<"requeued", 0>>, {}, <<"lost", 0>>)
          BY <4>1, <4>2, MovesIntro, AtValues, ZenonT(60) DEF TypeOK, After
        <4>4. {t} \in SUBSET At(<<"wire", w>>)
          BY <4>2, AtValues
        <4>5. /\ <<"wire", w>> \in Places /\ <<"requeued", 0>> \in Places
              /\ <<"lost", 0>> \in Places
          BY <4>2, PlaceMembers
        <4>. QED
          BY <4>3, <4>4, <4>5, MovesKeepsOne
      <3>2. CASE ~(Cardinality(requeued) < RequeueCap)
        <4>1. UNCHANGED <<fresh, entered, full, direct, highPrio, lowPrio,
                          requeued, pass, stored, sent, lost, hand>>
          BY <2>16, <3>2 DEF ProcessFails, txVars, workerVars, retryVars,
              stopVars, Requeue
        <4>2. /\ wire' = [wire EXCEPT ![w] = @ \ {t}]
              /\ gate' = gate
              /\ dropped' = dropped \cup {t}
              /\ t \in wire[w]
          BY <2>16, <3>2, WireLeaves DEF ProcessFails, txVars, workerVars,
              retryVars, stopVars, Requeue
        <4>3. Moves(<<"wire", w>>, {t}, <<"dropped", 0>>, {}, <<"lost", 0>>)
          BY <4>1, <4>2, MovesIntro, AtValues, ZenonT(60) DEF TypeOK, After
        <4>4. {t} \in SUBSET At(<<"wire", w>>)
          BY <4>2, AtValues
        <4>5. /\ <<"wire", w>> \in Places /\ <<"dropped", 0>> \in Places
              /\ <<"lost", 0>> \in Places
          BY <4>2, PlaceMembers
        <4>. QED
          BY <4>3, <4>4, <4>5, MovesKeepsOne
      <3>. QED
        BY <2>16, <3>1, <3>2
    <2>17. ASSUME NEW w \in Workers, NEW t \in Txs, ProcessCanceled(w, t)
          PROVE  ExactlyOnePlace'
      <3>1. UNCHANGED <<fresh, entered, full, direct, highPrio, lowPrio,
                        requeued, pass, stored, sent, dropped, hand>>
        BY <2>17 DEF ProcessCanceled, txVars, chanVars, workerVars, retryVars,
            stopVars
      <3>2. /\ wire' = [wire EXCEPT ![w] = @ \ {t}]
            /\ gate' = gate
            /\ lost' = lost \cup {t}
            /\ t \in wire[w]
        BY <2>17, WireLeaves DEF ProcessCanceled, txVars, chanVars,
            workerVars, retryVars, stopVars
      <3>3. Moves(<<"wire", w>>, {t}, <<"lost", 0>>, {}, <<"dropped", 0>>)
        BY <3>1, <3>2, MovesIntro, AtValues, ZenonT(60) DEF TypeOK, After
      <3>4. {t} \in SUBSET At(<<"wire", w>>)
        BY <3>2, AtValues
      <3>5. /\ <<"wire", w>> \in Places /\ <<"lost", 0>> \in Places
            /\ <<"dropped", 0>> \in Places
        BY <3>2, PlaceMembers
      <3>. QED
        BY <3>3, <3>4, <3>5, MovesKeepsOne
    <2>18. ASSUME NEW t \in Txs, RetryOne(t) PROVE ExactlyOnePlace'
      <3> DEFINE go == /\ ~BlockedForRetry(cb[Target[t]], Target[t] \in listed)
                       /\ Cardinality(lowPrio) < LowCap
      <3>1. CASE go
        <4>1. UNCHANGED <<fresh, entered, full, direct, highPrio, requeued,
                          stored, sent, dropped, lost, hand, gate, wire>>
          BY <2>18, <3>1 DEF RetryOne, txVars, workerVars, reqVars, stopVars
        <4>2. /\ pass' = pass \ {t}
              /\ lowPrio' = lowPrio \cup {t}
              /\ t \in pass
          BY <2>18, <3>1 DEF RetryOne, txVars, workerVars, reqVars, stopVars
        <4>3. Moves(<<"pass", 0>>, {t}, <<"lowPrio", 0>>, {}, <<"lost", 0>>)
          BY <4>1, <4>2, MovesIntro, AtValues DEF TypeOK, After
        <4>. QED
          BY <4>2, <4>3, MovesKeepsOne, AtValues, PlaceMembers
      <3>2. CASE ~go
        <4>1. AddToRetryQueue(t)
          BY <2>18, <3>2 DEF RetryOne
        <4>2. PICK D \in SUBSET stored : /\ stored' = (stored \ D) \cup {t}
                                         /\ dropped' = dropped \cup D
          BY <2>18, <3>2, <4>1 DEF AddToRetryQueue
        <4>3. UNCHANGED <<fresh, entered, full, direct, highPrio, lowPrio,
                          requeued, sent, lost, hand, gate, wire>>
          BY <2>18, <3>2, <4>1, <4>2 DEF RetryOne, txVars, workerVars,
              reqVars, stopVars
        <4>4. /\ pass' = pass \ {t}
              /\ stored' = (stored \ D) \cup {t}
              /\ dropped' = dropped \cup D
              /\ t \in pass /\ D \subseteq stored
          BY <2>18, <3>2, <4>1, <4>2 DEF RetryOne, txVars, workerVars,
              reqVars, stopVars
        <4>5. Moves(<<"pass", 0>>, {t}, <<"stored", 0>>, D, <<"dropped", 0>>)
          BY <4>3, <4>4, MovesIntro, AtValues DEF TypeOK, After
        <4>. QED
          BY <4>4, <4>5, MovesKeepsOne, AtValues, PlaceMembers
      <3>. QED
        BY <3>1, <3>2
    <2>19. ASSUME Tick PROVE ExactlyOnePlace'
      <3>1. PICK S \in SUBSET stored, D \in SUBSET stored :
               /\ D \subseteq stored \ S
               /\ pass' = S
               /\ stored' = stored \ (S \cup D)
               /\ dropped' = dropped \cup D
        BY <2>19 DEF Tick
      <3>2. pass = {}
        BY <2>19 DEF Tick, StopOrder
      <3>3. UNCHANGED <<fresh, entered, full, direct, highPrio, lowPrio,
                        requeued, sent, lost, hand, gate, wire>>
        BY <2>19 DEF Tick, txVars, chanVars, workerVars, reqVars
      <3>. QED
        BY <3>1, <3>2, <3>3, TakesAndLoses
    <2>20. ASSUME PassEnds PROVE ExactlyOnePlace'
      BY <2>20, StaysPut DEF PassEnds, txVars, chanVars, workerVars, reqVars,
          stopVars, endVars
    <2>21. ASSUME RequeueTransaction PROVE ExactlyOnePlace'
      <3>1. PICK t \in requeued : requeued' = requeued \ {t} /\ AddToRetryQueue(t)
        BY <2>21 DEF RequeueTransaction
      <3>2. PICK D \in SUBSET stored : /\ stored' = (stored \ D) \cup {t}
                                       /\ dropped' = dropped \cup D
        BY <2>21, <3>1 DEF AddToRetryQueue
      <3>3. UNCHANGED <<fresh, entered, full, direct, highPrio, lowPrio, pass,
                        sent, lost, hand, gate, wire>>
        BY <2>21, <3>1, <3>2 DEF RequeueTransaction, txVars, workerVars,
            reqVars, retryVars, stopVars
      <3>4. /\ requeued' = requeued \ {t}
            /\ stored' = (stored \ D) \cup {t}
            /\ dropped' = dropped \cup D
            /\ t \in requeued /\ D \subseteq stored
        BY <2>21, <3>1, <3>2 DEF RequeueTransaction, txVars, workerVars,
            reqVars, retryVars, stopVars
      <3>5. Moves(<<"requeued", 0>>, {t}, <<"stored", 0>>, D, <<"dropped", 0>>)
        BY <3>3, <3>4, MovesIntro, AtValues DEF TypeOK, After
      <3>. QED
        BY <3>4, <3>5, MovesKeepsOne, AtValues, PlaceMembers
    <2>22. ASSUME StopBegins PROVE ExactlyOnePlace'
      BY <2>22, StaysPut DEF StopBegins, txVars, chanVars, workerVars,
          reqVars, retryVars, endVars
    <2>23. ASSUME StopRetry PROVE ExactlyOnePlace'
      BY <2>23, StaysPut DEF StopRetry, txVars, chanVars, workerVars, reqVars,
          endVars
    <2>24. ASSUME StopSignal PROVE ExactlyOnePlace'
      BY <2>24, StaysPut DEF StopSignal, txVars, chanVars, retryVars, endVars
    <2>25. ASSUME StopJoin PROVE ExactlyOnePlace'
      BY <2>25, StaysPut DEF StopJoin, txVars, chanVars, reqVars, retryVars,
          endVars
    <2>26. ASSUME PurgeOne PROVE ExactlyOnePlace'
      <3>1. PICK t \in highPrio : /\ highPrio' = highPrio \ {t}
                                  /\ hand' = [hand EXCEPT ![sw] = {t}]
        BY <2>26 DEF PurgeOne
      <3>2. sw \in Workers /\ hand[sw] = {}
        BY <2>26 DEF PurgeOne, TypeOK
      <3>3. UNCHANGED <<fresh, entered, full, direct, lowPrio, requeued, pass,
                        stored, sent, dropped, lost, gate, wire>>
        BY <2>26, <3>1, <3>2 DEF PurgeOne, txVars, reqVars, retryVars,
            stopVars, endVars, TypeOK
      <3>4. /\ highPrio' = highPrio \ {t}
            /\ hand' = [hand EXCEPT ![sw] = @ \cup {t}]
            /\ t \in highPrio /\ sw \in Workers
        BY <2>26, <3>1, <3>2 DEF PurgeOne, txVars, reqVars, retryVars,
            stopVars, endVars, TypeOK
      <3>5. Moves(<<"highPrio", 0>>, {t}, <<"hand", sw>>, {}, <<"lost", 0>>)
        BY <3>3, <3>4, MovesIntro, AtValues, ZenonT(60) DEF TypeOK, After
      <3>6. {t} \in SUBSET At(<<"highPrio", 0>>)
        BY <3>4, AtValues
      <3>7. /\ <<"highPrio", 0>> \in Places /\ <<"hand", sw>> \in Places
            /\ <<"lost", 0>> \in Places
        BY <3>4, PlaceMembers
      <3>. QED
        BY <3>5, <3>6, <3>7, MovesKeepsOne
    <2>27. ASSUME PurgeEnds PROVE ExactlyOnePlace'
      BY <2>27, StaysPut DEF PurgeEnds, txVars, chanVars, workerVars, reqVars,
          retryVars, endVars
    <2>28. ASSUME StopInflight PROVE ExactlyOnePlace'
      BY <2>28, StaysPut DEF StopInflight, txVars, chanVars, reqVars,
          retryVars, endVars
    <2>29. ASSUME StopCloses PROVE ExactlyOnePlace'
      <3>1. UNCHANGED <<fresh, entered, full, direct, lowPrio, requeued, pass,
                        stored, sent, dropped, hand, gate, wire>>
        BY <2>29 DEF StopCloses, txVars, workerVars, reqVars, retryVars
      <3>2. /\ highPrio' = highPrio \ highPrio
            /\ lost' = lost \cup highPrio
        BY <2>29 DEF StopCloses
      <3>3. Moves(<<"highPrio", 0>>, highPrio, <<"lost", 0>>, {}, <<"dropped", 0>>)
        BY <3>1, <3>2, MovesIntro, AtValues DEF TypeOK, After
      <3>. QED
        BY <3>3, MovesKeepsOne, AtValues, PlaceMembers
    <2>30. ASSUME StopDrains PROVE ExactlyOnePlace'
      <3>1. PICK t \in IF requeued # {} THEN requeued ELSE lowPrio :
               /\ requeued' = requeued \ {t}
               /\ lowPrio' = lowPrio \ {t}
               /\ AddToRetryQueue(t)
        BY <2>30 DEF StopDrains
      <3>2. t \notin requeued \/ t \notin lowPrio
        BY AtValues, PlaceMembers, <3>1 DEF ExactlyOnePlace, TypeOK
      <3>3. CASE requeued # {}
        <4>1. PICK D \in SUBSET stored : /\ stored' = (stored \ D) \cup {t}
                                         /\ dropped' = dropped \cup D
          BY <2>30, <3>1, <3>2, <3>3 DEF AddToRetryQueue
        <4>2. UNCHANGED <<fresh, entered, full, direct, highPrio, pass, sent,
                          lost, hand, gate, wire>>
          BY <2>30, <3>1, <3>2, <3>3, <4>1 DEF StopDrains, txVars, workerVars,
              reqVars, retryVars, stopVars
        <4>3. /\ requeued' = requeued \ {t}
              /\ stored' = (stored \ D) \cup {t}
              /\ dropped' = dropped \cup D
              /\ lowPrio' = lowPrio
              /\ t \in requeued /\ D \subseteq stored
          BY <2>30, <3>1, <3>2, <3>3, <4>1 DEF StopDrains, txVars, workerVars,
              reqVars, retryVars, stopVars
        <4>4. Moves(<<"requeued", 0>>, {t}, <<"stored", 0>>, D, <<"dropped", 0>>)
          BY <4>2, <4>3, MovesIntro, AtValues DEF TypeOK, After
        <4>. QED
          BY <4>3, <4>4, MovesKeepsOne, AtValues, PlaceMembers
      <3>4. CASE requeued = {}
        <4>1. PICK D \in SUBSET stored : /\ stored' = (stored \ D) \cup {t}
                                         /\ dropped' = dropped \cup D
          BY <2>30, <3>1, <3>2, <3>4 DEF AddToRetryQueue
        <4>2. UNCHANGED <<fresh, entered, full, direct, highPrio, pass, sent,
                          lost, hand, gate, wire>>
          BY <2>30, <3>1, <3>2, <3>4, <4>1 DEF StopDrains, txVars, workerVars,
              reqVars, retryVars, stopVars
        <4>3. /\ lowPrio' = lowPrio \ {t}
              /\ stored' = (stored \ D) \cup {t}
              /\ dropped' = dropped \cup D
              /\ requeued' = requeued
              /\ t \in lowPrio /\ D \subseteq stored
          BY <2>30, <3>1, <3>2, <3>4, <4>1 DEF StopDrains, txVars, workerVars,
              reqVars, retryVars, stopVars
        <4>4. Moves(<<"lowPrio", 0>>, {t}, <<"stored", 0>>, D, <<"dropped", 0>>)
          BY <4>2, <4>3, MovesIntro, AtValues DEF TypeOK, After
        <4>. QED
          BY <4>3, <4>4, MovesKeepsOne, AtValues, PlaceMembers
      <3>. QED
        BY <3>3, <3>4
    <2>31. ASSUME StopFlushes PROVE ExactlyOnePlace'
      <3>1. PICK D \in SUBSET stored :
               /\ stored' = stored \ D
               /\ \/ dropped' = dropped \cup D /\ lost' = lost
                  \/ lost' = lost \cup D /\ dropped' = dropped
        BY <2>31 DEF StopFlushes
      <3>2. UNCHANGED <<fresh, entered, full, direct, highPrio, lowPrio,
                        requeued, pass, sent, hand, gate, wire>>
        BY <2>31 DEF StopFlushes, txVars, chanVars, workerVars, reqVars,
            retryVars
      <3>3. CASE dropped' = dropped \cup D /\ lost' = lost
        <4>1. Moves(<<"stored", 0>>, D, <<"dropped", 0>>, {}, <<"lost", 0>>)
          BY <3>1, <3>2, <3>3, MovesIntro, AtValues DEF TypeOK, After
        <4>. QED
          BY <4>1, MovesKeepsOne, AtValues, PlaceMembers
      <3>4. CASE lost' = lost \cup D /\ dropped' = dropped
        <4>1. Moves(<<"stored", 0>>, D, <<"lost", 0>>, {}, <<"dropped", 0>>)
          BY <3>1, <3>2, <3>4, MovesIntro, AtValues DEF TypeOK, After
        <4>. QED
          BY <4>1, MovesKeepsOne, AtValues, PlaceMembers
      <3>. QED
        BY <3>1, <3>3, <3>4
    <2>32. ASSUME NEW e \in Endpoints, Expire(e) PROVE ExactlyOnePlace'
      BY <2>32, StaysPut DEF Expire, txVars, chanVars, workerVars, reqVars,
          retryVars, stopVars, endVars
    <2>33. CASE UNCHANGED vars
      BY <2>33, StaysPut DEF vars, txVars, chanVars, workerVars, reqVars,
          retryVars, stopVars, endVars
    <2>34. ASSUME NEW t \in Txs, HighPrioFull(t) PROVE ExactlyOnePlace'
      <3>1. /\ full' = full \ {t} /\ t \in full
            /\ UNCHANGED <<fresh, entered, direct, highPrio, lowPrio, requeued,
                           pass, sent, hand, gate, wire>>
        BY <2>34 DEF HighPrioFull, chanVars, workerVars, reqVars, retryVars
      <3>2. CASE AddToRetryQueue(t) /\ lost' = lost
        <4>1. PICK D \in SUBSET stored : /\ stored' = (stored \ D) \cup {t}
                                         /\ dropped' = dropped \cup D
          BY <3>2 DEF AddToRetryQueue
        <4>2. Moves(<<"full", 0>>, {t}, <<"stored", 0>>, D, <<"dropped", 0>>)
          BY <3>1, <3>2, <4>1, MovesIntro, AtValues DEF TypeOK, After
        <4>. QED
          BY <3>1, <4>1, <4>2, MovesKeepsOne, AtValues, PlaceMembers
      <3>3. CASE lost' = lost \cup {t} /\ UNCHANGED <<stored, dropped>>
        <4>1. Moves(<<"full", 0>>, {t}, <<"lost", 0>>, {}, <<"dropped", 0>>)
          BY <3>1, <3>3, MovesIntro, AtValues DEF TypeOK, After
        <4>. QED
          BY <3>1, <4>1, MovesKeepsOne, AtValues, PlaceMembers
      <3>. QED
        BY <2>34, <3>2, <3>3 DEF HighPrioFull
    <2>. QED
      BY NextCases, <2>1, <2>2, <2>3, <2>4, <2>5, <2>6, <2>7, <2>8, <2>9,
         <2>10, <2>11, <2>12, <2>13, <2>14, <2>15, <2>16, <2>17, <2>18, <2>19,
         <2>20, <2>21, <2>22, <2>23, <2>24, <2>25, <2>26, <2>27, <2>28, <2>29,
         <2>30, <2>31, <2>32, <2>33, <2>34
  <1>. QED
    BY <1>1, <1>2, TypeCorrect, StopOrdered, Singles, PTL DEF Spec

-----------------------------------------------------------------------------
(* The forwarder drives the circuit breaker as BlockedEndpoints allows, so   *)
(* that what is proved of the breaker alone holds inside the forwarder.  The *)
(* argument needs that a transaction is in exactly one place: a second copy  *)
(* on the wire would answer the breaker twice.                               *)

\* The transactions whose requests wait for an answer of the intake.
OnWire == direct \cup UNION {wire[w] : w \in Workers}

Sends == [e \in Endpoints |-> Sending(e)]

\* A transaction that is submitted, at the gate or on the wire is nowhere else
\* on the wire.
LEMMA OnWireOnce ==
    ASSUME ExactlyOnePlace, NEW t \in Txs
    PROVE  /\ t \in fresh => t \notin OnWire
           /\ \A w \in Workers : t \in gate[w] => t \notin OnWire
           /\ t \in direct => \A v \in Workers : t \notin wire[v]
           /\ \A w \in Workers :
                 t \in wire[w] => /\ t \notin direct
                                  /\ \A v \in Workers \ {w} : t \notin wire[v]
  <1>1. \A p, q \in Places : t \in At(p) /\ t \in At(q) => p = q
    BY DEF ExactlyOnePlace
  <1>2. t \in fresh => t \notin direct /\ \A v \in Workers : t \notin wire[v]
    BY <1>1, PlaceMembers, AtValues
  <1>3. \A w \in Workers : t \in gate[w] =>
            t \notin direct /\ \A v \in Workers : t \notin wire[v]
    BY <1>1, PlaceMembers, AtValues
  <1>4. t \in direct => \A v \in Workers : t \notin wire[v]
    BY <1>1, PlaceMembers, AtValues
  <1>5. \A w \in Workers : t \in wire[w] =>
            t \notin direct /\ \A v \in Workers \ {w} : t \notin wire[v]
    BY <1>1, PlaceMembers, AtValues, ZenonT(40)
  <1>. QED
    BY <1>2, <1>3, <1>4, <1>5 DEF OnWire

\* What BlockedEndpoints calls sending, in terms of the wire.
LEMMA SendsOnWire ==
    ASSUME NEW e \in Endpoints
    PROVE  /\ Sends[e] = {t \in OnWire : Target[t] = e}
           /\ Sends'[e] = {t \in OnWire' : Target[t] = e}
  BY DEF Sends, Sending, OnWire

\* A request that is admitted is sent, for its endpoint and for no other.
LEMMA SendsMore ==
    ASSUME NEW t \in Txs, OnWire' = OnWire \cup {t}
    PROVE  Sends' = [Sends EXCEPT ![Target[t]] = @ \cup {t}]
  <1>1. Target[t] \in Endpoints
    BY ForwarderAssumption
  <1>2. DOMAIN Sends = Endpoints /\ DOMAIN Sends' = Endpoints
    BY DEF Sends
  <1>3. ASSUME NEW e \in Endpoints
        PROVE  Sends'[e] = IF e = Target[t] THEN Sends[e] \cup {t} ELSE Sends[e]
    <2>1. /\ Sends[e] = {u \in OnWire : Target[u] = e}
          /\ Sends'[e] = {u \in OnWire \cup {t} : Target[u] = e}
      BY SendsOnWire
    <2>2. CASE e = Target[t]
      BY <2>1, <2>2
    <2>3. CASE e # Target[t]
      BY <2>1, <2>3
    <2>. QED
      BY <2>2, <2>3
  <1>4. Sends' = [e \in Endpoints |-> Sends'[e]]
    BY DEF Sends
  <1>. QED
    BY <1>1, <1>2, <1>3, <1>4

\* A request that is answered is no longer sent.
LEMMA SendsLess ==
    ASSUME NEW t \in Txs, OnWire' = OnWire \ {t}
    PROVE  Sends' = [Sends EXCEPT ![Target[t]] = @ \ {t}]
  <1>1. Target[t] \in Endpoints
    BY ForwarderAssumption
  <1>2. DOMAIN Sends = Endpoints /\ DOMAIN Sends' = Endpoints
    BY DEF Sends
  <1>3. ASSUME NEW e \in Endpoints
        PROVE  Sends'[e] = IF e = Target[t] THEN Sends[e] \ {t} ELSE Sends[e]
    <2>1. /\ Sends[e] = {u \in OnWire : Target[u] = e}
          /\ Sends'[e] = {u \in OnWire \ {t} : Target[u] = e}
      BY SendsOnWire
    <2>2. CASE e = Target[t]
      BY <2>1, <2>2
    <2>3. CASE e # Target[t]
      BY <2>1, <2>3
    <2>. QED
      BY <2>2, <2>3
  <1>4. Sends' = [e \in Endpoints |-> Sends'[e]]
    BY DEF Sends
  <1>. QED
    BY <1>1, <1>2, <1>3, <1>4

\* A step that changes neither the breaker nor the wire is no step of the
\* breaker.
LEMMA NotOnWire ==
    ASSUME UNCHANGED <<cb, direct, wire>>
    PROVE  UNCHANGED <<cb, Sends>>
  BY DEF Sends, Sending

\* Forwarder and breaker use the same functions on one record.
LEMMA SameFunctions ==
    ASSUME NEW b
    PROVE  /\ Breaker!AdmitBlock(b) = AdmitBlock(b)
           /\ Breaker!CloseBlock(b) = CloseBlock(b)
           /\ Breaker!RecoverBlock(b) = RecoverBlock(b)
           /\ Breaker!BlockedForSend(b) <=> BlockedForSend(b)
           /\ Breaker!NoBlock = NoBlock
  BY DEF Breaker!AdmitBlock, AdmitBlock, Breaker!CloseBlock, CloseBlock,
         Breaker!RecoverBlock, RecoverBlock, Breaker!BlockedForSend,
         BlockedForSend, Breaker!NoBlock, NoBlock, Breaker!BlockFor, BlockFor,
         Breaker!IncError, IncError, Breaker!DecError, DecError

\* isBlockForSend lets a request go (worker.go, process).
LEMMA Admitted ==
    ASSUME ExactlyOnePlace, NEW t \in Txs, t \notin OnWire,
           ~BlockedForSend(cb[Target[t]]),
           cb' = [cb EXCEPT ![Target[t]] = AdmitBlock(@)],
           OnWire' = OnWire \cup {t}
    PROVE  Breaker!Next
  <1>1. Target[t] \in Endpoints
    BY ForwarderAssumption
  <1>2. \A e \in Endpoints : t \notin Sends[e]
    BY SendsOnWire
  <1>3. Sends' = [Sends EXCEPT ![Target[t]] = @ \cup {t}]
    BY SendsMore
  <1>4. Breaker!IsBlockForSend(Target[t], t)
    BY <1>2, <1>3, SameFunctions DEF Breaker!IsBlockForSend, Breaker!Idle, Sends
  <1>. QED
    BY <1>1, <1>4 DEF Breaker!Next

\* A request is answered and the breaker is told (worker.go, process;
\* domain_forwarder.go, sendHTTPTransactionDirect).
LEMMA Answered ==
    ASSUME ExactlyOnePlace, NEW t \in Txs, t \in OnWire,
           \/ cb' = [cb EXCEPT ![Target[t]] = CloseBlock(@)]
           \/ cb' = [cb EXCEPT ![Target[t]] = RecoverBlock(@)],
           OnWire' = OnWire \ {t}
    PROVE  Breaker!Next
  <1>1. Target[t] \in Endpoints
    BY ForwarderAssumption
  <1>2. t \in Sends[Target[t]]
    BY <1>1, SendsOnWire
  <1>3. Sends' = [Sends EXCEPT ![Target[t]] = @ \ {t}]
    BY SendsLess
  <1>4. Breaker!Close(Target[t], t) \/ Breaker!Recover(Target[t], t)
    BY <1>2, <1>3, SameFunctions DEF Breaker!Close, Breaker!Recover, Sends
  <1>. QED
    BY <1>1, <1>4 DEF Breaker!Next

\* Workers, their requests, canceled ones included, and direct senders ask and
\* tell the breaker as BlockedEndpoints describes (worker.go, process;
\* transaction.go, internalProcess).
THEOREM DrivesBreaker == Spec => ImplementsBreaker
  <1>1. Init => Breaker!Init
    <2> SUFFICES ASSUME Init PROVE Breaker!Init
      OBVIOUS
    <2>1. OnWire = {}
      BY DEF Init, OnWire
    <2>2. \A e \in Endpoints : Sends[e] = {}
      BY <2>1, SendsOnWire
    <2>. QED
      BY <2>2, SameFunctions DEF Init, Breaker!Init, Sends
  <1>2. TypeOK /\ OneEach /\ ExactlyOnePlace /\ [Next]_vars
          => [Breaker!Next]_(Breaker!vars)
    <2> SUFFICES ASSUME TypeOK, OneEach, ExactlyOnePlace, [Next]_vars
                 PROVE  Breaker!Next \/ UNCHANGED <<cb, Sends>>
      BY DEF Sends, Breaker!vars
    <2>1. ASSUME NEW t \in Txs, SendDirect(t) PROVE Breaker!Next
      <3>1. t \notin OnWire
        BY <2>1, OnWireOnce DEF SendDirect
      <3>2. OnWire' = OnWire \cup {t}
        BY <2>1 DEF SendDirect, OnWire, reqVars
      <3>. QED
        BY <2>1, <3>1, <3>2, Admitted DEF SendDirect
    <2>2. ASSUME NEW w \in Workers, NEW t \in Txs, Process(w, t)
          PROVE  Breaker!Next
      <3>1. t \notin OnWire
        BY <2>2, OnWireOnce DEF Process
      <3>2. OnWire' = OnWire \cup {t}
        <4>1. direct' = direct /\ \A v \in Workers :
                 wire'[v] = IF v = w THEN wire[v] \cup {t} ELSE wire[v]
          BY <2>2 DEF Process, txVars, TypeOK
        <4>. QED
          BY <4>1 DEF OnWire
      <3>. QED
        BY <2>2, <3>1, <3>2, Admitted DEF Process
    <2>3. ASSUME NEW t \in Txs, DirectSucceeds(t) \/ DirectFails(t)
          PROVE  Breaker!Next
      <3>1. direct = {t} /\ direct' = {} /\ wire' = wire
        BY <2>3 DEF DirectSucceeds, DirectFails, OneEach, reqVars
      <3>2. t \in OnWire /\ \A v \in Workers : t \notin wire[v]
        BY <3>1, OnWireOnce DEF OnWire
      <3>3. OnWire' = OnWire \ {t}
        BY <3>1, <3>2 DEF OnWire
      <3>. QED
        BY <2>3, <3>2, <3>3, Answered DEF DirectSucceeds, DirectFails
    <2>4. ASSUME NEW w \in Workers, NEW t \in Txs,
                 \/ ProcessOK(w, t) \/ ProcessFails(w, t)
                 \/ ProcessCanceled(w, t)
          PROVE  Breaker!Next
      <3>1. /\ t \in wire[w] /\ direct' = direct
            /\ wire' = [wire EXCEPT ![w] = @ \ {t}]
        BY <2>4 DEF ProcessOK, ProcessFails, ProcessCanceled, RequestEnds,
              txVars
      <3>2. /\ t \in OnWire /\ t \notin direct
            /\ \A v \in Workers \ {w} : t \notin wire[v]
        BY <3>1, OnWireOnce DEF OnWire
      <3>3. OnWire' = OnWire \ {t}
        <4>1. \A v \in Workers : wire'[v] = wire[v] \ {t}
          BY <3>1, <3>2 DEF TypeOK
        <4>. QED
          BY <3>1, <3>2, <4>1 DEF OnWire
      <3>. QED
        BY <2>4, <3>2, <3>3, Answered DEF ProcessOK, ProcessFails,
              ProcessCanceled
    <2>5. ASSUME NEW w \in Workers, NEW t \in Txs, Blocked(w, t)
          PROVE  UNCHANGED <<cb, Sends>>
      <3>1. wire' = wire
        BY <2>5, GateLeaves DEF Blocked
      <3>. QED
        BY <2>5, <3>1, NotOnWire DEF Blocked, txVars
    <2>6. ASSUME NEW e \in Endpoints, Expire(e) PROVE Breaker!Next
      <3>1. UNCHANGED Sends
        BY <2>6 DEF Expire, Sends, Sending, txVars, reqVars
      <3>. QED
        BY <2>6, <3>1 DEF Expire, Breaker!Expire, Breaker!Next, Sends
    <2>7. ASSUME NEW t \in Txs,
                 \/ Submit(t) \/ SendHTTPTransactions(t)
                 \/ SendOnClosedChannel(t) \/ HighPrioFull(t) \/ RetryOne(t)
          PROVE  UNCHANGED <<cb, Sends>>
      BY <2>7, NotOnWire DEF Submit, SendHTTPTransactions, HighPrioFull,
            SendOnClosedChannel, RetryOne, txVars, reqVars
    <2>8. ASSUME NEW w \in Workers,
                 \/ TakeHighPrio(w) \/ NothingUrgent(w) \/ TakeLowPrio(w)
                 \/ SeeStop(w) \/ Acquire(w) \/ AcquireFails(w)
          PROVE  UNCHANGED <<cb, Sends>>
      BY <2>8, NotOnWire DEF TakeHighPrio, NothingUrgent, TakeLowPrio,
            SeeStop, Acquire, AcquireFails, txVars, reqVars
    <2>9. CASE Tick \/ PassEnds \/ RequeueTransaction
      BY <2>9, NotOnWire DEF Tick, PassEnds, RequeueTransaction, txVars,
            reqVars
    <2>10. CASE \/ StopBegins \/ StopRetry \/ StopSignal \/ StopJoin
                \/ PurgeOne \/ PurgeEnds \/ StopInflight \/ StopCloses
                \/ StopDrains \/ StopFlushes
      BY <2>10, NotOnWire DEF StopBegins, StopRetry, StopSignal, StopJoin,
            PurgeOne, PurgeEnds, StopInflight, StopCloses, StopDrains,
            StopFlushes, txVars, reqVars
    <2>11. CASE UNCHANGED vars
      BY <2>11, NotOnWire DEF vars, txVars, reqVars
    <2>. QED
      BY NextCases, <2>1, <2>2, <2>3, <2>4, <2>5, <2>6, <2>7, <2>8, <2>9,
         <2>10, <2>11
  <1>. QED
    BY <1>1, <1>2, TypeCorrect, Singles, OnePlace, PTL
       DEF Spec, ImplementsBreaker, Breaker!Spec

-----------------------------------------------------------------------------
(* What is proved of the breaker holds in the forwarder. *)

Alone == INSTANCE BlockedEndpointsProofs WITH Requests <- Txs, sending <- Sends

\* A half-blocked endpoint has a request on the wire.
NeverWedged ==
    \A e \in Endpoints :
        cb[e].state = "halfBlocked" => \E t \in OnWire : Target[t] = e

\* No endpoint is left half-blocked by a forwarder whose requests are canceled,
\* requeued or given up: a request whose answer ends the probe is on the wire
\* (blocked_endpoints.go, isBlockForSend; worker.go, process).
THEOREM ForwarderNoWedge == Spec => []NeverWedged
  <1>1. ImplementsBreaker => Alone!Spec
    <2>1. Breaker!Init => Alone!Init
      BY DEF Breaker!Init, Alone!Init, Breaker!NoBlock, Alone!NoBlock, Sends
    <2>2. Breaker!Next => Alone!Next
      BY DEF Breaker!Next, Alone!Next, Breaker!Expire, Alone!Expire,
         Breaker!IsBlockForSend, Alone!IsBlockForSend, Breaker!Close,
         Alone!Close, Breaker!Recover, Alone!Recover, Breaker!Idle, Alone!Idle,
         Breaker!AdmitBlock, Alone!AdmitBlock, Breaker!CloseBlock,
         Alone!CloseBlock, Breaker!RecoverBlock, Alone!RecoverBlock,
         Breaker!BlockedForSend, Alone!BlockedForSend, Breaker!BlockFor,
         Alone!BlockFor, Breaker!IncError, Alone!IncError, Breaker!DecError,
         Alone!DecError, Sends
    <2>3. UNCHANGED Breaker!vars => UNCHANGED Alone!vars
      BY DEF Breaker!vars, Alone!vars, Sends
    <2>. QED
      BY <2>1, <2>2, <2>3, PTL DEF ImplementsBreaker, Breaker!Spec, Alone!Spec
  <1>2. Alone!Spec => []Alone!HalfBlockedAwaitsAnswer
    BY Alone!NoWedge, BackoffAssumption, PTL
  <1>3. Alone!HalfBlockedAwaitsAnswer => NeverWedged
    BY SendsOnWire DEF Alone!HalfBlockedAwaitsAnswer, NeverWedged
  <1>. QED
    BY <1>1, <1>2, <1>3, DrivesBreaker, PTL

=============================================================================
