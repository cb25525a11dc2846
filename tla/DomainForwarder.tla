-------------------------- MODULE DomainForwarder --------------------------
(***************************************************************************)
(* A domain forwarder at work and while it stops                           *)
(* (comp/forwarder/defaultforwarder/impl: domain_forwarder.go, worker.go): *)
(* the goroutines that submit transactions, the workers and the requests   *)
(* they spawn, the retry goroutine and the goroutine that runs Stop, around *)
(* three channels, the retry queue and the circuit breaker.                *)
(*                                                                         *)
(* A channel is the set of what it buffers, up to its capacity: nothing    *)
(* here depends on the order in which one channel delivers.  The retry     *)
(* queue is RetryStore, which TransactionRetryQueue implements: adding may *)
(* drop other transactions, taking returns all of them or, with files on   *)
(* disk, some, and may lose others.  A request is in `gate` until          *)
(* isBlockForSend lets it go and in `wire` until its Process returns.      *)
(* Stop runs to its end: forwarder_stop_timeout, after which the process   *)
(* may exit in the middle of it, is left out.                              *)
(***************************************************************************)
EXTENDS CircuitBreaker, FiniteSets

CONSTANTS
    Txs,              \* transactions
    Endpoints,
    Target,           \* Target[t]: the endpoint of t
    Value,            \* Value[t]: the rank of t by creation time and priority
    NumWorkers,
    MaxConcurrent,    \* forwarder_max_concurrent_requests
    HighCap, LowCap, RequeueCap,  \* the buffer sizes of the channels: they
                      \* are buffered, so a size is at least one
    HasDisk           \* the retry queue has a storage

ASSUME ForwarderAssumption ==
    /\ Target \in [Txs -> Endpoints]
    /\ Value \in [Txs -> Nat]
    /\ NumWorkers \in Nat \ {0}
    /\ MaxConcurrent \in Nat \ {0}
    /\ {HighCap, LowCap, RequeueCap} \subseteq Nat \ {0}
    /\ HasDisk \in BOOLEAN

Workers == 1 .. NumWorkers

VARIABLES
    fresh,    \* not submitted yet
    entered,  \* past the state check of DefaultForwarder.sendHTTPTransactions
    full,     \* found highPrio full, not yet in the retry queue
    direct,   \* being sent by sendHTTPTransactionDirect (a set of at most one)
    highPrio, lowPrio, requeued,  \* the channels
    closed,   \* Stop has closed them
    wpc,      \* wpc[w]: where the Start goroutine of worker w is
    hand,     \* hand[w]: what callProcess of w wants to send (at most one)
    stopChan, \* stopChan[w] is closed
    canceled, \* canceled[w]: workerCtx is canceled
    gate,     \* gate[w]: requests of w before isBlockForSend
    wire,     \* wire[w]: requests of w in Process
    dead,     \* dead[w]: requests of w whose context is canceled
    cb,       \* cb[e]: the circuit breaker of e
    rpc,      \* where the retry goroutine is
    pass,     \* what retryTransactions has not handled yet
    listed,   \* the retryBlockList of the pass
    stored,   \* the retry queue
    spc,      \* where Stop is
    sw,       \* the worker Stop is busy with
    how,      \* the settings Stop reads: forwarder_stop_wait_for_inflight, and
              \* whether forwarder_stop_timeout makes it purge
    late,     \* history: the submissions under way when Stop began
    saved,    \* history: FlushToDisk left nothing behind in memory
    sent,     \* acknowledged by the intake
    dropped,  \* refused by the intake or found no room in requeued, which is
              \* counted, or given up by the retry queue: whether that is
              \* counted is the matter of TransactionRetryQueue
    lost,     \* given up by the forwarder, which counts it nowhere
    panicked  \* a send on a closed channel

txVars == <<fresh, entered, full, direct>>
chanVars == <<highPrio, lowPrio, requeued, closed>>
workerVars == <<wpc, hand, stopChan, canceled>>
reqVars == <<gate, wire, dead>>
retryVars == <<rpc, pass, listed>>
stopVars == <<spc, sw, how, late, saved>>
endVars == <<sent, dropped, lost, panicked>>
vars == <<txVars, chanVars, workerVars, reqVars, cb, retryVars, stored,
          stopVars, endVars>>

Inflight(w) == gate[w] \cup wire[w]

Init ==
    /\ fresh = Txs /\ entered = {} /\ full = {} /\ direct = {}
    /\ highPrio = {} /\ lowPrio = {} /\ requeued = {} /\ closed = FALSE
    /\ wpc = [w \in Workers |-> "prio"] /\ hand = [w \in Workers |-> {}]
    /\ stopChan = [w \in Workers |-> FALSE]
    /\ canceled = [w \in Workers |-> FALSE]
    /\ gate = [w \in Workers |-> {}] /\ wire = [w \in Workers |-> {}]
    /\ dead = [w \in Workers |-> {}]
    /\ cb = [e \in Endpoints |-> NoBlock]
    /\ rpc = "select" /\ pass = {} /\ listed = {} /\ stored = {}
    /\ spc = "running" /\ sw = 1 /\ how = [wait |-> FALSE, purge |-> FALSE]
    /\ late = {} /\ saved = TRUE
    /\ sent = {} /\ dropped = {} /\ lost = {} /\ panicked = FALSE

-----------------------------------------------------------------------------
(* The retry queue and the requeue channel *)

\* addToTransactionRetryQueue: t goes in and others may have to leave.
AddToRetryQueue(t) ==
    \E D \in SUBSET stored :
        /\ stored' = (stored \ D) \cup {t}
        /\ dropped' = dropped \cup D

\* Worker.requeue never blocks: a full channel drops the transaction.
Requeue(t) ==
    IF Cardinality(requeued) < RequeueCap
    THEN requeued' = requeued \cup {t} /\ UNCHANGED <<dropped, lost>>
    ELSE dropped' = dropped \cup {t} /\ UNCHANGED <<requeued, lost>>

-----------------------------------------------------------------------------
(* Submission *)

\* DefaultForwarder.sendHTTPTransactions sees that the forwarder is started.
Submit(t) ==
    /\ spc = "running"
    /\ t \in fresh
    /\ fresh' = fresh \ {t}
    /\ entered' = entered \cup {t}
    /\ UNCHANGED <<full, direct, chanVars, workerVars, reqVars, cb, retryVars,
                   stored, stopVars, endVars>>

\* domainForwarder.sendHTTPTransactions: the select never blocks the collector.
SendHTTPTransactions(t) ==
    /\ t \in entered
    /\ ~closed
    /\ entered' = entered \ {t}
    /\ IF Cardinality(highPrio) < HighCap
       THEN highPrio' = highPrio \cup {t} /\ UNCHANGED full
       ELSE full' = full \cup {t} /\ UNCHANGED highPrio
    /\ UNCHANGED <<fresh, direct, lowPrio, requeued, closed, workerVars,
                   reqVars, cb, retryVars, stored, stopVars, endVars>>

\* The default branch of the select.  Stop does not wait for it: what comes
\* after FlushToDisk may stay in a memory that nobody flushes.
HighPrioFull(t) ==
    /\ t \in full
    /\ full' = full \ {t}
    /\ \/ AddToRetryQueue(t) /\ UNCHANGED lost
       \/ /\ spc = "stopped"
          /\ lost' = lost \cup {t}
          /\ UNCHANGED <<stored, dropped>>
    /\ UNCHANGED <<fresh, entered, direct, chanVars, workerVars, reqVars, cb,
                   retryVars, stopVars, sent, panicked>>

\* The same send after Stop has closed the channel.
SendOnClosedChannel(t) ==
    /\ t \in entered
    /\ closed
    /\ entered' = entered \ {t}
    /\ lost' = lost \cup {t}
    /\ panicked' = TRUE
    /\ UNCHANGED <<fresh, full, direct, chanVars, workerVars, reqVars, cb,
                   retryVars, stored, stopVars, sent, dropped>>

\* sendHTTPTransactionDirect, under DefaultForwarder.m: the breaker is asked
\* first, and an error goes back to the caller, who keeps the transaction.
SendDirect(t) ==
    /\ spc = "running"
    /\ direct = {}
    /\ t \in fresh
    /\ ~BlockedForSend(cb[Target[t]])
    /\ cb' = [cb EXCEPT ![Target[t]] = AdmitBlock(@)]
    /\ fresh' = fresh \ {t}
    /\ direct' = {t}
    /\ UNCHANGED <<entered, full, chanVars, workerVars, reqVars, retryVars,
                   stored, stopVars, endVars>>

\* Accepted, or refused with a code that is not an error for the breaker.
DirectSucceeds(t) ==
    /\ t \in direct
    /\ cb' = [cb EXCEPT ![Target[t]] = RecoverBlock(@)]
    /\ direct' = {}
    /\ \/ sent' = sent \cup {t} /\ dropped' = dropped
       \/ dropped' = dropped \cup {t} /\ sent' = sent
    /\ UNCHANGED <<fresh, entered, full, chanVars, workerVars, reqVars,
                   retryVars, stored, stopVars, lost, panicked>>

DirectFails(t) ==
    /\ t \in direct
    /\ cb' = [cb EXCEPT ![Target[t]] = CloseBlock(@)]
    /\ direct' = {}
    /\ fresh' = fresh \cup {t}
    /\ UNCHANGED <<entered, full, chanVars, workerVars, reqVars, retryVars,
                   stored, stopVars, endVars>>

-----------------------------------------------------------------------------
(* Workers *)

\* Both selects of the loop of Worker.Start can take a high priority
\* transaction, also after stopChan is closed.
TakeHighPrio(w) ==
    /\ wpc[w] \in {"prio", "wait"}
    /\ \E t \in highPrio :
          /\ highPrio' = highPrio \ {t}
          /\ hand' = [hand EXCEPT ![w] = {t}]
    /\ wpc' = [wpc EXCEPT ![w] = "acquire"]
    /\ UNCHANGED <<txVars, lowPrio, requeued, closed, stopChan, canceled,
                   reqVars, cb, retryVars, stored, stopVars, endVars>>

\* The default branch of the first select.
NothingUrgent(w) ==
    /\ wpc[w] = "prio"
    /\ highPrio = {} /\ ~stopChan[w]
    /\ wpc' = [wpc EXCEPT ![w] = "wait"]
    /\ UNCHANGED <<txVars, chanVars, hand, stopChan, canceled, reqVars, cb,
                   retryVars, stored, stopVars, endVars>>

TakeLowPrio(w) ==
    /\ wpc[w] = "wait"
    /\ \E t \in lowPrio :
          /\ lowPrio' = lowPrio \ {t}
          /\ hand' = [hand EXCEPT ![w] = {t}]
    /\ wpc' = [wpc EXCEPT ![w] = "acquire"]
    /\ UNCHANGED <<txVars, highPrio, requeued, closed, stopChan, canceled,
                   reqVars, cb, retryVars, stored, stopVars, endVars>>

SeeStop(w) ==
    /\ wpc[w] \in {"prio", "wait"}
    /\ stopChan[w]
    /\ wpc' = [wpc EXCEPT ![w] = "done"]
    /\ UNCHANGED <<txVars, chanVars, hand, stopChan, canceled, reqVars, cb,
                   retryVars, stored, stopVars, endVars>>

\* callProcess: a slot of the semaphore is free and the request is spawned.
\* Stop calls it too, for the worker it purges.
Acquire(w) ==
    /\ hand[w] # {}
    /\ ~canceled[w]
    /\ Cardinality(Inflight(w)) < MaxConcurrent
    /\ gate' = [gate EXCEPT ![w] = @ \cup hand[w]]
    /\ hand' = [hand EXCEPT ![w] = {}]
    /\ wpc' = [wpc EXCEPT ![w] = IF @ = "acquire" THEN "prio" ELSE @]
    /\ UNCHANGED <<txVars, chanVars, stopChan, canceled, wire, dead, cb,
                   retryVars, stored, stopVars, endVars>>

\* callProcess: the context is canceled, so Acquire fails even with a free
\* slot; the transaction is requeued and the Start goroutine ends.
AcquireFails(w) ==
    /\ wpc[w] = "acquire"
    /\ canceled[w]
    /\ \E t \in hand[w] : Requeue(t)
    /\ hand' = [hand EXCEPT ![w] = {}]
    /\ wpc' = [wpc EXCEPT ![w] = "done"]
    /\ UNCHANGED <<txVars, highPrio, lowPrio, closed, stopChan, canceled,
                   reqVars, cb, retryVars, stored, stopVars, sent, panicked>>

-----------------------------------------------------------------------------
(* The goroutine of a request: Worker.process *)

RequestEnds(w, t) ==
    /\ gate' = [gate EXCEPT ![w] = @ \ {t}]
    /\ wire' = [wire EXCEPT ![w] = @ \ {t}]
    /\ dead' = [dead EXCEPT ![w] = @ \ {t}]

\* isBlockForSend answers TRUE: later.
Blocked(w, t) ==
    /\ t \in gate[w]
    /\ BlockedForSend(cb[Target[t]])
    /\ RequestEnds(w, t)
    /\ Requeue(t)
    /\ UNCHANGED <<txVars, highPrio, lowPrio, closed, workerVars, cb,
                   retryVars, stored, stopVars, sent, panicked>>

Process(w, t) ==
    /\ t \in gate[w]
    /\ ~BlockedForSend(cb[Target[t]])
    /\ cb' = [cb EXCEPT ![Target[t]] = AdmitBlock(@)]
    /\ gate' = [gate EXCEPT ![w] = @ \ {t}]
    /\ wire' = [wire EXCEPT ![w] = @ \cup {t}]
    /\ UNCHANGED <<txVars, chanVars, workerVars, dead, retryVars, stored,
                   stopVars, endVars>>

\* Process returns no error: the intake accepts the payload, or refuses it for
\* good (400, 413, or 403 when no new API key is to be had), or whatever went
\* wrong the transaction is not Retryable.
ProcessOK(w, t) ==
    /\ t \in wire[w]
    /\ RequestEnds(w, t)
    /\ cb' = [cb EXCEPT ![Target[t]] = RecoverBlock(@)]
    /\ \/ sent' = sent \cup {t} /\ dropped' = dropped
       \/ dropped' = dropped \cup {t} /\ sent' = sent
    /\ UNCHANGED <<txVars, chanVars, workerVars, retryVars, stored, stopVars,
                   lost, panicked>>

\* Mutant of ProcessFails: the breaker is told and the transaction forgotten.
ProcessFailsForgets(w, t) ==
    /\ t \in wire[w]
    /\ RequestEnds(w, t)
    /\ cb' = [cb EXCEPT ![Target[t]] = CloseBlock(@)]
    /\ UNCHANGED <<txVars, chanVars, workerVars, retryVars, stored, stopVars,
                   endVars>>

\* A network error, a timeout, a status that is worth a retry, or a response
\* whose body a cancellation cuts short.
ProcessFails(w, t) ==
    /\ t \in wire[w]
    /\ RequestEnds(w, t)
    /\ cb' = [cb EXCEPT ![Target[t]] = CloseBlock(@)]
    /\ Requeue(t)
    /\ UNCHANGED <<txVars, highPrio, lowPrio, closed, workerVars, retryVars,
                   stored, stopVars, sent, panicked>>

\* Mutant of ProcessCanceled: a canceled request does not answer the breaker.
ProcessCanceledNoAnswer(w, t) ==
    /\ t \in wire[w] \cap dead[w]
    /\ RequestEnds(w, t)
    /\ lost' = lost \cup {t}
    /\ UNCHANGED <<txVars, chanVars, workerVars, cb, retryVars, stored,
                   stopVars, sent, dropped, panicked>>

\* internalProcess, "Do not requeue transaction if that one was canceled": no
\* error, neither for the breaker, which takes it for a success, nor for the
\* completion handler of the transaction.
ProcessCanceled(w, t) ==
    /\ t \in wire[w] \cap dead[w]
    /\ RequestEnds(w, t)
    /\ cb' = [cb EXCEPT ![Target[t]] = RecoverBlock(@)]
    /\ lost' = lost \cup {t}
    /\ UNCHANGED <<txVars, chanVars, workerVars, retryVars, stored, stopVars,
                   sent, dropped, panicked>>

Request(w, t) ==
    \/ Blocked(w, t) \/ Process(w, t)
    \/ ProcessOK(w, t) \/ ProcessFails(w, t) \/ ProcessCanceled(w, t)

-----------------------------------------------------------------------------
(* The retry goroutine: handleFailedTransactions and retryTransactions *)

\* The ticker: what the retry queue gives out is going to be retried.  With a
\* disk that need not be all it has, and a file it cannot read is lost.
Tick ==
    /\ rpc = "select"
    /\ \E S \in (IF HasDisk THEN SUBSET stored ELSE {stored}) \ {{}} :
       \E D \in IF HasDisk THEN SUBSET (stored \ S) ELSE {{}} :
          /\ pass' = S
          /\ stored' = stored \ (S \cup D)
          /\ dropped' = dropped \cup D
    /\ listed' = {}
    /\ rpc' = "pass"
    /\ UNCHANGED <<txVars, chanVars, workerVars, reqVars, cb, stopVars, sent,
                   lost, panicked>>

\* Mutant of RetryOne: no default branch; a transaction that finds lowPrio
\* full is skipped.
RetryOneSkips(t) ==
    /\ rpc = "pass"
    /\ t \in pass /\ \A u \in pass : Value[u] <= Value[t]
    /\ LET e == Target[t]
       IN /\ listed' = IF ListAfterRetry(cb[e], e \in listed)
                       THEN listed \cup {e} ELSE listed
          /\ IF BlockedForRetry(cb[e], e \in listed)
             THEN AddToRetryQueue(t) /\ UNCHANGED lowPrio
             ELSE /\ lowPrio' = IF Cardinality(lowPrio) < LowCap
                                THEN lowPrio \cup {t} ELSE lowPrio
                  /\ UNCHANGED <<stored, dropped>>
    /\ pass' = pass \ {t}
    /\ UNCHANGED <<txVars, highPrio, requeued, closed, workerVars, reqVars, cb,
                   rpc, stopVars, sent, lost, panicked>>

\* One turn of the loop: the most valuable transaction goes to the workers
\* unless its endpoint is blocked or lowPrio is full.
RetryOne(t) ==
    /\ rpc = "pass"
    /\ t \in pass /\ \A u \in pass : Value[u] <= Value[t]
    /\ LET e == Target[t]
       IN /\ listed' = IF ListAfterRetry(cb[e], e \in listed)
                       THEN listed \cup {e} ELSE listed
          /\ IF ~BlockedForRetry(cb[e], e \in listed)
                   /\ Cardinality(lowPrio) < LowCap
             THEN lowPrio' = lowPrio \cup {t} /\ UNCHANGED <<stored, dropped>>
             ELSE AddToRetryQueue(t) /\ UNCHANGED lowPrio
    /\ pass' = pass \ {t}
    /\ UNCHANGED <<txVars, highPrio, requeued, closed, workerVars, reqVars, cb,
                   rpc, stopVars, sent, lost, panicked>>

PassEnds ==
    /\ rpc = "pass"
    /\ pass = {}
    /\ rpc' = "select"
    /\ UNCHANGED <<txVars, chanVars, workerVars, reqVars, cb, pass, listed,
                   stored, stopVars, endVars>>

RequeueTransaction ==
    /\ rpc = "select"
    /\ \E t \in requeued : requeued' = requeued \ {t} /\ AddToRetryQueue(t)
    /\ UNCHANGED <<txVars, highPrio, lowPrio, closed, workerVars, reqVars, cb,
                   retryVars, stopVars, sent, lost, panicked>>

-----------------------------------------------------------------------------
(* domainForwarder.Stop *)

\* DefaultForwarder.Stop has the mutex and stores Stopped, so no further
\* submission passes the check.
StopBegins ==
    /\ spc = "running"
    /\ direct = {}
    /\ spc' = "retry"
    /\ how' \in [wait : BOOLEAN, purge : BOOLEAN]
    /\ late' = entered \cup full
    /\ UNCHANGED <<txVars, chanVars, workerVars, reqVars, cb, retryVars,
                   stored, sw, saved, endVars>>

\* The rendezvous on stopRetry.
StopRetry ==
    /\ spc = "retry"
    /\ rpc = "select"
    /\ rpc' = "exited"
    /\ spc' = "signal"
    /\ UNCHANGED <<txVars, chanVars, workerVars, reqVars, cb, pass, listed,
                   stored, sw, how, late, saved, endVars>>

\* Mutant of StopSignal: the context is canceled and stopChan left open.
StopSignalCancelOnly ==
    /\ spc = "signal"
    /\ canceled' = [canceled EXCEPT ![sw] = ~how.wait]
    /\ dead' = IF how.wait THEN dead
               ELSE [dead EXCEPT ![sw] = Inflight(sw)]
    /\ spc' = "join"
    /\ UNCHANGED <<txVars, chanVars, wpc, hand, stopChan, gate, wire, cb,
                   retryVars, stored, sw, how, late, saved, endVars>>

\* stopWaitingForInflight closes stopChan; stopWithoutWaitingForInflight
\* cancels the context first.
StopSignal ==
    /\ spc = "signal"
    /\ stopChan' = [stopChan EXCEPT ![sw] = TRUE]
    /\ canceled' = [canceled EXCEPT ![sw] = ~how.wait]
    /\ dead' = IF how.wait THEN dead
               ELSE [dead EXCEPT ![sw] = Inflight(sw)]
    /\ spc' = "join"
    /\ UNCHANGED <<txVars, chanVars, wpc, hand, gate, wire, cb, retryVars,
                   stored, sw, how, late, saved, endVars>>

\* <-w.stopped; a purge gets a fresh context.
StopJoin ==
    /\ spc = "join"
    /\ wpc[sw] = "done"
    /\ spc' = IF how.purge THEN "purge" ELSE "inflight"
    /\ canceled' = [canceled EXCEPT ![sw] = @ /\ ~how.purge]
    /\ UNCHANGED <<txVars, chanVars, wpc, hand, stopChan, reqVars, cb,
                   retryVars, stored, sw, how, late, saved, endVars>>

\* drainHighPrio: callProcess blocks until Acquire has emptied the hand.
PurgeOne ==
    /\ spc = "purge"
    /\ hand[sw] = {}
    /\ \E t \in highPrio :
          /\ highPrio' = highPrio \ {t}
          /\ hand' = [hand EXCEPT ![sw] = {t}]
    /\ UNCHANGED <<txVars, lowPrio, requeued, closed, wpc, stopChan, canceled,
                   reqVars, cb, retryVars, stored, stopVars, endVars>>

\* Mutant of PurgeEnds: the drain stops after one look at the channel.
PurgeEndsEarly ==
    /\ spc = "purge"
    /\ hand[sw] = {}
    /\ spc' = "inflight"
    /\ UNCHANGED <<txVars, chanVars, workerVars, reqVars, cb, retryVars,
                   stored, sw, how, late, saved, endVars>>

PurgeEnds ==
    /\ spc = "purge"
    /\ hand[sw] = {} /\ highPrio = {}
    /\ spc' = "inflight"
    /\ UNCHANGED <<txVars, chanVars, workerVars, reqVars, cb, retryVars,
                   stored, sw, how, late, saved, endVars>>

\* Mutant of StopInflight: requestWg is not waited for.
StopInflightNoWait ==
    /\ spc = "inflight"
    /\ canceled' = [canceled EXCEPT ![sw] = @ \/ how.wait]
    /\ spc' = IF sw < NumWorkers THEN "signal" ELSE "close"
    /\ sw' = IF sw < NumWorkers THEN sw + 1 ELSE sw
    /\ UNCHANGED <<txVars, chanVars, wpc, hand, stopChan, reqVars, cb,
                   retryVars, stored, how, late, saved, endVars>>

\* Mutant of StopInflight: the loop over the workers runs once too often.
StopInflightOffByOne ==
    /\ spc = "inflight"
    /\ Inflight(sw) = {}
    /\ canceled' = [canceled EXCEPT ![sw] = @ \/ how.wait]
    /\ spc' = IF sw <= NumWorkers THEN "signal" ELSE "close"
    /\ sw' = IF sw <= NumWorkers THEN sw + 1 ELSE sw
    /\ UNCHANGED <<txVars, chanVars, wpc, hand, stopChan, reqVars, cb,
                   retryVars, stored, how, late, saved, endVars>>

\* requestWg.Wait(), then the next worker.
StopInflight ==
    /\ spc = "inflight"
    /\ Inflight(sw) = {}
    /\ canceled' = [canceled EXCEPT ![sw] = @ \/ how.wait]
    /\ spc' = IF sw < NumWorkers THEN "signal" ELSE "close"
    /\ sw' = IF sw < NumWorkers THEN sw + 1 ELSE sw
    /\ UNCHANGED <<txVars, chanVars, wpc, hand, stopChan, reqVars, cb,
                   retryVars, stored, how, late, saved, endVars>>

\* The channels are closed.  Nobody will read what highPrio still holds: all of
\* it without a purge, what came after the drain with one.
StopCloses ==
    /\ spc = "close"
    /\ closed' = TRUE
    /\ highPrio' = {}
    /\ lost' = lost \cup highPrio
    /\ spc' = "drain"
    /\ UNCHANGED <<txVars, lowPrio, requeued, workerVars, reqVars, cb,
                   retryVars, stored, sw, how, late, saved, sent, dropped,
                   panicked>>

\* What the channels of failed transactions still hold goes to the retry queue.
StopDrains ==
    /\ spc = "drain"
    /\ \E t \in IF requeued # {} THEN requeued ELSE lowPrio :
          /\ requeued' = requeued \ {t}
          /\ lowPrio' = lowPrio \ {t}
          /\ AddToRetryQueue(t)
    /\ UNCHANGED <<txVars, highPrio, closed, workerVars, reqVars, cb,
                   retryVars, stopVars, sent, lost, panicked>>

\* FlushToDisk writes the memory to the disk, whose limits may cost some (the
\* first disjunct).  Without a storage it returns at once, and when Store fails
\* Stop logs the error; what memory holds then goes with the process.
StopFlushes ==
    /\ spc = "drain"
    /\ requeued = {} /\ lowPrio = {}
    /\ spc' = "stopped"
    /\ \E D \in SUBSET stored :
          /\ stored' = stored \ D
          /\ \/ /\ HasDisk
                /\ dropped' = dropped \cup D /\ UNCHANGED <<lost, saved>>
             \/ /\ HasDisk \/ D = stored
                /\ lost' = lost \cup D /\ saved' = (D = {})
                /\ UNCHANGED dropped
    /\ UNCHANGED <<txVars, chanVars, workerVars, reqVars, cb, retryVars, sw,
                   how, late, sent, panicked>>

-----------------------------------------------------------------------------
(* The environment *)

Expire(e) ==
    /\ cb[e].state = "blocked" /\ ~cb[e].expired
    /\ cb' = [cb EXCEPT ![e].expired = TRUE]
    /\ UNCHANGED <<txVars, chanVars, workerVars, reqVars, retryVars, stored,
                   stopVars, endVars>>

-----------------------------------------------------------------------------

Submission ==
    \E t \in Txs :
        \/ Submit(t) \/ SendHTTPTransactions(t) \/ SendOnClosedChannel(t)
        \/ HighPrioFull(t)
        \/ SendDirect(t) \/ DirectSucceeds(t) \/ DirectFails(t)

Worker(w) ==
    \/ TakeHighPrio(w) \/ NothingUrgent(w) \/ TakeLowPrio(w) \/ SeeStop(w)
    \/ Acquire(w) \/ AcquireFails(w)

Retry ==
    \/ Tick \/ PassEnds \/ RequeueTransaction
    \/ \E t \in Txs : RetryOne(t)

Stop ==
    \/ StopRetry \/ StopSignal \/ StopJoin \/ PurgeOne \/ PurgeEnds
    \/ StopInflight \/ StopCloses \/ StopDrains \/ StopFlushes

Next ==
    \/ Submission
    \/ \E w \in Workers : Worker(w)
    \/ \E w \in Workers, t \in Txs : Request(w, t)
    \/ Retry
    \/ StopBegins \/ Stop
    \/ (\E e \in Endpoints : Expire(e))

Spec == Init /\ [][Next]_vars

-----------------------------------------------------------------------------
(* Fairness *)

\* Every goroutine runs when it can; a select whose cases are ready again and
\* again takes each of them in the end (the Go runtime chooses at random);
\* every request is answered or times out; a backoff ends.  Nobody is forced to
\* submit anything or to call Stop, and requests may fail for ever.
Fairness ==
    /\ \A t \in Txs : WF_vars(SendHTTPTransactions(t) \/ SendOnClosedChannel(t))
    /\ \A t \in Txs : WF_vars(HighPrioFull(t))
    /\ \A t \in Txs : WF_vars(DirectSucceeds(t) \/ DirectFails(t))
    /\ \A w \in Workers : WF_vars(Worker(w))
    /\ \A w \in Workers, t \in Txs : WF_vars(Request(w, t))
    /\ WF_vars(Retry)
    /\ SF_vars(RequeueTransaction)
    /\ SF_vars(StopRetry)
    /\ WF_vars(Stop)
    /\ \A e \in Endpoints : WF_vars(Expire(e))

FairSpec == Spec /\ Fairness

-----------------------------------------------------------------------------
(* Properties *)

WorkerStates == {"prio", "wait", "acquire", "done"}

TypeOK ==
    /\ fresh \subseteq Txs /\ entered \subseteq Txs /\ full \subseteq Txs
    /\ direct \subseteq Txs
    /\ highPrio \subseteq Txs /\ lowPrio \subseteq Txs /\ requeued \subseteq Txs
    /\ closed \in BOOLEAN
    /\ wpc \in [Workers -> WorkerStates]
    /\ hand \in [Workers -> SUBSET Txs]
    /\ stopChan \in [Workers -> BOOLEAN] /\ canceled \in [Workers -> BOOLEAN]
    /\ gate \in [Workers -> SUBSET Txs] /\ wire \in [Workers -> SUBSET Txs]
    /\ dead \in [Workers -> SUBSET Txs]
    /\ cb \in [Endpoints -> Block]
    /\ rpc \in {"select", "pass", "exited"}
    /\ pass \subseteq Txs /\ listed \subseteq Endpoints /\ stored \subseteq Txs
    /\ spc \in {"running", "retry", "signal", "join", "purge", "inflight", "close",
                "drain", "stopped"}
    /\ sw \in Workers /\ how \in [wait : BOOLEAN, purge : BOOLEAN]
    /\ late \subseteq Txs /\ saved \in BOOLEAN
    /\ sent \subseteq Txs /\ dropped \subseteq Txs /\ lost \subseteq Txs
    /\ panicked \in BOOLEAN

\* The places a transaction can be in, and what each holds.
Places ==
    {<<p, 0>> : p \in {"fresh", "entered", "full", "direct", "highPrio",
                       "lowPrio", "requeued", "pass", "stored", "sent",
                       "dropped", "lost"}}
    \cup {"hand", "gate", "wire"} \X Workers

At(p) ==
    CASE p[1] = "fresh" -> fresh       [] p[1] = "entered" -> entered
      [] p[1] = "direct" -> direct     [] p[1] = "highPrio" -> highPrio
      [] p[1] = "lowPrio" -> lowPrio   [] p[1] = "requeued" -> requeued
      [] p[1] = "pass" -> pass         [] p[1] = "stored" -> stored
      [] p[1] = "sent" -> sent         [] p[1] = "dropped" -> dropped
      [] p[1] = "lost" -> lost         [] p[1] = "full" -> full
      [] p[1] = "hand" -> hand[p[2]]   [] p[1] = "gate" -> gate[p[2]]
      [] p[1] = "wire" -> wire[p[2]]

\* Through channels, workers, breaker, retry passes and Stop, every transaction
\* is in exactly one place: none is sent by two requests at a time, none is
\* retried after it was delivered or given up, none disappears.
ExactlyOnePlace ==
    \A t \in Txs :
        \E p \in Places : /\ t \in At(p)
                          /\ \A q \in Places : t \in At(q) => q = p

\* Besides what is refused or finds no room in requeued, both counted, and what
\* the retry queue gives up, the forwarder gives up nothing while it runs.  A
\* Stop that waits for the requests in flight, purges highPrio and leaves nothing
\* behind in memory gives up at most submissions that it overtook.  The other
\* ways to stop do lose transactions that nothing counts: a canceled request
\* loses its transaction, without a purge all of highPrio goes, and without a
\* disk, or when it cannot be written, all of memory.
NoSilentLoss ==
    /\ spc = "running" => lost = {}
    /\ how.wait /\ how.purge /\ saved => lost \subseteq late

\* When Stop closes the channels nobody is left who could requeue a transaction,
\* which would be a send on a closed channel, or who still carries one.
QuietWhenClosed ==
    closed => /\ rpc = "exited" /\ pass = {}
              /\ \A w \in Workers : /\ wpc[w] = "done"
                                    /\ hand[w] \cup Inflight(w) = {}

\* The workers and the direct senders use the breaker as BlockedEndpoints
\* describes, also when requests are canceled.
Sending(e) ==
    {t \in direct \cup UNION {wire[w] : w \in Workers} : Target[t] = e}

Breaker == INSTANCE BlockedEndpoints
               WITH Requests <- Txs, sending <- [e \in Endpoints |-> Sending(e)]

ImplementsBreaker == Breaker!Spec

\* From some time on no request fails.
OutageEnds ==
    <>[][\A t \in Txs :
            ~DirectFails(t) /\ \A w \in Workers : ~ProcessFails(w, t)]_vars

\* Once the outage is over a submitted transaction is delivered or given up
\* with a report, unless the forwarder is stopped.
Settles ==
    OutageEnds =>
        \A t \in Txs :
            t \in entered ~> t \in sent \cup dropped \/ spc # "running"

\* Stop returns, outage or not: nobody waits for anybody in a circle.
StopReturns == spc = "retry" ~> spc = "stopped"

\* The comment of DefaultForwarder.m (default_forwarder.go:273): "To control
\* Start/Stop races".
SubmitSurvivesStop == ~panicked

=============================================================================
