----------------------------- MODULE Collector -----------------------------
(***************************************************************************)
(* The collector: the component that runs the checks                       *)
(* (comp/collector/collector/impl), its scheduler, runner, workers and     *)
(* tracker of running checks (pkg/collector), and the wrapper around each  *)
(* check.                                                                  *)
(*                                                                         *)
(* Goroutines: the callers of RunCheck and StopCheck; the job queue; one   *)
(* goroutine per one-time check that waits to be sent; the workers; the    *)
(* destroySender goroutines; the scheduler's main loop; the collector's    *)
(* stop.  The channel from the scheduler to the workers has no buffer: a   *)
(* send and its receive are one step.                                      *)
(*                                                                         *)
(* Several instances of a check (a reload makes a new one) share an ID.    *)
(* There is one job queue, for the interval the periodic checks have.      *)
(* Shadow checks have a queue, a channel and workers of their own, which   *)
(* behave in the same way and are left out, as are the HA gate and the     *)
(* statistics that the workers report.                                     *)
(***************************************************************************)
EXTENDS Naturals, FiniteSets

CONSTANTS
    Checks,         \* instances of checks
    IdOf,           \* their IDs
    OneTime,        \* the instances with interval 0: they run until stopped
    Workers,        \* the workers that NewRunner starts
    NumBuckets,     \* seconds of the interval of the job queue
    None

ASSUME ChecksAssumption ==
    /\ None \notin Checks \cup Workers
    /\ Checks \cap Workers = {}
    /\ OneTime \subseteq Checks
    /\ DOMAIN IdOf = Checks
ASSUME BucketsAssumption == NumBuckets \in Nat \ {0}

VARIABLES
    \* the collector
    checks,                 \* the instance registered for each ID
    entered,                \* the instances RunCheck was called with
    stopCheck,              \* the StopCheck under way
    \* the scheduler
    jobs,                   \* the buckets of the job queue
    schedulingBucketIdx, currentBucketIdx,
    checkToQueue,           \* the IDs that are scheduled
    queue,                  \* the goroutine of the job queue
    once,                   \* the one-time instances whose goroutine waits to send
    \* the runner
    worker,                 \* the workers; an extra one is named after its check
    runningChecks,          \* the tracker
    \* the checks
    told,                   \* the one-time instances Stop was called on
    destroying,             \* the destroySender goroutines
    done,                   \* CheckWrapper.done
    destroyed,              \* the IDs whose sender was destroyed and not made again
    \* stopping
    cancelOneTime,          \* the channel is closed
    closed,                 \* pendingChecksChan is closed
    mainLoop,               \* the scheduler's main loop
    stop,                   \* the collector's stop
    toStop                  \* the checks Runner.Stop found running

collectorVars == <<checks, entered>>
queueVars == <<jobs, schedulingBucketIdx, currentBucketIdx, checkToQueue>>
wrapperVars == <<told, destroying, done, destroyed>>
stoppingVars == <<cancelOneTime, closed, mainLoop, stop, toStop>>
vars == <<collectorVars, stopCheck, queueVars, queue, once, worker, runningChecks,
          wrapperVars, stoppingVars>>

Ids == {IdOf[c] : c \in Checks}
Buckets == 0 .. NumBuckets - 1
AllWorkers == Workers \cup OneTime

NoStopCheck == [pc |-> "idle", check |-> None]
QueueIdle == [pc |-> "select", todo |-> {}, check |-> None]
WorkerIdle == [pc |-> "range", check |-> None]
NotStarted == [pc |-> "none", check |-> None]

Init ==
    /\ checks = [i \in Ids |-> None]
    /\ entered = {}
    /\ stopCheck = NoStopCheck
    /\ jobs = [b \in Buckets |-> {}]
    /\ schedulingBucketIdx = 0
    /\ currentBucketIdx = 0
    /\ checkToQueue = {}
    /\ queue = QueueIdle
    /\ once = {}
    /\ worker = [w \in AllWorkers |-> IF w \in Workers THEN WorkerIdle ELSE NotStarted]
    /\ runningChecks = [i \in Ids |-> None]
    /\ told = {} /\ destroying = {} /\ done = {} /\ destroyed = {}
    /\ cancelOneTime = FALSE
    /\ closed = FALSE
    /\ mainLoop = "waiting"
    /\ stop = "none"
    /\ toStop = {}

----------------------------------------------------------------------------
(* The scheduler.                                                          *)

\* newJobQueue: the step of the sparse round-robin over nb buckets.
SparseStep(nb) ==
    LET half == nb \div 2
    IN IF nb <= 2 THEN 1
       ELSE IF nb % 2 = 1 THEN half
       ELSE IF half % 2 = 0 THEN half - 1 ELSE half - 2

\* jobQueue.addJob and checkToQueue.
EnterQueue(c) ==
    /\ jobs' = [jobs EXCEPT ![schedulingBucketIdx] = @ \cup {c}]
    /\ schedulingBucketIdx' = (schedulingBucketIdx + SparseStep(NumBuckets)) % NumBuckets
    /\ checkToQueue' = checkToQueue \cup {IdOf[c]}
    /\ UNCHANGED currentBucketIdx

\* Cancel: a check that is not in the queue is left alone.
CancelSchedule(id) ==
    /\ jobs' = [b \in Buckets |-> {c \in jobs[b] : IdOf[c] # id}]
    /\ checkToQueue' = checkToQueue \ {id}
    /\ UNCHANGED <<schedulingBucketIdx, currentBucketIdx>>

\* stopQueues holds Scheduler.mu until the queue has stopped.
SchedulerLocked == mainLoop = "stopping"

\* The queue with these jobs left of the bucket: without any it selects again.
QueueWith(todo) == [pc |-> IF todo = {} THEN "select" ELSE "dispatch", todo |-> todo, check |-> None]

\* Mutant: the same bucket is served for ever.
TickSameBucket ==
    /\ queue.pc = "select"
    /\ queue' = QueueWith(jobs[currentBucketIdx])
    /\ UNCHANGED <<collectorVars, stopCheck, queueVars, once, worker, runningChecks,
                   wrapperVars, stoppingVars>>

\* process: the ticker; the jobs of the bucket are copied, and the next tick
\* will serve the next bucket (the code moves on after it has dispatched, which
\* nobody else can see).
Tick ==
    /\ queue.pc = "select"
    /\ queue' = QueueWith(jobs[currentBucketIdx])
    /\ currentBucketIdx' = (currentBucketIdx + 1) % NumBuckets
    /\ UNCHANGED <<collectorVars, stopCheck, jobs, schedulingBucketIdx, checkToQueue, once,
                   worker, runningChecks, wrapperVars, stoppingVars>>

\* Mutant: IsCheckScheduled takes Scheduler.mu.
DispatchUnderLock ==
    /\ queue.pc = "dispatch"
    /\ ~SchedulerLocked
    /\ \E c \in queue.todo :
         queue' = IF IdOf[c] \in checkToQueue
                    THEN [queue EXCEPT !.pc = "send", !.check = c]
                    ELSE QueueWith(queue.todo \ {c})
    /\ UNCHANGED <<collectorVars, stopCheck, queueVars, once, worker, runningChecks,
                   wrapperVars, stoppingVars>>

\* dispatchJobs: IsCheckScheduled, which needs only checkToQueueMutex.
Dispatch ==
    /\ queue.pc = "dispatch"
    /\ \E c \in queue.todo :
         queue' = IF IdOf[c] \in checkToQueue
                    THEN [queue EXCEPT !.pc = "send", !.check = c]
                    ELSE QueueWith(queue.todo \ {c})
    /\ UNCHANGED <<collectorVars, stopCheck, queueVars, once, worker, runningChecks,
                   wrapperVars, stoppingVars>>

----------------------------------------------------------------------------
(* RunCheck and StopCheck.  stop holds the collector's mutex throughout.   *)

\* RunCheck: any instance that is new will do.
RunCheck(id) ==
    LET fresh == {d \in Checks \ entered : IdOf[d] = id}
        c == CHOOSE d \in fresh : TRUE
    IN /\ stop = "none"
       /\ fresh # {}
       /\ checks[id] = None
       /\ entered' = entered \cup {c}
       /\ checks' = [checks EXCEPT ![id] = c]
       /\ IF c \in OneTime
            THEN /\ once' = once \cup {c}
                 /\ worker' = [worker EXCEPT ![c] = WorkerIdle]
                 /\ UNCHANGED queueVars
            ELSE EnterQueue(c) /\ UNCHANGED <<once, worker>>
       /\ UNCHANGED <<stopCheck, queue, runningChecks, wrapperVars, stoppingVars>>

\* StopCheck: the instance is looked up under the collector's mutex.  One runs
\* at a time: its only caller is the loop of CheckScheduler.Unschedule
\* (pkg/collector/scheduler.go).
StopCheckBegins(id) ==
    /\ stop = "none"
    /\ stopCheck = NoStopCheck
    /\ checks[id] # None
    /\ stopCheck' = [pc |-> "cancelSchedule", check |-> checks[id]]
    /\ UNCHANGED <<collectorVars, queueVars, queue, once, worker, runningChecks,
                   wrapperVars, stoppingVars>>

StopCheckCancels ==
    /\ stopCheck.pc = "cancelSchedule"
    /\ ~SchedulerLocked
    /\ CancelSchedule(IdOf[stopCheck.check])
    /\ stopCheck' = [stopCheck EXCEPT !.pc = "stop"]
    /\ UNCHANGED <<collectorVars, queue, once, worker, runningChecks, wrapperVars, stoppingVars>>

\* Mutant: Stop is called whether or not the tracker holds the check.
StopCheckStopsAnyway ==
    /\ stopCheck.pc = "stop"
    /\ told' = told \cup {runningChecks[IdOf[stopCheck.check]]}
    /\ stopCheck' = [stopCheck EXCEPT !.pc = "cancel"]
    /\ UNCHANGED <<collectorVars, queueVars, queue, once, worker, runningChecks,
                   destroying, done, destroyed, stoppingVars>>

\* Runner.StopCheck: Stop is called on the instance that runs under the ID, if
\* any; it returns or times out.
StopCheckStops ==
    LET running == runningChecks[IdOf[stopCheck.check]]
    IN /\ stopCheck.pc = "stop"
       /\ told' = told \cup ({running} \cap OneTime)
       /\ stopCheck' = [stopCheck EXCEPT !.pc = "cancel"]
       /\ UNCHANGED <<collectorVars, queueVars, queue, once, worker, runningChecks,
                      destroying, done, destroyed, stoppingVars>>

\* cancelCheck: CheckWrapper.Cancel starts destroySender.
StopCheckCancelsCheck ==
    /\ stopCheck.pc = "cancel"
    /\ destroying' = destroying \cup {stopCheck.check}
    /\ stopCheck' = [stopCheck EXCEPT !.pc = "delete"]
    /\ UNCHANGED <<collectorVars, queueVars, queue, once, worker, runningChecks,
                   told, done, destroyed, stoppingVars>>

StopCheckDeletes ==
    /\ stopCheck.pc = "delete"
    /\ stop \in {"none", "stopped"}
    /\ checks' = [checks EXCEPT ![IdOf[stopCheck.check]] = None]
    /\ stopCheck' = NoStopCheck
    /\ UNCHANGED <<entered, queueVars, queue, once, worker, runningChecks,
                   wrapperVars, stoppingVars>>

----------------------------------------------------------------------------
(* The workers.                                                            *)

\* A worker receives from the job queue or from a one-time goroutine.
Receive(w, c) ==
    /\ worker[w].pc = "range"
    /\ ~closed
    /\ \/ /\ queue.pc = "send" /\ queue.check = c
          /\ queue' = QueueWith(queue.todo \ {c})
          /\ UNCHANGED once
       \/ /\ c \in once
          /\ once' = once \ {c}
          /\ UNCHANGED queue
    /\ worker' = [worker EXCEPT ![w] = [pc |-> "add", check |-> c]]
    /\ UNCHANGED <<collectorVars, stopCheck, queueVars, runningChecks, wrapperVars, stoppingVars>>

\* Mutant: the check is added whether or not one runs under its ID.
AddCheckAnyway(w) ==
    LET c == worker[w].check
    IN /\ worker[w].pc = "add"
       /\ runningChecks' = [runningChecks EXCEPT ![IdOf[c]] = c]
       /\ worker' = [worker EXCEPT ![w].pc = "run"]
       /\ UNCHANGED <<collectorVars, stopCheck, queueVars, queue, once, wrapperVars, stoppingVars>>

\* AddCheck: a check whose ID is running is skipped.
AddCheck(w) ==
    LET c == worker[w].check
    IN /\ worker[w].pc = "add"
       /\ IF runningChecks[IdOf[c]] = None
            THEN /\ runningChecks' = [runningChecks EXCEPT ![IdOf[c]] = c]
                 /\ worker' = [worker EXCEPT ![w].pc = "run"]
            ELSE /\ worker' = [worker EXCEPT ![w] = WorkerIdle]
                 /\ UNCHANGED runningChecks
       /\ UNCHANGED <<collectorVars, stopCheck, queueVars, queue, once, wrapperVars, stoppingVars>>

\* DeleteCheck, once Run has returned.
DeleteCheck(w) ==
    /\ runningChecks' = [runningChecks EXCEPT ![IdOf[worker[w].check]] = None]
    /\ worker' = [worker EXCEPT ![w] = WorkerIdle]

\* CheckWrapper.Run: a cancelled check does not run.  One that runs gets the
\* sender of its ID, which is made again if it was destroyed.
Run(w) ==
    /\ worker[w].pc = "run"
    /\ IF worker[w].check \in done
         THEN DeleteCheck(w) /\ UNCHANGED destroyed
         ELSE /\ worker' = [worker EXCEPT ![w].pc = "running"]
              /\ destroyed' = destroyed \ {IdOf[worker[w].check]}
              /\ UNCHANGED runningChecks
    /\ UNCHANGED <<collectorVars, stopCheck, queueVars, queue, once,
                   told, destroying, done, stoppingVars>>

\* The check's own Run returns, with or without an error; a one-time check runs
\* until it is stopped, and may return before.  The mutex of the wrapper is
\* given up a little before DeleteCheck: only destroySender can run in between,
\* and nobody reads what it changes before DeleteCheck, so it may as well run
\* after.
RunEnds(w) ==
    /\ worker[w].pc = "running"
    /\ DeleteCheck(w)
    /\ UNCHANGED <<collectorVars, stopCheck, queueVars, queue, once, wrapperVars, stoppingVars>>

\* The channel is closed: the loop ends.
WorkerExits(w) ==
    /\ worker[w].pc = "range"
    /\ closed
    /\ worker' = [worker EXCEPT ![w].pc = "exited"]
    /\ UNCHANGED <<collectorVars, stopCheck, queueVars, queue, once, runningChecks,
                   wrapperVars, stoppingVars>>

\* Mutant: destroySender does not wait for Run.
DestroySenderAtOnce(c) ==
    /\ c \in destroying
    /\ destroying' = destroying \ {c}
    /\ done' = done \cup {c}
    /\ destroyed' = destroyed \cup {IdOf[c]}
    /\ UNCHANGED <<collectorVars, stopCheck, queueVars, queue, once, worker, runningChecks,
                   told, stoppingVars>>

\* destroySender takes the mutex that the instance's own Run holds; the sender
\* it destroys is the one of the ID, which another instance may be using.
DestroySender(c) ==
    /\ c \in destroying
    /\ \A w \in AllWorkers : worker[w] # [pc |-> "running", check |-> c]
    /\ destroying' = destroying \ {c}
    /\ done' = done \cup {c}
    /\ destroyed' = destroyed \cup {IdOf[c]}
    /\ UNCHANGED <<collectorVars, stopCheck, queueVars, queue, once, worker, runningChecks,
                   told, stoppingVars>>

----------------------------------------------------------------------------
(* The collector's stop: Scheduler.Stop, then Runner.Stop.                 *)

\* Scheduler.Stop: the main loop is told and takes Scheduler.mu to stop the
\* queues; the one-time goroutines are cancelled.
StopBegins ==
    /\ stop = "none"
    /\ stop' = "waitOneTime"
    /\ mainLoop' = "stopping"
    /\ cancelOneTime' = TRUE
    /\ UNCHANGED <<collectorVars, stopCheck, queueVars, queue, once, worker, runningChecks,
                   wrapperVars, closed, toStop>>

OneTimeCancelled(c) ==
    /\ cancelOneTime
    /\ c \in once
    /\ once' = once \ {c}
    /\ UNCHANGED <<collectorVars, stopCheck, queueVars, queue, worker, runningChecks,
                   wrapperVars, stoppingVars>>

\* Mutant: Stop does not wait for the one-time goroutines.
SchedulerStoppedEarly ==
    /\ stop = "waitOneTime" /\ mainLoop = "halted"
    /\ stop' = "snapshot"
    /\ closed' = TRUE
    /\ UNCHANGED <<collectorVars, stopCheck, queueVars, queue, once, worker, runningChecks,
                   wrapperVars, cancelOneTime, mainLoop, toStop>>

\* Scheduler.Stop returns when they and the main loop have ended; Runner.Stop
\* closes the channel.
SchedulerStopped ==
    /\ stop = "waitOneTime" /\ once = {} /\ mainLoop = "halted"
    /\ stop' = "snapshot"
    /\ closed' = TRUE
    /\ UNCHANGED <<collectorVars, stopCheck, queueVars, queue, once, worker, runningChecks,
                   wrapperVars, cancelOneTime, mainLoop, toStop>>

\* The queue receives from its stop channel where it selects: between ticks or
\* while it waits to send.
QueueTold ==
    /\ mainLoop = "stopping"
    /\ queue.pc \in {"select", "send"}
    /\ mainLoop' = "halted"
    /\ queue' = [QueueIdle EXCEPT !.pc = "stopped"]
    /\ UNCHANGED <<collectorVars, stopCheck, queueVars, once, worker, runningChecks,
                   wrapperVars, cancelOneTime, closed, stop, toStop>>

\* Runner.Stop: the checks the tracker holds now are stopped, each by a
\* goroutine that looks its ID up again.
SnapshotRunning ==
    /\ stop = "snapshot"
    /\ stop' = "stopChecks"
    /\ toStop' = {runningChecks[i] : i \in Ids} \cap OneTime
    /\ UNCHANGED <<collectorVars, stopCheck, queueVars, queue, once, worker, runningChecks,
                   wrapperVars, cancelOneTime, closed, mainLoop>>

StopRunning(c) ==
    /\ stop = "stopChecks"
    /\ c \in toStop
    /\ toStop' = toStop \ {c}
    /\ told' = told \cup ({runningChecks[IdOf[c]]} \cap OneTime)
    /\ UNCHANGED <<collectorVars, stopCheck, queueVars, queue, once, worker, runningChecks,
                   destroying, done, destroyed, cancelOneTime, closed, mainLoop, stop>>

\* Runner.Stop: they are stopped, or too slow.
StopEnds ==
    /\ stop = "stopChecks"
    /\ toStop = {}
    /\ stop' = "stopped"
    /\ UNCHANGED <<collectorVars, stopCheck, queueVars, queue, once, worker, runningChecks,
                   wrapperVars, cancelOneTime, closed, mainLoop, toStop>>

----------------------------------------------------------------------------
Queue == Tick \/ Dispatch

StopCheck ==
    \/ StopCheckCancels \/ StopCheckStops \/ StopCheckCancelsCheck \/ StopCheckDeletes

Work(w) == AddCheck(w) \/ Run(w) \/ RunEnds(w) \/ WorkerExits(w)

\* Nobody may count on a one-time check that was not stopped to return.
Awaited(w) == worker[w].pc = "running" => worker[w].check \notin OneTime \ told

Stopping ==
    \/ SchedulerStopped \/ SnapshotRunning \/ StopEnds
    \/ \E c \in Checks : StopRunning(c)

Next ==
    \/ Queue
    \/ \E c \in Checks : DestroySender(c) \/ OneTimeCancelled(c)
    \/ \E i \in Ids : RunCheck(i) \/ StopCheckBegins(i)
    \/ StopCheck
    \/ \E w \in AllWorkers : Work(w) \/ \E c \in Checks : Receive(w, c)
    \/ StopBegins \/ Stopping \/ QueueTold

\* The goroutines the properties depend on go on when they can; the queue,
\* which selects between a tick or a send and its stop channel, sees the stop
\* if it is there again and again.
Fairness ==
    /\ WF_vars(Queue) /\ WF_vars(Stopping) /\ SF_vars(QueueTold)
    /\ \A w \in AllWorkers : WF_vars(Work(w) /\ Awaited(w))
    /\ WF_vars(\E w \in AllWorkers, c \in Checks : Receive(w, c))
    /\ WF_vars(\E c \in OneTime : OneTimeCancelled(c))

Spec == Init /\ [][Next]_vars /\ Fairness

----------------------------------------------------------------------------
(* Properties.                                                             *)

\* Every variable has its type.
TypeOK ==
    /\ checks \in [Ids -> Checks \cup {None}]
    /\ entered \subseteq Checks
    /\ stopCheck \in [pc : {"idle", "cancelSchedule", "stop", "cancel", "delete"},
                      check : Checks \cup {None}]
    /\ jobs \in [Buckets -> SUBSET Checks]
    /\ schedulingBucketIdx \in Buckets /\ currentBucketIdx \in Buckets
    /\ checkToQueue \subseteq Ids
    /\ queue \in [pc : {"select", "dispatch", "send", "stopped"},
                  todo : SUBSET Checks, check : Checks \cup {None}]
    /\ once \subseteq OneTime
    /\ worker \in [AllWorkers -> [pc : {"none", "range", "add", "run", "running", "exited"}, check : Checks \cup {None}]]
    /\ runningChecks \in [Ids -> Checks \cup {None}]
    /\ told \subseteq OneTime /\ destroying \subseteq Checks /\ done \subseteq Checks /\ destroyed \subseteq Ids
    /\ cancelOneTime \in BOOLEAN /\ closed \in BOOLEAN
    /\ mainLoop \in {"waiting", "stopping", "halted"}
    /\ stop \in {"none", "waitOneTime", "snapshot", "stopChecks", "stopped"}
    /\ toStop \subseteq Checks

\* The workers between AddCheck and DeleteCheck for a check of an ID.
Holding(id) ==
    {w \in AllWorkers : worker[w].pc \in {"run", "running"} /\ IdOf[worker[w].check] = id}

\* Whatever is still queued or blocked when a check is stopped and its ID is
\* scheduled again, two runs under one ID never overlap, and the tracker names
\* the instance that runs: it is the one StopCheck will reach.
OneRunPerId ==
    \A i \in Ids :
        /\ Cardinality(Holding(i)) <= 1
        /\ \A w \in Holding(i) : runningChecks[i] = worker[w].check

\* Runner.Stop: "All publishers to the pending channel need to have stopped
\* before Stop is called": nobody can send when the channel is closed.
NoSendOnClosed == closed => once = {} /\ queue.pc = "stopped"

\* CheckWrapper: "taking care that Run is not executing during or after that":
\* no instance runs during or after its own destroySender, although that
\* goroutine is not awaited and queued copies of the check still arrive.  The
\* sender is the one of the ID: a running instance has it, unless another
\* instance under the same ID (the one it replaced, or the one that replaced
\* it) was cancelled and has destroyed it.
RunKeepsSender ==
    \A w \in AllWorkers :
        worker[w].pc = "running" =>
            LET c == worker[w].check
            IN /\ c \notin done
               /\ IdOf[c] \in destroyed => \E d \in done \ {c} : IdOf[d] = IdOf[c]

\* Stop returns, whatever the queue, the workers and a StopCheck wait for.
CollectorStops == stop = "waitOneTime" ~> stop = "stopped"

\* A periodic check that stays scheduled runs again and again, whichever
\* bucket it is in, also if long-running checks occupy every other worker and
\* an older instance under its ID is still running.
ScheduledRuns ==
    \A c \in Checks \ OneTime :
        LET scheduled == stop = "none" /\ \E b \in Buckets : c \in jobs[b]
        IN scheduled ~> (\/ ~scheduled
                         \/ \E w \in AllWorkers : worker[w] = [pc |-> "running", check |-> c])
============================================================================
