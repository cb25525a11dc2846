-------------------------- MODULE CollectorProofs --------------------------
(***************************************************************************)
(* What the collector guarantees for any number of checks, instances of a  *)
(* check, workers and buckets of the job queue.                            *)
(***************************************************************************)
EXTENDS Collector, FiniteSetTheorems, TLAPS

\* A goroutine that is about to use a check has one.
HoldsCheck ==
    /\ stopCheck.pc # "idle" => stopCheck.check \in Checks
    /\ queue.pc = "send" => queue.check \in Checks
    /\ \A w \in AllWorkers :
          worker[w].pc \in {"add", "run", "running"} => worker[w].check \in Checks

\* The worker is between AddCheck and DeleteCheck.
Holds(w) == worker[w].pc \in {"run", "running"}

\* The tracker names the check of every worker that holds one, and no two
\* workers hold checks of one ID.
TrackerInv ==
    /\ \A w \in AllWorkers : Holds(w) => runningChecks[IdOf[worker[w].check]] = worker[w].check
    /\ \A v, w \in AllWorkers :
          Holds(v) /\ Holds(w) /\ IdOf[worker[v].check] = IdOf[worker[w].check] => v = w

\* How far stop has come, and who can still send.
StopInv ==
    /\ mainLoop = "halted" => queue.pc = "stopped"
    /\ closed => once = {} /\ mainLoop = "halted" /\ stop # "none"

Inv == TypeOK /\ HoldsCheck /\ TrackerInv /\ StopInv /\ RunKeepsSender

----------------------------------------------------------------------------

\* The index of a bucket that is moved on is the index of a bucket.
LEMMA NextBucket ==
    ASSUME NEW b \in Buckets
    PROVE  /\ (b + 1) % NumBuckets \in Buckets
           /\ (b + SparseStep(NumBuckets)) % NumBuckets \in Buckets
  <1>1. \A n \in Int : n % NumBuckets \in Buckets
    BY BucketsAssumption DEF Buckets
  <1>2. SparseStep(NumBuckets) \in Int
    BY BucketsAssumption DEF SparseStep
  <1>3. b \in Int
    BY BucketsAssumption DEF Buckets
  <1>. QED
    BY <1>1, <1>2, <1>3

\* An ID is one of the IDs.
LEMMA IdOfCheck == \A c \in Checks : IdOf[c] \in Ids
  BY DEF Ids

\* The jobs left of a bucket.
LEMMA QueueWithType ==
    ASSUME NEW todo \in SUBSET Checks
    PROVE  /\ QueueWith(todo) \in [pc : {"select", "dispatch", "send", "stopped"},
                                   todo : SUBSET Checks, check : Checks \cup {None}]
           /\ QueueWith(todo).pc \in {"select", "dispatch"}
  BY DEF QueueWith

\* The initial state.
LEMMA InitInv == Init => Inv
  <1>. SUFFICES ASSUME Init PROVE Inv
    OBVIOUS
  <1>1. TypeOK
    <2>1. jobs \in [Buckets -> SUBSET Checks] /\ 0 \in Buckets
      BY BucketsAssumption DEF Init, Buckets
    <2>2. worker \in [AllWorkers -> [pc : {"none", "range", "add", "run", "running", "exited"},
                                     check : Checks \cup {None}]]
      BY DEF Init, WorkerIdle, NotStarted
    <2>3. /\ queue \in [pc : {"select", "dispatch", "send", "stopped"},
                        todo : SUBSET Checks, check : Checks \cup {None}]
          /\ stopCheck \in [pc : {"idle", "cancelSchedule", "stop", "cancel", "delete"},
                            check : Checks \cup {None}]
      BY DEF Init, QueueIdle, NoStopCheck
    <2>4. checks \in [Ids -> Checks \cup {None}] /\ runningChecks \in [Ids -> Checks \cup {None}]
      BY DEF Init
    <2>. QED
      BY <2>1, <2>2, <2>3, <2>4 DEF Init, TypeOK
  <1>2. \A w \in AllWorkers : worker[w].pc \in {"range", "none"}
    BY DEF Init, WorkerIdle, NotStarted
  <1>. QED
    BY <1>1, <1>2 DEF Init, Inv, HoldsCheck, TrackerInv, Holds, StopInv, RunKeepsSender,
                      NoStopCheck, QueueIdle

\* The steps in which workers and tracker change, the others leave both alone.
WorkSteps ==
    \/ \E w \in AllWorkers : AddCheck(w) \/ Run(w) \/ RunEnds(w) \/ WorkerExits(w)
    \/ \E w \in AllWorkers, c \in Checks : Receive(w, c)
    \/ \E i \in Ids : RunCheck(i)

\* The steps of the collector, action by action.
LEMMA NextCases ==
    ASSUME Next
    PROVE  \/ Tick \/ Dispatch
           \/ \E c \in Checks : DestroySender(c)
           \/ \E c \in Checks : OneTimeCancelled(c)
           \/ \E i \in Ids : StopCheckBegins(i)
           \/ StopCheckCancels \/ StopCheckStops \/ StopCheckCancelsCheck \/ StopCheckDeletes
           \/ StopBegins \/ SchedulerStopped \/ SnapshotRunning \/ StopEnds \/ QueueTold
           \/ \E c \in Checks : StopRunning(c)
           \/ WorkSteps
  BY DEF Next, Queue, StopCheck, Work, Stopping, WorkSteps

\* The types of the goroutines' states.
WorkerType == [pc : {"none", "range", "add", "run", "running", "exited"},
               check : Checks \cup {None}]
QueueType == [pc : {"select", "dispatch", "send", "stopped"},
              todo : SUBSET Checks, check : Checks \cup {None}]
StopCheckType == [pc : {"idle", "cancelSchedule", "stop", "cancel", "delete"},
                  check : Checks \cup {None}]

\* The type of every variable, and the checks in the hands of goroutines,
\* through every action.
LEMMA TypeStep == TypeOK /\ HoldsCheck /\ Next => TypeOK' /\ HoldsCheck'
  <1>. SUFFICES ASSUME TypeOK, HoldsCheck, Next PROVE TypeOK' /\ HoldsCheck'
    OBVIOUS
  <1>. USE IdOfCheck
  <1>0. /\ queue \in QueueType /\ stopCheck \in StopCheckType
        /\ worker \in [AllWorkers -> WorkerType]
        /\ OneTime \subseteq Checks
    BY ChecksAssumption DEF TypeOK, QueueType, StopCheckType, WorkerType
  <1>1. CASE Tick
    <2>1. queue' \in QueueType /\ queue'.pc # "send"
      BY <1>1, QueueWithType DEF Tick, TypeOK, QueueType
    <2>. QED
      BY <1>1, <2>1, NextBucket
         DEF Tick, TypeOK, HoldsCheck, QueueType, collectorVars, queueVars, wrapperVars,
             stoppingVars
  <1>2. CASE Dispatch
    <2>1. PICK c \in queue.todo :
              queue' = IF IdOf[c] \in checkToQueue THEN [queue EXCEPT !.pc = "send", !.check = c]
                       ELSE QueueWith(queue.todo \ {c})
      BY <1>2 DEF Dispatch
    <2>2. c \in Checks /\ queue.todo \ {c} \in SUBSET Checks
      BY <1>0 DEF QueueType
    <2>3. queue' \in QueueType /\ (queue'.pc = "send" => queue'.check \in Checks)
      BY <1>0, <2>1, <2>2, QueueWithType DEF QueueType
    <2>. QED
      BY <1>2, <2>3
         DEF Dispatch, TypeOK, HoldsCheck, QueueType, collectorVars, queueVars, wrapperVars,
             stoppingVars
  <1>3. ASSUME NEW c \in Checks, DestroySender(c) PROVE TypeOK' /\ HoldsCheck'
    BY <1>3
       DEF DestroySender, TypeOK, HoldsCheck, collectorVars, queueVars, wrapperVars,
           stoppingVars
  <1>4. ASSUME NEW c \in Checks, OneTimeCancelled(c) PROVE TypeOK' /\ HoldsCheck'
    BY <1>4
       DEF OneTimeCancelled, TypeOK, HoldsCheck, collectorVars, queueVars, wrapperVars,
           stoppingVars
  <1>5. ASSUME NEW i \in Ids, StopCheckBegins(i) PROVE TypeOK' /\ HoldsCheck'
    <2>1. stopCheck' \in StopCheckType /\ stopCheck'.check \in Checks
      BY <1>5 DEF StopCheckBegins, TypeOK, StopCheckType
    <2>. QED
      BY <1>5, <2>1
         DEF StopCheckBegins, TypeOK, HoldsCheck, StopCheckType, collectorVars, queueVars,
             wrapperVars, stoppingVars
  <1>6. CASE StopCheckCancels
    <2>1. stopCheck' \in StopCheckType /\ stopCheck'.check \in Checks
      BY <1>0, <1>6 DEF StopCheckCancels, HoldsCheck, StopCheckType
    <2>2. jobs' \in [Buckets -> SUBSET Checks] /\ checkToQueue' \subseteq Ids
      BY <1>6 DEF StopCheckCancels, CancelSchedule, TypeOK
    <2>. QED
      BY <1>6, <2>1, <2>2
         DEF StopCheckCancels, CancelSchedule, TypeOK, HoldsCheck, StopCheckType, collectorVars,
             wrapperVars, stoppingVars
  <1>7. CASE StopCheckStops
    <2>1. stopCheck' \in StopCheckType /\ stopCheck'.check \in Checks
      BY <1>0, <1>7 DEF StopCheckStops, HoldsCheck, StopCheckType
    <2>. QED
      BY <1>7, <2>1
         DEF StopCheckStops, TypeOK, HoldsCheck, StopCheckType, collectorVars, queueVars,
             wrapperVars, stoppingVars
  <1>8. CASE StopCheckCancelsCheck
    <2>1. stopCheck' \in StopCheckType /\ stopCheck'.check \in Checks /\ stopCheck.check \in Checks
      BY <1>0, <1>8 DEF StopCheckCancelsCheck, HoldsCheck, StopCheckType
    <2>. QED
      BY <1>8, <2>1
         DEF StopCheckCancelsCheck, TypeOK, HoldsCheck, StopCheckType, collectorVars, queueVars,
             wrapperVars, stoppingVars
  <1>9. CASE StopCheckDeletes
    <2>1. stopCheck' \in StopCheckType /\ stopCheck'.pc = "idle"
      BY <1>9 DEF StopCheckDeletes, NoStopCheck, StopCheckType
    <2>2. checks' \in [Ids -> Checks \cup {None}]
      BY <1>9 DEF StopCheckDeletes, TypeOK
    <2>. QED
      BY <1>9, <2>1, <2>2
         DEF StopCheckDeletes, TypeOK, HoldsCheck, StopCheckType, queueVars, wrapperVars,
             stoppingVars
  <1>10. CASE StopBegins \/ SchedulerStopped \/ StopEnds
    BY <1>10
       DEF StopBegins, SchedulerStopped, StopEnds, TypeOK, HoldsCheck, collectorVars, queueVars,
           wrapperVars
  <1>11. CASE SnapshotRunning
    BY <1>0, <1>11 DEF SnapshotRunning, TypeOK, HoldsCheck, collectorVars, queueVars, wrapperVars
  <1>12. CASE QueueTold
    <2>1. queue' \in QueueType /\ queue'.pc = "stopped"
      BY <1>12 DEF QueueTold, QueueIdle, QueueType
    <2>. QED
      BY <1>12, <2>1
         DEF QueueTold, TypeOK, HoldsCheck, QueueType, collectorVars, queueVars, wrapperVars
  <1>13. ASSUME NEW c \in Checks, StopRunning(c) PROVE TypeOK' /\ HoldsCheck'
    BY <1>13 DEF StopRunning, TypeOK, HoldsCheck, collectorVars, queueVars
  <1>14. ASSUME NEW i \in Ids, RunCheck(i) PROVE TypeOK' /\ HoldsCheck'
    <2>1. PICK c \in Checks \ entered :
            /\ entered' = entered \cup {c}
            /\ checks' = [checks EXCEPT ![i] = c]
            /\ IF c \in OneTime
                 THEN /\ once' = once \cup {c}
                      /\ worker' = [worker EXCEPT ![c] = WorkerIdle]
                      /\ UNCHANGED queueVars
                 ELSE EnterQueue(c) /\ UNCHANGED <<once, worker>>
            /\ UNCHANGED <<stopCheck, queue, runningChecks, wrapperVars, stoppingVars>>
      BY <1>14 DEF RunCheck
    <2>2. checks' \in [Ids -> Checks \cup {None}] /\ entered' \subseteq Checks
      BY <2>1 DEF TypeOK
    <2>3. CASE c \in OneTime
      <3>1. worker' \in [AllWorkers -> WorkerType]
        BY <1>0, <2>1, <2>3 DEF WorkerIdle, WorkerType
      <3>2. \A w \in AllWorkers : worker'[w] = worker[w] \/ worker'[w].pc = "range"
        BY <1>0, <2>1, <2>3 DEF WorkerIdle
      <3>3. HoldsCheck'
        BY <2>1, <3>2 DEF HoldsCheck
      <3>. QED
        BY <2>1, <2>2, <2>3, <3>1, <3>3 DEF TypeOK, WorkerType, queueVars, wrapperVars, stoppingVars
    <2>4. CASE c \notin OneTime
      <3>1. jobs' \in [Buckets -> SUBSET Checks] /\ checkToQueue' \subseteq Ids
        BY <2>1, <2>4 DEF EnterQueue, TypeOK
      <3>2. schedulingBucketIdx' \in Buckets /\ currentBucketIdx' \in Buckets
        BY <2>1, <2>4, NextBucket DEF EnterQueue, TypeOK
      <3>. QED
        BY <2>1, <2>2, <2>4, <3>1, <3>2 DEF TypeOK, HoldsCheck, wrapperVars, stoppingVars
    <2>. QED
      BY <2>3, <2>4
  <1>15. ASSUME NEW w \in AllWorkers, NEW c \in Checks, Receive(w, c) PROVE TypeOK' /\ HoldsCheck'
    <2>1. queue' \in QueueType /\ (queue'.pc = "send" => queue'.check \in Checks)
      <3>1. queue.todo \ {c} \in SUBSET Checks
        BY <1>0 DEF QueueType
      <3>. QED
        BY <1>0, <1>15, <3>1, QueueWithType DEF Receive, HoldsCheck, QueueType
    <2>2. /\ worker' \in [AllWorkers -> WorkerType]
          /\ \A v \in AllWorkers :
                worker'[v] = IF v = w THEN [pc |-> "add", check |-> c] ELSE worker[v]
      BY <1>0, <1>15 DEF Receive, WorkerType
    <2>3. HoldsCheck'
      BY <1>15, <2>1, <2>2 DEF Receive, HoldsCheck
    <2>. QED
      BY <1>15, <2>1, <2>2, <2>3
         DEF Receive, TypeOK, QueueType, WorkerType, collectorVars, queueVars, wrapperVars,
             stoppingVars
  <1>16. ASSUME NEW w \in AllWorkers, AddCheck(w) \/ Run(w) \/ RunEnds(w) \/ WorkerExits(w)
         PROVE  TypeOK' /\ HoldsCheck'
    <2>1. worker[w].pc # "range" => worker[w].check \in Checks /\ IdOf[worker[w].check] \in Ids
      BY <1>16 DEF AddCheck, Run, RunEnds, WorkerExits, HoldsCheck
    <2>2. runningChecks' \in [Ids -> Checks \cup {None}]
      BY <1>16, <2>1 DEF AddCheck, Run, RunEnds, WorkerExits, DeleteCheck, TypeOK
    <2>3. /\ worker' \in [AllWorkers -> WorkerType]
          /\ \A v \in AllWorkers \ {w} : worker'[v] = worker[v]
          /\ \/ worker'[w].pc \in {"range", "exited"}
             \/ worker'[w].check = worker[w].check /\ worker[w].pc # "range"
      BY <1>0, <1>16 DEF AddCheck, Run, RunEnds, WorkerExits, DeleteCheck, WorkerIdle, WorkerType
    <2>4. HoldsCheck'
      BY <1>16, <2>1, <2>3 DEF AddCheck, Run, RunEnds, WorkerExits, HoldsCheck
    <2>. QED
      BY <1>16, <2>2, <2>3, <2>4
         DEF AddCheck, Run, RunEnds, WorkerExits, TypeOK, WorkerType, collectorVars, queueVars,
             wrapperVars, stoppingVars
  <1>. QED
    BY <1>1, <1>2, <1>3, <1>4, <1>5, <1>6, <1>7, <1>8, <1>9, <1>10, <1>11, <1>12, <1>13, <1>14,
       <1>15, <1>16, NextCases DEF WorkSteps

----------------------------------------------------------------------------

\* A step of one worker that neither starts nor ends to hold a check keeps the
\* tracker right.
LEMMA OtherWorkerKeepsTracker ==
    ASSUME TrackerInv, UNCHANGED runningChecks,
           \A v \in AllWorkers : Holds(v)' => Holds(v) /\ worker'[v].check = worker[v].check
    PROVE  TrackerInv'
  BY DEF TrackerInv

\* The tracker is right through every action: AddCheck takes an ID that nobody
\* holds, and DeleteCheck gives it back when its only holder is done.
LEMMA TrackerStep == TypeOK /\ HoldsCheck /\ TrackerInv /\ Next => TrackerInv'
  <1>. SUFFICES ASSUME TypeOK, HoldsCheck, TrackerInv, Next PROVE TrackerInv'
    OBVIOUS
  <1>0. worker \in [AllWorkers -> WorkerType] /\ runningChecks \in [Ids -> Checks \cup {None}]
    BY DEF TypeOK, WorkerType
  <1>1. CASE UNCHANGED <<worker, runningChecks>>
    <2>1. \A v \in AllWorkers : Holds(v)' => Holds(v) /\ worker'[v].check = worker[v].check
      BY <1>1 DEF Holds
    <2>. QED
      BY <1>1, <2>1, OtherWorkerKeepsTracker
  <1>2. ASSUME NEW i \in Ids, RunCheck(i) PROVE TrackerInv'
    <2>1. PICK c \in Checks : worker' = [worker EXCEPT ![c] = WorkerIdle] \/ worker' = worker
      BY <1>2 DEF RunCheck
    <2>2. \A v \in AllWorkers : Holds(v)' => Holds(v) /\ worker'[v].check = worker[v].check
      BY <1>0, <2>1 DEF Holds, WorkerIdle
    <2>. QED
      BY <1>2, <2>2, OtherWorkerKeepsTracker DEF RunCheck
  <1>3. ASSUME NEW w \in AllWorkers, NEW c \in Checks, Receive(w, c) PROVE TrackerInv'
    <2>1. \A v \in AllWorkers : Holds(v)' => Holds(v) /\ worker'[v].check = worker[v].check
      BY <1>0, <1>3 DEF Receive, Holds
    <2>. QED
      BY <1>3, <2>1, OtherWorkerKeepsTracker DEF Receive
  <1>4. ASSUME NEW w \in AllWorkers, WorkerExits(w) PROVE TrackerInv'
    <2>1. \A v \in AllWorkers : Holds(v)' => Holds(v) /\ worker'[v].check = worker[v].check
      BY <1>0, <1>4 DEF WorkerExits, Holds, WorkerType
    <2>. QED
      BY <1>4, <2>1, OtherWorkerKeepsTracker DEF WorkerExits
  <1>5. ASSUME NEW w \in AllWorkers, DeleteCheck(w), Holds(w) PROVE TrackerInv'
    <2>1. \A v \in AllWorkers : worker'[v] = IF v = w THEN WorkerIdle ELSE worker[v]
      BY <1>0, <1>5 DEF DeleteCheck
    <2>2. \A v \in AllWorkers : Holds(v)' => v # w /\ Holds(v) /\ worker'[v] = worker[v]
      BY <2>1 DEF Holds, WorkerIdle
    <2>3. \A v \in AllWorkers :
              v # w /\ Holds(v) => IdOf[worker[v].check] # IdOf[worker[w].check]
      BY <1>5 DEF TrackerInv
    <2>4. \A j \in Ids : j # IdOf[worker[w].check] => runningChecks'[j] = runningChecks[j]
      BY <1>0, <1>5 DEF DeleteCheck
    <2>5. \A v \in AllWorkers : Holds(v) => IdOf[worker[v].check] \in Ids
      BY IdOfCheck DEF HoldsCheck, Holds
    <2>. QED
      BY <2>2, <2>3, <2>4, <2>5 DEF TrackerInv
  <1>6. ASSUME NEW w \in AllWorkers, AddCheck(w) PROVE TrackerInv'
    <2>. DEFINE c == worker[w].check
    <2>1. c \in Checks /\ IdOf[c] \in Ids
      BY <1>6, IdOfCheck DEF AddCheck, HoldsCheck
    <2>2. CASE runningChecks[IdOf[c]] = None
      <3>1. /\ runningChecks' = [runningChecks EXCEPT ![IdOf[c]] = c]
            /\ worker' = [worker EXCEPT ![w].pc = "run"]
        BY <1>6, <2>2 DEF AddCheck
      <3>2. \A v \in AllWorkers :
                Holds(v) => IdOf[worker[v].check] \in Ids /\ worker[v].check \in Checks
        BY IdOfCheck DEF HoldsCheck, Holds
      <3>3. \A v \in AllWorkers : Holds(v) => IdOf[worker[v].check] # IdOf[c]
        BY <2>2, <3>2, ChecksAssumption DEF TrackerInv
      <3>4. /\ worker'[w].check = c
            /\ \A v \in AllWorkers : v # w => worker'[v] = worker[v]
        BY <1>0, <3>1 DEF WorkerType
      <3>5. /\ runningChecks'[IdOf[c]] = c
            /\ \A j \in Ids : j # IdOf[c] => runningChecks'[j] = runningChecks[j]
        BY <1>0, <2>1, <3>1
      <3>6. \A v \in AllWorkers : v # w => (Holds(v)' <=> Holds(v))
        BY <3>4 DEF Holds
      <3>. QED
        BY <3>2, <3>3, <3>4, <3>5, <3>6 DEF TrackerInv
    <2>3. CASE runningChecks[IdOf[c]] # None
      <3>1. \A v \in AllWorkers : Holds(v)' => Holds(v) /\ worker'[v].check = worker[v].check
        BY <1>0, <1>6, <2>3 DEF AddCheck, Holds, WorkerIdle
      <3>. QED
        BY <1>6, <2>3, <3>1, OtherWorkerKeepsTracker DEF AddCheck
    <2>. QED
      BY <2>2, <2>3
  <1>7. ASSUME NEW w \in AllWorkers, Run(w) PROVE TrackerInv'
    <2>1. CASE worker[w].check \in done
      BY <1>5, <1>7, <2>1 DEF Run, Holds
    <2>2. CASE worker[w].check \notin done
      <3>1. \A v \in AllWorkers : Holds(v)' => Holds(v) /\ worker'[v].check = worker[v].check
        BY <1>0, <1>7, <2>2 DEF Run, Holds, WorkerType
      <3>. QED
        BY <1>7, <2>2, <3>1, OtherWorkerKeepsTracker DEF Run
    <2>. QED
      BY <2>1, <2>2
  <1>8. ASSUME NEW w \in AllWorkers, RunEnds(w) PROVE TrackerInv'
    BY <1>5, <1>8 DEF RunEnds, Holds
  <1>9. WorkSteps \/ UNCHANGED <<worker, runningChecks>>
    BY NextCases
       DEF Tick, Dispatch, DestroySender, OneTimeCancelled, StopCheckBegins, StopCheckCancels,
           StopCheckStops, StopCheckCancelsCheck, StopCheckDeletes, StopBegins, SchedulerStopped,
           SnapshotRunning, StopEnds, QueueTold, StopRunning
  <1>. QED
    BY <1>1, <1>2, <1>3, <1>4, <1>6, <1>7, <1>8, <1>9 DEF WorkSteps

\* Who can still send, through every action: the channel is closed only when
\* the queue has stopped and every one-time goroutine is gone, and RunCheck
\* starts no other once stop has begun.
LEMMA StopStep == StopInv /\ Next => StopInv'
  <1>. SUFFICES ASSUME StopInv, Next PROVE StopInv'
    OBVIOUS
  <1>1. CASE UNCHANGED <<queue, once, stoppingVars>>
    BY <1>1 DEF StopInv, stoppingVars
  <1>2. CASE Tick \/ Dispatch
    <2>1. queue.pc # "stopped" /\ UNCHANGED <<closed, mainLoop>>
      BY <1>2 DEF Tick, Dispatch, stoppingVars
    <2>2. mainLoop # "halted" /\ ~closed
      BY <2>1 DEF StopInv
    <2>. QED
      BY <2>1, <2>2 DEF StopInv
  <1>3. ASSUME NEW c \in Checks, OneTimeCancelled(c) PROVE StopInv'
    BY <1>3 DEF OneTimeCancelled, StopInv, stoppingVars
  <1>4. CASE StopBegins \/ SchedulerStopped \/ SnapshotRunning \/ StopEnds
    BY <1>4 DEF StopBegins, SchedulerStopped, SnapshotRunning, StopEnds, StopInv
  <1>5. CASE QueueTold
    BY <1>5 DEF QueueTold, QueueIdle, StopInv
  <1>6. ASSUME NEW c \in Checks, StopRunning(c) PROVE StopInv'
    BY <1>6 DEF StopRunning, StopInv
  <1>7. ASSUME NEW i \in Ids, RunCheck(i) PROVE StopInv'
    BY <1>7 DEF RunCheck, StopInv, stoppingVars
  <1>8. ASSUME NEW w \in AllWorkers, NEW c \in Checks, Receive(w, c) PROVE StopInv'
    BY <1>8 DEF Receive, StopInv, stoppingVars
  <1>. QED
    BY <1>1, <1>2, <1>3, <1>4, <1>5, <1>6, <1>7, <1>8, NextCases
       DEF WorkSteps, DestroySender, StopCheckBegins, StopCheckCancels, StopCheckStops,
           StopCheckCancelsCheck, StopCheckDeletes, AddCheck, Run, RunEnds, WorkerExits

\* What RunKeepsSender says of an instance that runs.
Keeps(c) ==
    /\ c \notin done
    /\ IdOf[c] \in destroyed => \E d \in done \ {c} : IdOf[d] = IdOf[c]

LEMMA KeepsSender ==
    RunKeepsSender <=> \A w \in AllWorkers : worker[w].pc = "running" => Keeps(worker[w].check)
  BY DEF RunKeepsSender, Keeps

\* Steps that start no run and leave the wrappers alone.
LEMMA NoNewRun ==
    ASSUME RunKeepsSender, UNCHANGED <<done, destroyed>>,
           \A w \in AllWorkers : worker'[w] = worker[w] \/ worker'[w].pc # "running"
    PROVE  RunKeepsSender'
  BY DEF RunKeepsSender

\* destroySender and Run of an instance exclude each other, done is final, and
\* Run begins with a sender.
LEMMA DestroyStep == TypeOK /\ HoldsCheck /\ RunKeepsSender /\ Next => RunKeepsSender'
  <1>. SUFFICES ASSUME TypeOK, HoldsCheck, RunKeepsSender, Next PROVE RunKeepsSender'
    OBVIOUS
  <1>0. worker \in [AllWorkers -> WorkerType]
    BY DEF TypeOK, WorkerType
  <1>1. CASE UNCHANGED <<worker, done, destroyed>>
    BY <1>1, NoNewRun
  <1>2. ASSUME NEW c \in Checks, DestroySender(c) PROVE RunKeepsSender'
    <2>1. \A w \in AllWorkers : worker[w].pc = "running" => worker[w].check # c
      <3>. SUFFICES ASSUME NEW w \in AllWorkers, worker[w].pc = "running", worker[w].check = c
                   PROVE  FALSE
        OBVIOUS
      <3>1. worker[w] = [pc |-> "running", check |-> c]
        BY <1>0 DEF WorkerType
      <3>. QED
        BY <1>2, <3>1 DEF DestroySender
    <2>2. done' = done \cup {c} /\ destroyed' = destroyed \cup {IdOf[c]} /\ UNCHANGED worker
      BY <1>2 DEF DestroySender
    <2>3. ASSUME NEW w \in AllWorkers, worker'[w].pc = "running" PROVE Keeps(worker[w].check)'
      <3>1. worker[w].pc = "running"
        BY <2>2, <2>3
      <3>2. worker[w].check \in Checks /\ worker[w].check # c /\ Keeps(worker[w].check)
        BY <2>1, <3>1, KeepsSender DEF HoldsCheck
      <3>3. ASSUME NEW b \in Checks, b # c, Keeps(b) PROVE b \notin done' /\ (IdOf[b] \in destroyed' => \E d \in done' \ {b} : IdOf[d] = IdOf[b])
        BY <2>2, <3>3 DEF Keeps
      <3>4. worker'[w].check = worker[w].check
        BY <2>2
      <3>. QED
        BY <3>2, <3>3, <3>4 DEF Keeps
    <2>. QED
      BY <2>3 DEF Keeps, RunKeepsSender
  <1>3. ASSUME NEW i \in Ids, RunCheck(i) PROVE RunKeepsSender'
    <2>1. PICK c \in Checks : worker' = [worker EXCEPT ![c] = WorkerIdle] \/ worker' = worker
      BY <1>3 DEF RunCheck
    <2>2. \A v \in AllWorkers : worker'[v] = worker[v] \/ worker'[v].pc # "running"
      BY <1>0, <2>1 DEF WorkerIdle
    <2>. QED
      BY <1>3, <2>2, NoNewRun DEF RunCheck, wrapperVars
  <1>4. ASSUME NEW w \in AllWorkers, NEW c \in Checks, Receive(w, c) PROVE RunKeepsSender'
    <2>1. \A v \in AllWorkers : worker'[v] = worker[v] \/ worker'[v].pc # "running"
      BY <1>0, <1>4 DEF Receive
    <2>. QED
      BY <1>4, <2>1, NoNewRun DEF Receive, wrapperVars
  <1>5. ASSUME NEW w \in AllWorkers, AddCheck(w) \/ RunEnds(w) \/ WorkerExits(w)
        PROVE  RunKeepsSender'
    <2>1. \A v \in AllWorkers : worker'[v] = worker[v] \/ worker'[v].pc # "running"
      BY <1>0, <1>5 DEF AddCheck, RunEnds, WorkerExits, DeleteCheck, WorkerIdle, WorkerType
    <2>. QED
      BY <1>5, <2>1, NoNewRun DEF AddCheck, RunEnds, WorkerExits, wrapperVars
  <1>6. ASSUME NEW w \in AllWorkers, Run(w) PROVE RunKeepsSender'
    <2>1. CASE worker[w].check \in done
      <3>1. \A v \in AllWorkers : worker'[v] = worker[v] \/ worker'[v].pc # "running"
        BY <1>0, <1>6, <2>1 DEF Run, DeleteCheck, WorkerIdle
      <3>. QED
        BY <1>6, <2>1, <3>1, NoNewRun DEF Run
    <2>2. CASE worker[w].check \notin done
      <3>1. /\ \A v \in AllWorkers \ {w} : worker'[v] = worker[v]
            /\ worker'[w].check = worker[w].check
            /\ done' = done /\ destroyed' = destroyed \ {IdOf[worker[w].check]}
        BY <1>0, <1>6, <2>2 DEF Run, WorkerType
      <3>. QED
        BY <2>2, <3>1 DEF RunKeepsSender
    <2>. QED
      BY <2>1, <2>2
  <1>. QED
    BY <1>1, <1>2, <1>3, <1>4, <1>5, <1>6, NextCases
       DEF WorkSteps, Tick, Dispatch, OneTimeCancelled, StopCheckBegins, StopCheckCancels,
           StopCheckStops, StopCheckCancelsCheck, StopCheckDeletes, StopBegins, SchedulerStopped,
           SnapshotRunning, StopEnds, QueueTold, StopRunning, wrapperVars

----------------------------------------------------------------------------

\* The inductive invariant: goroutines hold the checks they are about to use,
\* the tracker names what runs, the channel is closed after its last sender,
\* and no instance runs that is done or without a sender that no other
\* instance destroyed (worker.go, runner.go, check_wrapper.go).
THEOREM CollectorCorrect == Spec => []Inv
  <1>1. Inv /\ [Next]_vars => Inv'
    <2>1. Inv /\ Next => Inv'
      BY TypeStep, TrackerStep, StopStep, DestroyStep DEF Inv
    <2>2. Inv /\ UNCHANGED vars => Inv'
      BY DEF Inv, TypeOK, HoldsCheck, TrackerInv, Holds, StopInv, RunKeepsSender, vars,
             collectorVars, queueVars, wrapperVars, stoppingVars
    <2>. QED
      BY <2>1, <2>2
  <1>. QED
    BY <1>1, InitInv, PTL DEF Spec

\* Every variable has its type.
THEOREM TypeCorrect == Spec => []TypeOK
  <1>1. Inv => TypeOK
    BY DEF Inv
  <1>. QED
    BY <1>1, CollectorCorrect, PTL

\* Runs under one ID never overlap and the tracker names the instance that
\* runs, for any number of workers and reloads (worker.go, AddCheck and
\* DeleteCheck around Run).
THEOREM NoOverlap == Spec => []OneRunPerId
  <1>1. Inv => OneRunPerId
    <2>. SUFFICES ASSUME Inv, NEW i \in Ids
                 PROVE  /\ Cardinality(Holding(i)) <= 1
                        /\ \A w \in Holding(i) : runningChecks[i] = worker[w].check
      BY DEF OneRunPerId
    <2>1. \A w \in Holding(i) : w \in AllWorkers /\ Holds(w) /\ IdOf[worker[w].check] = i
      BY DEF Holding, Holds
    <2>2. \A v, w \in Holding(i) : v = w
      BY <2>1 DEF Inv, TrackerInv
    <2>3. Cardinality(Holding(i)) <= 1
      <3>1. CASE Holding(i) = {}
        BY <3>1, FS_EmptySet
      <3>2. CASE Holding(i) # {}
        <4>1. PICK w : Holding(i) = {w}
          BY <2>2, <3>2
        <4>2. Cardinality({w}) = 1
          BY FS_Singleton
        <4>. QED
          BY <4>1, <4>2
      <3>. QED
        BY <3>1, <3>2
    <2>. QED
      BY <2>1, <2>3 DEF Inv, TrackerInv
  <1>. QED
    BY <1>1, CollectorCorrect, PTL

\* Runner.Stop closes the channel when nobody can send on it any more.
THEOREM PublishersStopped == Spec => []NoSendOnClosed
  <1>1. Inv => NoSendOnClosed
    BY DEF Inv, StopInv, NoSendOnClosed
  <1>. QED
    BY <1>1, CollectorCorrect, PTL

\* No instance runs during or after its own destroySender, however many queued
\* copies of it still arrive, and only another instance under its ID can take
\* the sender of a run away (check_wrapper.go, Run and destroySender).
THEOREM DestroyedNeverRuns == Spec => []RunKeepsSender
  <1>1. Inv => RunKeepsSender
    BY DEF Inv
  <1>. QED
    BY <1>1, CollectorCorrect, PTL

============================================================================
