# Datadog Agent: TLA+ models

This directory models four subsystems of the Datadog Agent in which several
goroutines, processes or failures share state, and whose errors show only after
long or unlucky sequences:

- the **default forwarder** (`comp/forwarder/defaultforwarder`, `pkg/util/backoff`):
  sends payloads to the intake, stops sending to endpoints that fail, keeps what
  could not be sent in memory and on disk, and saves it when the agent stops;
- **cluster checks** (`pkg/clusteragent/clusterchecks`, the provider of the node
  agents and the scheduler controller of `comp/core/autodiscovery`): the leader of
  the cluster agents assigns check configurations to node agents that poll it;
- the **fleet installer** (`pkg/fleet/installer`): changes the installed version of a
  package by a series of file system calls, any of which may fail or be the last;
- the **collector** (`pkg/collector`, `comp/collector`): schedules and runs the checks
  of one agent and stops them.

`PROJECT.json` lists components, runs, hazards, findings, theorems and, under
"map", the source lines of every definition.

## Inventory

### Forwarder

| component | state | operations | hard behaviour | correct when |
|---|---|---|---|---|
| circuit breaker (`impl/blocked_endpoints.go`, `pkg/util/backoff/backoff.go`) | per endpoint: unblocked / blocked / halfBlocked, error counter, end of the backoff | `isBlockForSend` before a request, `close` or `recover` after it, `isBlockForRetry` in a retry pass | the answer of a request arrives in a later state of the breaker; halfBlocked has no timer | a half-blocked endpoint always gets an answer; counter and state agree |
| retry queue (`internal/retry/transaction_retry_queue.go`, `on_disk_retry_queue.go`, `disk_usage_limit.go`, `file_removal_policy.go`) | slice and size in memory, list and size of files, the folder itself | `Add`, `FlushToDisk`, `ExtractTransactions`, `Store`, `ExtractLast`, reload and removal of outdated files at startup | limits kept by running counters; every file operation may fail; a crash between or inside writes | nothing comes out twice; sizes exact; limits hold; losses are reported |
| domain forwarder (`impl/domain_forwarder.go`) | channels highPrio, lowPrio, requeuedTransaction; retry goroutine; state | submission, direct submission, ticker, requeue, `Stop` | `select` over several channels that fill up; the order of `Stop` | every transaction in one place; outages end; `Stop` returns and closes channels nobody uses |
| worker (`impl/worker.go`) | semaphore, request wait group, stop channel, context | `Start` loop, `callProcess`, `process`, `requeue`, stop with or without waiting, purge | requests run in goroutines of their own; cancellation at any point | a request always tells the breaker its result; requeue never blocks |
| default forwarder (`impl/default_forwarder.go`) | state, mutex | submit, direct submit, `Stop` | the state is read without the mutex | submissions and `Stop` exclude each other |
| transaction (`transaction/transaction.go`) | payload, target, retryable, storable, priority, creation time | `Process` | which answers are errors, which are final, what a cancellation is | nothing disappears silently |

A submitter passes the check of `DefaultForwarder`, then puts a transaction in
`highPrio`, or in the retry queue when the channel is full. A worker takes it, waits
for its semaphore and starts a goroutine that asks the breaker, sends, tells the
breaker the result, and hands a failed transaction to `requeuedTransaction`. The
retry goroutine moves it to the retry queue and, on a ticker, takes the stored
transactions out and hands those of unblocked endpoints to `lowPrio`. `Stop` ends
the retry goroutine, ends the workers one by one, closes the channels, moves what
`requeuedTransaction` and `lowPrio` hold to the retry queue and flushes it to disk.

### Cluster checks

| component | state | operations | hard behaviour | correct when |
|---|---|---|---|---|
| dispatcher (`dispatcher_main.go`, `dispatcher_configs.go`, `dispatcher_nodes.go`, `dispatcher_rebalance.go`, `stores.go`) | clusterStore: registered configurations, assigned node of each, dangling ones; a nodeStore per node | `Schedule`, `Unschedule`, cleanup tick (expire, retrieve, reschedule, delete), node status, collection, rebalance, reset | every operation is several sections under the store's lock; a target is chosen in one and used in the next, when the node may be gone | a configuration has one owner, is never forgotten, and is run in the end |
| handler (`handler.go`, `handler_leader.go`) | state, leadership channel, the goroutine of each term | leader watch, warm-up, `runDispatch` | leadership changes while the last term's goroutine still registers or resets | a lasting leader dispatches, a lasting follower stops, terms do not mix |
| config provider of the node agents (`providers/clusterchecks.go`) | the stamp last heard, the configurations run | `IsUpToDate`, `Collect`, extra heartbeat | lost answers, an unknown node, another leader | an agent told it is up to date is |
| scheduler controller (`autodiscovery/scheduler/controller.go`, `configstate.go`) | desired state per configuration, scheduled configurations, work queue, registered schedulers | `ApplyChanges`, the worker, `Register` with its replay, `Deregister`, cleanup | desired state read, then acted on without the lock | the last request wins; a scheduler registered late knows what the others know |

### Fleet installer

| component | state | operations | hard behaviour | correct when |
|---|---|---|---|---|
| repository (`repository/repository.go`) | a directory per version, the links stable and experiment | `Create`, `Delete`, `SetExperiment`, `PromoteExperiment`, `DeleteExperiment`, `Cleanup` | no operation is atomic on disk; removals are cut short; hooks refuse | the experiment operations are atomic to `GetState`; links lead to whole packages; the next operation recovers; garbage goes |
| installer (`installer.go`) | an entry of `packages.db` | `Install`, `ForceInstall`, experiment operations, `Remove`, `GarbageCollect`, `Purge` | entry and repository change one after the other | the entry names the stable version |

### Collector

| component | state | operations | hard behaviour | correct when |
|---|---|---|---|---|
| collector (`comp/collector/collector/impl`) | the checks entered | `RunCheck`, `StopCheck`, stop | stops race with a queue that still holds the check | stop returns |
| scheduler (`pkg/collector/scheduler`) | job queue with a bucket per second, goroutines of one-time checks | enter, cancel, tick, stop | sends on a channel that is closed later | nobody sends on it then |
| runner, workers, tracker (`pkg/collector/runner`, `worker`, `tracker`) | pending channel, running set | receive, run, `StopCheck`, `Stop` | a copy of a check is queued while another runs | runs of one ID do not overlap; a scheduled check runs again |
| check wrapper (`internal/middleware/check_wrapper.go`) | `done`, a lock | `Run`, `Cancel`, `destroySender` | the sender is destroyed, by ID, by a goroutine nobody awaits | no instance runs during or after its own `destroySender`; only another instance of the ID can take its sender away |

### The rest of the agent

The other parts are listed in `PROJECT.json` with the reason they are not modelled;
see "Not modelled" below.

## Modules

| module | content |
|---|---|
| `CircuitBreaker` | the breaker as pure functions on one record |
| `BlockedEndpoints` | the breaker and its concurrent callers: admit, answer, expiry of a backoff |
| `RetryStore` | abstract: what the forwarder relies on in its retry queue (put, take, lose) |
| `TransactionRetryQueue` | memory, files, limits, failures, crash, reload |
| `DomainForwarder` | submission, direct sends, workers, requests, retry goroutine, `Stop`, on top of `CircuitBreaker` and of a store that behaves like `RetryStore` |
| `ClusterChecks` | the leader's dispatcher, the node agents' provider, faults and failover |
| `SchedulerController` | the controller of autodiscovery, alone |
| `ClusterCheckHandler` | the handler and its terms, composed with `SchedulerController`, of which its dispatcher is a scheduler |
| `PackageRepository` | abstract: what `GetState` may show during an operation: the experiment operations are atomic, `Create` and `Delete` remove the experiment, then the stable version, and `Create` then installs in one step |
| `FleetRepository` | the operations of a repository, one action per file system call |
| `FleetInstaller` | the installer and `packages.db` around `FleetRepository`; failing calls, crashes |
| `Collector` | collector, scheduler, runner, workers, wrapper |
| `MC*` | instances for TLC |
| `CircuitBreakerProofs`, `BlockedEndpointsProofs`, `TransactionRetryQueueProofs`, `DomainForwarderProofs`, `ClusterChecksProofs`, `ClusterCheckHandlerProofs`, `FleetInstallerProofs`, `CollectorProofs` | theorems |

Three refinements connect the layers: `TransactionRetryQueue` implements `RetryStore`
(`ImplementsStore`); `DomainForwarder` drives the breaker as `BlockedEndpoints` allows
(`ImplementsBreaker`), so the breaker's theorems hold inside the forwarder; and
`FleetInstaller` implements `PackageRepository` (`ImplementsRepository`). Definitions
marked "Mutant" are plausible bugs that the checks substitute for the original;
nothing else uses them.

### State and actions against the code

*Breaker.* `cb[e]` is the entry of `errorPerEndpoint`; an endpoint without an entry is
`NoBlock`, which every function treats alike. Time is reduced to the question the
code asks, whether `until` has passed (`expired`); jitter and duration disappear with
it. `GetBackoffDuration` is zero for a counter that is not positive, which `BlockFor`
keeps, and `MaxErrors` may be zero or negative, as it is when the maximum backoff is
smaller than the base.

*Retry queue.* The mutex makes operations atomic to each other; `pc` splits them at
file system calls, where they may fail and the process may be killed. The memory is a
set since `extractTransactionsFromMemory` sorts before it uses the order; the sort is
not stable, so ties are a choice. `dir` is the folder with a flag per file that says
whether `filenames` knows it. A file has a size, the transactions it deserializes to,
and whether it is whole. `ExtractLast` gives out any part of a file's transactions, as the
deserializer drops those it cannot read and returns no error. Files whose removal fails stay in the folder, stay counted
and are found again at the next start. A second failure while a failed write is
cleaned up is left out, as is a failing `entry.Info` at reload. Removal of outdated
files may remove any subset, as age is not modelled.

*Forwarder.* A transaction is a value that moves from set to set. Channels are sets
with a capacity of at least one. `wpc` is the program counter of `Start`; `hand` is
what `callProcess` has received and not started; `gate` and `wire` are the requests
before `isBlockForSend` and in `Process`. `Process` is its outcomes: delivered or
refused for good (no error), to be retried (error), canceled (no error and nothing
done but the call of the completion handler). A submission that finds `highPrio` full is
in `full` until it reaches the retry queue: `Stop` may drain and flush in between.
`spc` is the program counter of `Stop`, `how` its two settings. `lost` is a transaction
that the forwarder gives up and counts nowhere: the one of a canceled request, what
is left in `highPrio` when it is closed, what `FlushToDisk` leaves in memory because it
cannot be written or there is no disk, and a submission that `Stop` has overtaken.
`dropped` is one refused by the intake or without room in `requeuedTransaction`, both
counted, or given up by the retry queue while the forwarder runs (whether that is
counted is the matter of `TransactionRetryQueue`). Two histories name the cases of
`NoSilentLoss`: `late`, the submissions under way when `Stop` begins, and `saved`,
whether `FlushToDisk` left nothing in memory. The context of a direct send only times out, so it
is never canceled. A panic of a late submission is recorded and the model goes on,
which can only add behaviour. Left out: the periodic reset of idle connections (it
replaces the HTTP client under a lock), the gate that suspends a domain for
multi-region failover, the time limit of `DefaultForwarder.Stop` (after it the process
may exit in the middle of any stage), `Start`, and telemetry.

*Cluster checks.* One action is one section under the store's mutex. What a goroutine
read in one section and uses in the next is its local state: `ad` (the autodiscovery
goroutine inside `Schedule`), `loop` (the cleanup tick with the dangling
configurations it copied), `move` (a rebalance with the move it picked). A
configuration stands for its digest. A heartbeat is fresh or older than the expiration
timeout. Stamps are compared only with stamps of the same node, so each node has its
own counter; this is the nanosecond clock without its absolute values. The faults are
a crash of an agent, a cut link, a late heartbeat, a lost answer, a status of a node
that has just expired, and a failover to another leader, whose store is empty. The
weights that choose a move are left out (any move of a configuration the runner's
statistics name), as are endpoint checks, isolation and metrics.

*Controller and handler.* A request is `UpdateDesiredState` followed by `QueueAdd`, each
under its own lock; the worker takes a digest (`QueueGet`), reads its desired state
(`GetConfigState`) and either cleans up (`CleanupWork`) or applies it (`ApplyWork`).
`Register` replays the scheduled configurations under the controller's lock. The work
queue is a library and modelled by how the code uses it: a set of digests, one of them
being worked on. `shards` is the shard tracker. `dispatch[t]` is the program counter of
the `runDispatch` goroutine of the t-th term; several can exist at once. Whether such a
goroutine ends within the warm-up of the next term is the constant
`WarmupOutlastsDispatch`.

*Fleet.* `dir[f]` is absent, whole or partial (a removal was cut short); `stable` and
`experiment` are the links on disk; `op` is the operation under way with the links it
read at its start. Every file system call is an action with a failing alternative, a
hook may refuse, and the process may be killed between any two. `db` is the entry in
`packages.db`. Two histories tell the properties what to expect: `unsettled` (an
operation of the repository has begun and the entry has not followed; this is from the
beginning of the operation on, a little before it first changes something) and `wreck` (a purge was begun and
did not finish; see the findings). `Operation` is the operation under way as the abstract
repository knows it; a `Create` is "replace" until the stable link is gone and "create"
after it.

*Collector.* The channel to the workers has no buffer, so a send and its receive are
one step. `jobs` are the buckets of the queue with the two indexes of the code;
`runningChecks` is the tracker; `done` and `destroying` are the wrapper's flag and the
goroutines that set it; `worker` holds the program counter of each worker, including
the extra one that is started for each one-time check. Checks are instances: a reload
makes a new instance with the old ID. `destroyed` holds the IDs whose sender was destroyed
and not made again: `destroySender` destroys by ID, and a run gets the sender of its ID or
makes it. A one-time run may end when told or by itself. The unlock of `runM` at the end
of a run and the `DeleteCheck` that follows are one step, as nothing of the model can tell
the states between them apart but a `destroySender` that starts a moment later. One
`StopCheck` runs at a time, since its one caller that is itself called is
`CheckScheduler.Unschedule` (`pkg/collector/scheduler.go:147`), which the scheduler
controller's worker calls. Shadow checks (a second queue and pool that
behave alike), the HA gate, the growth of the pool for periodic checks, statistics and
the watchdog are left out.

## Runs

| run | instance | result |
|---|---|---|
| `breaker_safety` | 2 endpoints, 4 requests (symmetric), maximum 4, recovery 2 | `TypeOK`, `HalfBlockedAwaitsAnswer`, `CounterMatchesState` hold |
| `retryqueue_safety` | 3 transactions, memory 3, disk 3, 2 files | `TypeOK`, `MemAccounting`, `DiskAccounting`, `DropsReported`, `ImplementsStore`, `DiskLimit`, `FlushTakesAll` hold |
| `forwarder_safety` | 2 workers with one request each, 3 interchangeable transactions, capacities 1, disk, all four modes of `Stop` | `TypeOK`, `ExactlyOnePlace`, `NoSilentLoss`, `QuietWhenClosed` hold |
| `forwarder_live` | 1 worker with two requests, 2 transactions, no disk | `Settles`, `StopReturns`, `ImplementsBreaker` hold |
| `forwarder_submit_stop` | as `forwarder_safety`, ranked transactions | `SubmitSurvivesStop` fails |
| `clusterchecks` | 2 nodes, one of them a node agent, 2 configurations, advanced dispatching, 2 changes, 1 fault, 1 move | `TypeOK`, `OneOwnerUntilMoved`, `NothingForgotten`, `StampMeansConfigs`, `EventuallyRuns` hold |
| `clusterchecks_removed` | 2 nodes, 1 configuration, 3 changes, no fault | `RemovedStaysRemoved` fails |
| `handler_leadership` | 2 configurations, one with shards, 4 requests, 2 terms | `TypeOK`, `ReplayExact`, `CleanWarmup`, `ScheduleNotLost`, `LeaderDispatches`, `FollowerStops` hold |
| `controller_unschedule_lost` | the same, 3 requests | `UnscheduleNotLost` fails |
| `fleet_installer` | 3 versions (symmetric), with a hook | `TypeOK`, `LinksResolve`, `FailsForCause`, `NoGarbage`, `EntryIsStable`, `ImplementsRepository` hold |
| `fleet_purge` | 2 versions | `InstallAfterPurge` fails |
| `collector` | a periodic check in two instances with one ID, a one-time check, 1 worker, 2 buckets | `TypeOK`, `OneRunPerId`, `NoSendOnClosed`, `RunKeepsSender`, `CollectorStops`, `ScheduledRuns` hold |

*What the runs show.* The breaker never waits for an answer nobody will give. Memory
and files together are a store from which nothing comes twice, in spite of failed
removals and crashes. Every transaction of the forwarder is in one place, and a `Stop`
begun at any moment returns. The forwarder gives up nothing silently while it runs, and a
`Stop` that waits for requests, purges `highPrio` and can save the memory gives up only
submissions it overtook; any other `Stop` may lose more (see the observations). In cluster checks the store may be read and used in
different sections without harm as long as nothing is moved: a target that expires
between the two sends the configuration to the dangling ones. A stamp that an agent
holds stands for what it runs even after its node store was created anew, and a
configuration that stays scheduled is run in the end after any single fault. Terms of
leadership do not mix. An installation that is cut short anywhere leaves links that
lead to whole packages, and the next operation succeeds. To `GetState` an experiment
operation is done or not done; `Create` over an installed package and `Delete` are not
atomic, and one that ends half-way leaves the package without an experiment or without any
version. Checks of one ID never
overlap, although stopped instances may still be queued or blocked, and none runs after
its own `destroySender`.

*Bounds.* The breaker needs a counter that the recovery step neither reaches in one
step nor misses, and requests older than the block beside the probe: four requests on
two endpoints give all orders. In the queue t1 and t2 fill the memory together, t3 is
more valuable and larger than both limits, and t1 is not storable; two files are the
least for which the oldest and the newest differ and a forgotten file can lie before
or after a listed one; `MaxFiles` bounds the folder (`WriteFile` waits at the bound).
In the forwarder capacities of one make every channel overflow, three transactions let
one wait, one be in flight and one be stored, and two workers make `Stop` meet a worker
still at work while another has ended. `forwarder_safety` gives all transactions the
same rank, so that a pass takes them in any order: this allows more orders than ranks
would, and makes the permutations of transactions a sound symmetry. Its error counter goes to
one, which gives every state of the breaker; that it counts further is checked by
`breaker_safety` and `forwarder_live`.

In cluster checks `MaxChanges` bounds the calls of autodiscovery, `MaxFaults` the faults
and `MaxMoves` the moves. Two nodes are the least on which a configuration can move or
be dispatched again, two configurations keep one in progress while another is dangling;
one fault together with one move and two changes gives all pairs (a node that expires
during an addition, a failover during a move). The theorems lift the bounds for the
safety properties. `MaxRequests` bounds the requests to the controller: four let a
configuration be scheduled, unscheduled and scheduled again beside another; `MaxTerms`
of two is the least in which a term can leave something to the next. In the fleet model
nothing is bounded but the versions: stable, experiment, and one that is neither. In the
collector two instances under one ID are the least for a reload, two buckets the least
in which the index for scheduling and the current one differ, and one worker is the
hardest case for progress; the one-time check adds a second one to the pool, so that two
workers can hold copies of checks with one ID.

*Deadlock* is checked for the breaker, `clusterchecks` and the fleet installer. The other
models may stop: the queue when the folder is full, the forwarder and the collector when
`Stop` has returned, the handler when its requests and terms are used up.

*Fairness.* Forwarder (`forwarder_live`): every goroutine that can run runs; a request
ends because the HTTP client has a timeout; a backoff ends with the clock; the `select`
of the retry goroutine, which the Go runtime resolves at random, takes a case that is
ready again and again (strong fairness of `RequeueTransaction` and `StopRetry`). Nobody
has to submit or stop anything, and requests may fail for ever; `Settles` assumes that
the outage ends. Cluster checks: the goroutines of the leader and the polls of agents
that are up go on, and the heartbeat of an agent that is down or cut off grows old; no
crashed agent has to return, no link to heal, no rebalance to run, so `EventuallyRuns`
assumes one agent that stays reachable. Handler: the callers of `ApplyChanges`, the
worker, the watcher's ticker, `Run` and `runDispatch` go on; elections are free.
Collector: the queue, the workers, a stop that has begun, a receive that has a sender and
the end of one-time goroutines that were cancelled; strong fairness of `QueueTold`, the
queue's `select` between a tick or a send and its stop channel. A periodic run ends,
since a worker runs it to its end; a one-time run ends once it was told to stop; it may
end before, by itself or with an error, but nothing relies on that.
Liveness is checked without symmetry.

## Findings

Each violated property states what the repository says of the program.

1. `forwarder_submit_stop` (`default_forwarder.go:556`): a submission that has passed the
   state check when `Stop` begins sends on a closed channel.
2. `clusterchecks_removed` (`dispatcher_main.go:394`): the cleanup tick copies the dangling
   configurations, releases the lock and adds them one by one; one that is unscheduled in
   between is registered and assigned again for as long as this agent leads.
3. `controller_unschedule_lost` (`controller.go:183`): when the desired state equals the
   current one the worker calls `Cleanup`, which looks at the desired state only, and
   deletes a request to unschedule that arrived after it was read.
4. `fleet_purge` (`repository.go:519`): a purge cut short after a package is gone and
   before its link leaves a link that makes every later operation fail, where
   `installer.go:660` says that the next `Install` removes stale files.

Observations made while modelling that have no run:

- Breaker: `close` and `recover` take the late answer of a request sent before the block
  for the result of the probe, so a second test transaction may be on the wire.
  `HalfBlockedAwaitsAnswer` holds because of it. A failure in the middle of a retry pass
  splits the transactions of an endpoint, where `blocked_endpoints.go:184` says all, none
  or one.
- Retry queue: with no file left to remove, `makeRoomFor` lets a file be written on a disk
  over the ratio (`on_disk_retry_queue.go:165`); what `FlushToDisk` cannot store is counted
  nowhere (`transaction_retry_queue.go:213`); the transactions of a file that cannot be
  deserialized are only counted and no error follows (`on_disk_retry_queue.go:134`); a storage that cannot be created leaves a
  typed nil in the interface (`transaction_retry_queue.go:53`).
- Forwarder: `releasenotes/notes/persist-retry-queue-at-shutdown-*` and the comment of `Stop`
  ("persists retryable queued transactions", `domain_forwarder.go:296`) promise more than the
  code does. A request that `Stop` cancels returns no error and is not stored
  (`transaction.go:417`); with a stop timeout of zero what `highPrio` holds is not persisted,
  as the channel is closed undrained (`domain_forwarder.go:316`); without a disk, or when it
  cannot be written, the memory is lost with at most one log line and no count
  (`domain_forwarder.go:326`); and a submission that `Stop` overtakes goes to a queue that was
  already flushed. `NoSilentLoss` excludes exactly these.
- Dispatcher: `moveConfig` does not check that its source is the assigned node, so after a
  rebalance two nodes may serve one configuration, the case of which
  `checks_distribution.go:144` says that it "should never happen in practice"; this is why
  `OneOwnerUntilMoved` stops at the first move and `EventuallyRuns` then asks for a runner
  instead of exactly one. After a failover an agent that collects during the warm-up gets
  an empty list (`dispatcher_nodes.go:75` only covers the status). The degraded mode of the
  provider has no deadline by default.
- Handler: without `WarmupOutlastsDispatch` the goroutine of an old term may reset the store
  of the new one, and `CleanWarmup` fails.
- Controller: `Start` of a started controller returns with its mutex locked
  (`controller.go:80`).
- Installer: after a promotion or removal that was cut short `packages.db` is stale, and an
  `Install` of the version it names is skipped. `repository.go:52` says that all functions
  are "atomic"; `Create` over an installed package (`repository.go:143`) and `Delete` are
  not: they remove both links before anything else, so a failing call, a refusing hook or a
  crash after that leaves the package without a version until the next `Install`.
- Collector: a worker may add statistics after `StopCheck` removed them (`worker.go:276`); the
  `destroySender` of one instance destroys the sender of its ID (`check_wrapper.go:84`), also
  while another instance of that ID runs: after a reload the stopped one takes the sender of
  the one that replaced it, or the reverse if the new one is stopped while a run of the old
  one goes on, which `RunKeepsSender` states as its only exception; a one-time check that is received and not yet in the tracker is
  missed by `StopCheck` and `Runner.Stop` (`runner.go:240`).

## Theorems

All theorems hold for every value of the constants that satisfies the assumptions TLC
evaluates on each run: `BackoffAssumption` (what the constructor makes of the configured
policy), `QueueAssumption` (sizes and limits are natural numbers), `ForwarderAssumption` (at
least one worker, one slot, one place in a channel), and for the others that the names of
nothing are no names of something, that subsets are subsets and flags are flags.

*Breaker* (`BlockedEndpointsProofs`): `TypeCorrect`, `NoWedge` (`HalfBlockedAwaitsAnswer`),
`CounterCorrect` (`CounterMatchesState`). `NoWedge` is inductive by itself: the probe joins
`sending` in the step that enters halfBlocked, and any answer leaves halfBlocked
(`AnswerEndsProbe`).

*Retry queue* (`TransactionRetryQueueProofs`): `NeverTwice`; `Refinement`, that the queue is
a `RetryStore`; `DropsCorrect` (`DropsReported`). The content of memory, files, a running
`Add` and a running `Store` is the abstract store. The inductive invariant `QueueInv` says
that these and the callers' transactions are disjoint, files included, and at which points
of an operation a transaction or a batch can be under way. Without the disjointness a file
that could not be removed would give out its content a second time after a restart.
`DropsCorrect` adds `NothingMissing`: as long as nothing failed, every storable transaction
is in the queue, with a caller, or reported as dropped. Its delicate steps are the removal of a file,
whose other files keep their content (`RemovedFileKeeps`), and the reload, which finds every
file of the folder again: a sequence that permutes the files and is as long names them
all, by the pigeonhole argument of `FS_Injection` (`ReloadedAll`).

In the same module, the sizes: `TypeCorrect`, `MemoryCorrect` (`MemAccounting`), `DiskCorrect`
(`DiskAccounting`), `LimitCorrect` (`DiskLimit`) and `FlushCorrect` (`FlushTakesAll`). The model's
sums are folds of the community modules, which pick an element at each turn. The section
"Sums" shows that their value does not depend on the picks (`SumFixpoint`, `SumIs`), that a sum is
that of a subset and that of the rest (`SumSplit`), and that it survives a renaming of its
indices (`SumRenamed`), which is what appending a file, removing one and reloading the folder
do to the positions of files. The induction is on finite sets in the form of a set that
contains `{}` and is closed under adding an element (`SubsetInduction`, from the minimal
elements of the strict-subset order), so no operator has to be instantiated. The inductive
invariant `SizeInv` is used with `QueueInv` and says what is finite and what a running call
knows: `CallInv` (an `Add` holds at most one transaction, a `Store` a finite batch), `MemInv` (the
counter is the size of what is in memory) and `DiskInv` (the counter of the folder is at least
the bytes of the listed files and at most those of all files, and while `makeRoomFor` runs
neither the new file nor the room it computed exceeds the limit). Neither counter is inductive alone: that `memSize - SizeOf(E)`
is not negative needs the sum of what is extracted to be at most that of the memory, and
that `currentSizeInBytes` never falls below the listed files needs a file whose removal
failed to stay counted, and a removed one to have been listed once.

`FlushCorrect` has two hypotheses, that the memory limit is positive and that no payload is
empty. Both are needed. `forwarder_retry_queue_payloads_max_size` is not validated
(`default_forwarder.go`), and with 0 `extractTransactionsFromMemory(0)` takes nothing, so
`FlushToDisk` leaves the one transaction the memory can hold; and an empty payload can stay
behind those that reach the limit. `AddIsNotBlocked` and `LoopExtracts` justify the way the model
describes `extractTransactionsFromMemory`, as the set of results over all orders of equal
transactions: the set is never empty, and what the loop takes from a sorted slice is in it.

*Forwarder* (`DomainForwarderProofs`): `TypeCorrect`; `StopOrdered`, the invariant that relates
the stage of `Stop` to the goroutines that can still be at work; `Quiet` (`QuietWhenClosed`)
from it; `SilentLoss` (`NoSilentLoss`) by the invariant `LossIsLate`: only a `Stop` that does
not wait makes contexts dead, once `Stop` has begun what is `entered` or `full` is `late`, and
after a purge so is what `highPrio` holds, so that all that can be lost in a `Stop` that waits,
purges and saves is `late`; `OnePlace`
(`ExactlyOnePlace`). For the last, every action is shown to be a move of a set of
transactions from one place to another, possibly with some leaving the store (`Moves`), and
one lemma (`MovesKeepsOne`) shows that a move keeps every transaction in one place.
In the same module, `DrivesBreaker`: that `DomainForwarder` implements
`BlockedEndpoints` with the requests on the wire as `sending`; it needs `OnePlace`, since a
transaction that two requests sent would be admitted twice. `ForwarderNoWedge` applies the
breaker's theorem to the forwarder.

*Cluster checks* (`ClusterChecksProofs`): `StoreCorrect` (the inductive invariant), `TypeCorrect`,
`OneOwnerCorrect`, `NothingIsForgotten`, `StampCorrect`, for any number of nodes,
configurations, changes, faults and moves. The invariant has six parts beside the types: a
node without a node store has the values of a new one (`GoneIsNew`); stamps of the store and
of the agents are never ahead of the node's counter, and an agent that holds a node's stamp
runs what the node was assigned then (`StampsOfStore`, `StampsOfAgents`); `NothingForgotten`;
the store is consistent until a move (`ConsistentUntilMoved`); and what the cleanup tick
added has an owner, or was removed since (`AddedIsOwned`). The last is needed because the tick
takes what it added out of the dangling configurations in a later section: it must not take
out one that has no owner then.

*Handler* (`ClusterCheckHandlerProofs`): `LeadershipCorrect` (the inductive invariant),
`TypeCorrect`, `ScheduleIsNotLost`, and, under `WarmupOutlastsDispatch`, `ReplayIsExact` and
`WarmupIsClean`. Its parts: where the worker is (`WorkInv`); what is wanted is the desired
state (`WantedIsDesired`); a wanted configuration is queued, about to be scheduled, or
scheduled and not about to be unscheduled (`ScheduleNotLost`); the handler starts no more
terms than there were elections (`ElectionInv`); a term that has not started has no
goroutine, and with `WarmupOutlastsDispatch` only the last term has one (`TermInv`); and the
dispatcher is empty before `Register`, exact until `Deregister` and not registered when it is
reset (`DispatcherInv`, under the same condition).

*Fleet* (`FleetInstallerProofs`): `Recoverable` (the inductive invariant), `TypeCorrect`,
`LinksAlwaysResolve`, `Recovers` (`FailsForCause`), `GarbageCollected`, `EntryCorrect`, and
`Refinement` to `PackageRepository`, for any set of versions: to a caller of `GetState` each
experiment operation makes its one change or none, wherever it fails or is killed, and `Create`
and `Delete` go through their states in order and may stop in each of them. The invariant relates the call of
the installer to the operation of the repository (`CallMatchesOp`), the links an operation
holds in memory to the links on disk (`LinksKnown`), says for each stage of an operation
what the links, the directories and the root are and what is still to be removed
(`StageKinds`, `StageLinks`, `StageDirs`, `StageRoot`, `StageClean`), and what `packages.db`
holds during a call (`Entry`); with these the four properties (`Promises`) are inductive.
None of them is alone: that an operation recovers depends on the links it finds being
whole, which depends on what the operation before it removed, and in which order.

*Collector* (`CollectorProofs`): `CollectorCorrect` (the inductive invariant), `TypeCorrect`,
`NoOverlap` (`OneRunPerId`), `PublishersStopped` (`NoSendOnClosed`), `DestroyedNeverRuns`
(`RunKeepsSender`), for any number of checks, instances, workers and buckets. The tracker
names the check of every worker between `AddCheck` and `DeleteCheck`, and two such workers
never have one ID (`TrackerInv`): `AddCheck` takes an ID nobody holds because the tracker has
no entry, and `DeleteCheck` may clear the entry because its holder is the only one. A run holds
the wrapper's lock and `destroySender` waits for it, so an instance that runs is not done; a
sender is gone only when an instance of its ID is done and no run has made it anew. The
channel is closed only when the main loop has halted, the queue has stopped and the one-time
goroutines are gone, and `RunCheck` starts none once a stop has begun (`StopInv`).

*Only model-checked*: liveness (`Settles`, `StopReturns`, `EventuallyRuns`, `LeaderDispatches`,
`FollowerStops`, `CollectorStops`, `ScheduledRuns`), which rests on fairness and so on `ENABLED`,
which the prover does not handle. Every invariant, action property and refinement that a
passing run checks is also a theorem.

## Not modelled

The implementation has more than a million lines, most of which collect, parse, encode or
transform data (security and eBPF event accessors, generated protobuf code, integrations,
samplers, the aggregator): a model would be a transliteration without a protocol to check.
What is modelled is the control of four subsystems in full; `PROJECT.json` says for each
component what is left out of it. Parts with a protocol of their own that are not modelled:

- the actuator of dynamic instrumentation (`pkg/dyninst/actuator`): loading, attaching and
  detaching programs with asynchronous completions;
- the workload metadata store and the template reconciliation of autodiscovery, which
  feed the scheduler controller modelled here;
- the delivery path of logs with its auditor, and the writers of the trace agent, which
  resemble the forwarder;
- the poll loop of remote configuration (its verification is cryptographic);
- in the forwarder, the multi-region-failover gate and the time limit of
  `DefaultForwarder.Stop`; in cluster checks, endpoint checks and isolation; in the collector,
  shadow checks and the HA gate; in the installer, configuration experiments and
  extensions.

Three listed hazards of the forwarder and its retry queue and one of the handler have no
property; their notes say why.

## Plan

Done: breaker, retry queue, domain forwarder with `Stop`; cluster checks with controller and
handler; fleet repository and installer; collector; three refinements and the theorems above,
which state every safety property that a run checks.
Next in the proofs: what liveness rests on and is not temporal, such as that a stage of the
forwarder's or the collector's `Stop` that is not the last always has a step it waits for.
Next in the model, most valuable first: the actuator; the workload metadata store in front of
`SchedulerController`; the failover gate of the forwarder; the auditor of the logs pipeline.
