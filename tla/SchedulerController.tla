------------------------ MODULE SchedulerController ------------------------
(***************************************************************************)
(* The scheduler controller of autodiscovery                               *)
(* (comp/core/autodiscovery/scheduler): requests to schedule and to        *)
(* unschedule a configuration update its desired state at once and put its *)
(* digest on a work queue; one worker compares the desired state with what *)
(* is scheduled and calls the registered scheduler.                        *)
(*                                                                         *)
(* The scheduler is the cluster checks dispatcher, seen from here as the   *)
(* configurations it knows and those its shard tracker holds.  The work    *)
(* queue (k8s.io/client-go) is external: adding a digest twice queues it   *)
(* once, and a digest added while it is processed is processed again.      *)
(***************************************************************************)
EXTENDS Naturals, FiniteSets

CONSTANTS
    Configs,
    Sharded,        \* the configurations a sharding strategy splits
    None,           \* no configuration
    MaxRequests     \* bound: calls of ApplyChanges

ASSUME NoneAssumption == None \notin Configs
ASSUME ShardedAssumption == Sharded \subseteq Configs

VARIABLES
    wanted,             \* what the last request for each configuration asked
    configStateMap,     \* the desired states
    applying,           \* digests ApplyChanges recorded and has still to queue
    queue,              \* the digests queued
    work,               \* the worker's item
    scheduledConfigs,
    registered,         \* the dispatcher is in activeSchedulers
    known,              \* the configurations in the dispatcher's store
    shards,             \* the configurations the shard tracker holds
    requests

controllerVars == <<wanted, configStateMap, applying, queue, work, scheduledConfigs, requests>>
dispatcherVars == <<registered, known, shards>>

NoWork == [pc |-> "idle", config |-> None, desired |-> "absent"]

ControllerInit ==
    /\ wanted = {}
    /\ configStateMap = [c \in Configs |-> "absent"]
    /\ applying = {}
    /\ queue = {}
    /\ work = NoWork
    /\ scheduledConfigs = {}
    /\ registered = FALSE
    /\ known = {}
    /\ shards = {}
    /\ requests = 0

----------------------------------------------------------------------------
(* The dispatcher as a scheduler.                                          *)

\* Mutant: every configuration is tracked as if it had shards.
ScheduleTracksAll(configs) ==
    /\ known' = known \cup configs
    /\ shards' = shards \cup configs

\* dispatcher.Schedule: a sharded configuration the tracker already holds is
\* skipped.
Schedule(configs) ==
    LET new == {c \in configs : c \in Sharded => c \notin shards}
    IN /\ known' = known \cup new
       /\ shards' = shards \cup (new \cap Sharded)

\* dispatcher.Unschedule: the shards the tracker holds are removed; a sharded
\* configuration it does not hold is removed as a whole, which is not what
\* the store has.
Unschedule(c) ==
    /\ known' = IF c \in Sharded /\ c \notin shards THEN known ELSE known \ {c}
    /\ shards' = shards \ {c}

----------------------------------------------------------------------------
(* The controller.                                                         *)

CurrentState(c) == IF c \in scheduledConfigs THEN "scheduled" ELSE "unscheduled"

\* ApplyChanges: UpdateDesiredState.  The callers do not know what is
\* scheduled: they may ask for what is already so.
UpdateDesiredState(c, state) ==
    /\ requests < MaxRequests
    /\ c \notin applying
    /\ requests' = requests + 1
    /\ wanted' = IF state = "scheduled" THEN wanted \cup {c} ELSE wanted \ {c}
    /\ configStateMap' = [configStateMap EXCEPT ![c] = state]
    /\ applying' = applying \cup {c}
    /\ UNCHANGED <<queue, work, scheduledConfigs, dispatcherVars>>

\* ApplyChanges: queue.Add.
QueueAdd(c) ==
    /\ c \in applying
    /\ applying' = applying \ {c}
    /\ queue' = queue \cup {c}
    /\ UNCHANGED <<wanted, configStateMap, work, scheduledConfigs, requests, dispatcherVars>>

\* processNextWorkItem: queue.Get.
QueueGet(c) ==
    /\ work = NoWork
    /\ c \in queue
    /\ queue' = queue \ {c}
    /\ work' = [NoWork EXCEPT !.pc = "got", !.config = c]
    /\ UNCHANGED <<wanted, configStateMap, applying, scheduledConfigs, requests, dispatcherVars>>

\* processNextWorkItem: GetConfigState and the comparison with the current
\* state, which only the worker changes.
GetConfigState ==
    LET c == work.config
        desired == configStateMap[c]
    IN /\ work.pc = "got"
       /\ work' = IF desired = "absent" THEN NoWork
                  ELSE IF desired = CurrentState(c)
                  THEN [work EXCEPT !.pc = "cleanup"]
                  ELSE [work EXCEPT !.pc = "apply", !.desired = desired]
       /\ UNCHANGED <<wanted, configStateMap, applying, queue, scheduledConfigs, requests,
                      dispatcherVars>>

\* Mutant: the state is removed whatever it says by now.
CleanedAlways(c) == [configStateMap EXCEPT ![c] = "absent"]

\* ConfigStateStore.Cleanup.
Cleaned(c) ==
    IF configStateMap[c] = "unscheduled"
      THEN [configStateMap EXCEPT ![c] = "absent"] ELSE configStateMap

\* processNextWorkItem, no action needed: the state is cleaned up.
CleanupWork ==
    /\ work.pc = "cleanup"
    /\ configStateMap' = Cleaned(work.config)
    /\ work' = NoWork
    /\ UNCHANGED <<wanted, applying, queue, scheduledConfigs, requests, dispatcherVars>>

\* processNextWorkItem, the section under the controller's mutex.
ApplyWork ==
    LET c == work.config
    IN /\ work.pc = "apply"
       /\ work' = NoWork
       /\ IF work.desired = "scheduled"
            THEN /\ scheduledConfigs' = scheduledConfigs \cup {c}
                 /\ UNCHANGED configStateMap
                 /\ IF registered THEN Schedule({c}) ELSE UNCHANGED <<known, shards>>
            ELSE /\ scheduledConfigs' = scheduledConfigs \ {c}
                 /\ configStateMap' = Cleaned(c)
                 /\ IF registered THEN Unschedule(c) ELSE UNCHANGED <<known, shards>>
       /\ UNCHANGED <<wanted, applying, queue, registered, requests>>

\* Register, which replays what is scheduled under the same mutex.
Register ==
    /\ registered' = TRUE
    /\ Schedule(scheduledConfigs)
    /\ UNCHANGED controllerVars

\* Deregister.
Deregister ==
    /\ registered' = FALSE
    /\ UNCHANGED <<controllerVars, known, shards>>

Worker == (\E c \in Configs : QueueGet(c)) \/ GetConfigState \/ CleanupWork \/ ApplyWork

ControllerNext ==
    \/ \E c \in Configs, state \in {"scheduled", "unscheduled"} : UpdateDesiredState(c, state)
    \/ \E c \in Configs : QueueAdd(c)
    \/ Worker

----------------------------------------------------------------------------
(* Properties.                                                             *)

\* Every variable of the controller has its type.
ControllerTypeOK ==
    /\ wanted \subseteq Configs
    /\ configStateMap \in [Configs -> {"absent", "scheduled", "unscheduled"}]
    /\ applying \subseteq Configs /\ queue \subseteq Configs
    /\ work \in [pc : {"idle", "got", "cleanup", "apply"}, config : Configs \cup {None},
                 desired : {"absent", "scheduled", "unscheduled"}]
    /\ scheduledConfigs \subseteq Configs
    /\ registered \in BOOLEAN
    /\ known \subseteq Configs /\ shards \subseteq Sharded
    /\ requests \in Nat

\* The worker will look at c again with the desired state of the last request.
Pending(c) == c \in applying \cup queue \/ (work.pc = "got" /\ work.config = c)

\* The worker is about to make c so.
AboutTo(c, state) == work.pc = "apply" /\ work.config = c /\ work.desired = state

\* However requests, the worker and its cleanup of the state map interleave, a
\* configuration whose last request was to schedule it is scheduled and stays
\* so, or the worker will still come to it with that request.
ScheduleNotLost ==
    \A c \in wanted :
        \/ Pending(c) /\ configStateMap[c] = "scheduled"
        \/ AboutTo(c, "scheduled")
        \/ c \in scheduledConfigs /\ ~AboutTo(c, "unscheduled")

\* The same for a request to unschedule: Cleanup removes a state only "after it
\* has been unscheduled by controller" (configstate.go).
UnscheduleNotLost ==
    \A c \in Configs \ wanted :
        \/ Pending(c) /\ configStateMap[c] = "unscheduled"
        \/ AboutTo(c, "unscheduled")
        \/ c \notin scheduledConfigs /\ ~AboutTo(c, "scheduled")
============================================================================
