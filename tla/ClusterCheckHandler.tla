------------------------ MODULE ClusterCheckHandler ------------------------
(***************************************************************************)
(* The Handler of the cluster checks (pkg/clusteragent/clusterchecks,      *)
(* handler.go) composed with the scheduler controller of autodiscovery:    *)
(* the goroutine that watches the leader election, the Run goroutine that  *)
(* follows it, and the runDispatch goroutines, one for each term this      *)
(* cluster agent leads, which register the dispatcher with the controller, *)
(* run it, deregister it and reset it.                                     *)
(***************************************************************************)
EXTENDS SchedulerController, Sequences

CONSTANTS
    MaxTerms,               \* bound: times this agent is elected
    WarmupOutlastsDispatch  \* the goroutine of a lost term ends within the next warm-up

ASSUME MaxTermsAssumption == MaxTerms \in Nat \ {0}
ASSUME WarmupAssumption == WarmupOutlastsDispatch \in BOOLEAN

VARIABLES
    elected,            \* the leader election's answer: this agent leads
    state,              \* Handler.state
    leadershipChan,     \* buffered, one element
    run,                \* the Run goroutine: "follower", "warmup", "leading"
    term,               \* the terms started
    dispatch,           \* dispatch[t]: the runDispatch goroutine of term t
    active,             \* the dispatcher's store is active
    elections           \* counter of the bound

handlerVars == <<elected, state, leadershipChan, run, term, dispatch, active, elections>>
vars == <<controllerVars, dispatcherVars, handlerVars>>

Terms == 1 .. MaxTerms

Init ==
    /\ ControllerInit
    /\ elected \in BOOLEAN
    /\ elections = IF elected THEN 1 ELSE 0
    /\ state = "unknown"
    /\ leadershipChan = <<>>
    /\ run = "follower"
    /\ term = 0
    /\ dispatch = [t \in Terms |-> "none"]
    /\ active = FALSE

\* dispatchCtx of term t is cancelled.
Cancelled(t) == t < term \/ run # "leading"

----------------------------------------------------------------------------
(* The leader election and the goroutine that watches it.                  *)

ElectionChanges ==
    /\ elected' = ~elected
    /\ IF elected
         THEN UNCHANGED elections
         ELSE elections < MaxTerms /\ elections' = elections + 1
    /\ UNCHANGED <<controllerVars, dispatcherVars, state, leadershipChan, run, term, dispatch, active>>

\* updateLeaderIP: a change of state is sent on the channel.
UpdateLeaderIP ==
    LET new == IF elected THEN "leader" ELSE "follower"
    IN /\ state # new
       /\ leadershipChan = <<>>
       /\ state' = new
       /\ leadershipChan' = <<new>>
       /\ UNCHANGED <<controllerVars, dispatcherVars, elected, run, term, dispatch, active, elections>>

----------------------------------------------------------------------------
(* The Run goroutine.                                                      *)

\* A term starts: go h.runDispatch(dispatchCtx).
StartDispatch ==
    /\ WarmupOutlastsDispatch => \A t \in Terms : dispatch[t] \in {"none", "done"}
    /\ run' = "leading"
    /\ term' = term + 1
    /\ dispatch' = [dispatch EXCEPT ![term + 1] = "registering"]

\* A state arrives while following: the warm-up starts.
FollowerHears ==
    /\ run = "follower"
    /\ leadershipChan # <<>>
    /\ leadershipChan' = <<>>
    /\ run' = IF Head(leadershipChan) = "leader" THEN "warmup" ELSE "follower"
    /\ UNCHANGED <<controllerVars, dispatcherVars, elected, state, term, dispatch, active, elections>>

\* Mutant: whatever arrives during the warm-up, the term starts.
WarmupHearsNothing ==
    /\ run = "warmup"
    /\ leadershipChan # <<>>
    /\ leadershipChan' = <<>>
    /\ StartDispatch
    /\ UNCHANGED <<controllerVars, dispatcherVars, elected, state, active, elections>>

\* A state arrives during the warm-up.
WarmupHears ==
    /\ run = "warmup"
    /\ leadershipChan # <<>>
    /\ leadershipChan' = <<>>
    /\ IF Head(leadershipChan) = "leader"
         THEN StartDispatch
         ELSE run' = "follower" /\ UNCHANGED <<term, dispatch>>
    /\ UNCHANGED <<controllerVars, dispatcherVars, elected, state, active, elections>>

WarmupOver ==
    /\ run = "warmup"
    /\ StartDispatch
    /\ UNCHANGED <<controllerVars, dispatcherVars, elected, state, leadershipChan, active, elections>>

\* A state arrives while leading: dispatchCancel.
LeaderHears ==
    /\ run = "leading"
    /\ leadershipChan # <<>>
    /\ leadershipChan' = <<>>
    /\ run' = IF Head(leadershipChan) = "leader" THEN "leading" ELSE "follower"
    /\ UNCHANGED <<controllerVars, dispatcherVars, elected, state, term, dispatch, active, elections>>

----------------------------------------------------------------------------
(* The runDispatch goroutine of term t.                                    *)

Goes(t, from, to) == dispatch[t] = from /\ dispatch' = [dispatch EXCEPT ![t] = to]

AddScheduler(t) ==
    /\ Goes(t, "registering", "starting")
    /\ Register
    /\ UNCHANGED <<elected, state, leadershipChan, run, term, active, elections>>

\* Mutant: the store is not marked active.
RunStartsInactive(t) ==
    /\ Goes(t, "starting", "running")
    /\ UNCHANGED <<controllerVars, dispatcherVars, elected, state, leadershipChan, run, term, active,
                   elections>>

\* dispatcher.run marks the store active, and returns once its context is cancelled.
RunStarts(t) ==
    /\ Goes(t, "starting", "running")
    /\ active' = TRUE
    /\ UNCHANGED <<controllerVars, dispatcherVars, elected, state, leadershipChan, run, term, elections>>

RunEnds(t) ==
    /\ Cancelled(t)
    /\ Goes(t, "running", "removing")
    /\ UNCHANGED <<controllerVars, dispatcherVars, elected, state, leadershipChan, run, term, active, elections>>

\* Mutant: the shard tracker is not cleared.
DispatcherResetKeepsShards ==
    /\ known' = {}
    /\ active' = FALSE
    /\ UNCHANGED shards

\* dispatcher.reset.
DispatcherReset ==
    /\ known' = {}
    /\ shards' = {}
    /\ active' = FALSE

\* Mutant: the dispatcher is reset while it is still registered.
ResetThenRemove(t) ==
    /\ \/ Goes(t, "removing", "resetting") /\ DispatcherReset /\ UNCHANGED registered
       \/ Goes(t, "resetting", "done") /\ registered' = FALSE /\ UNCHANGED <<known, shards, active>>
    /\ UNCHANGED <<controllerVars, elected, state, leadershipChan, run, term, elections>>

\* RemoveScheduler, and then reset: a Schedule call between the two in the
\* other order would leave its shards tracked in the next term.
RemoveThenReset(t) ==
    /\ \/ Goes(t, "removing", "resetting") /\ Deregister /\ UNCHANGED active
       \/ Goes(t, "resetting", "done") /\ DispatcherReset /\ UNCHANGED <<controllerVars, registered>>
    /\ UNCHANGED <<elected, state, leadershipChan, run, term, elections>>

----------------------------------------------------------------------------
Controller == ControllerNext /\ UNCHANGED handlerVars

Handler == UpdateLeaderIP \/ FollowerHears \/ WarmupHears \/ WarmupOver \/ LeaderHears

RunDispatch(t) == AddScheduler(t) \/ RunStarts(t) \/ RunEnds(t) \/ RemoveThenReset(t)

Next == Controller \/ ElectionChanges \/ Handler \/ \E t \in Terms : RunDispatch(t)

\* Every goroutine that can go on does: the callers of ApplyChanges, the
\* worker, the watcher's ticker, Run and runDispatch.
Fairness ==
    /\ WF_vars(\E c \in Configs : QueueAdd(c) /\ UNCHANGED handlerVars)
    /\ WF_vars(Worker /\ UNCHANGED handlerVars)
    /\ WF_vars(UpdateLeaderIP)
    /\ WF_vars(FollowerHears \/ WarmupHears \/ WarmupOver \/ LeaderHears)
    /\ \A t \in Terms : WF_vars(RunDispatch(t))

Spec == Init /\ [][Next]_vars /\ Fairness

----------------------------------------------------------------------------
(* Properties.                                                             *)

\* Every variable has its type.
TypeOK ==
    /\ ControllerTypeOK
    /\ elected \in BOOLEAN /\ active \in BOOLEAN
    /\ state \in {"unknown", "leader", "follower"}
    /\ leadershipChan \in {<<>>, <<"leader">>, <<"follower">>}
    /\ run \in {"follower", "warmup", "leading"}
    /\ term \in 0 .. elections /\ elections \in 0 .. MaxTerms
    /\ dispatch \in [Terms -> {"none", "registering", "starting", "running", "removing",
                               "resetting", "done"}]

\* Register's replay and the worker's calls add up: while the dispatcher is
\* registered it knows exactly the configurations the controller scheduled,
\* none twice and none missed, in every term.
ReplayExact == registered => known = scheduledConfigs

\* Between two terms nothing is left of the first: the store that a new
\* leader warms up with is empty and no shard is tracked.
CleanWarmup ==
    \A t \in Terms : dispatch[t] = "registering" => known = {} /\ shards = {} /\ ~active

\* An agent that stays elected, in the end, dispatches every configuration
\* that stays wanted, whichever term it is in and whatever it scheduled in
\* the earlier ones.
LeaderDispatches ==
    \A c \in Configs :
        <>[]elected /\ <>[](c \in wanted) => <>[](active /\ c \in known)

\* One that stays out of office stops: it is not registered and its store is
\* reset.
FollowerStops == <>[]~elected => <>[](~registered /\ ~active /\ known = {} /\ shards = {})
============================================================================
