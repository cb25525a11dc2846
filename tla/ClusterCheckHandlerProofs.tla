--------------------- MODULE ClusterCheckHandlerProofs ---------------------
(***************************************************************************)
(* Proofs about ClusterCheckHandler, for any configurations and any number *)
(* of requests and of terms: no request to schedule is lost, and, when the *)
(* goroutine of a lost term ends within the next warm-up, the registered   *)
(* dispatcher knows exactly what is scheduled and every term starts clean. *)
(***************************************************************************)
EXTENDS ClusterCheckHandler, TLAPS

\* The worker holds a configuration, and a state to apply, when it has one.
WorkInv ==
    /\ work.pc # "idle" => work.config \in Configs
    /\ work.pc = "apply" => work.desired \in {"scheduled", "unscheduled"}

\* The desired state of a configuration that is wanted stays in the map.
WantedIsDesired == \A c \in Configs : c \in wanted <=> configStateMap[c] = "scheduled"

RequestInv == WorkInv /\ WantedIsDesired /\ ScheduleNotLost

\* The elections the handler has still to turn into terms.
Upcoming ==
    (IF run = "warmup" THEN 1 ELSE 0) + (IF leadershipChan = <<"leader">> THEN 1 ELSE 0)
      + (IF elected /\ state # "leader" THEN 1 ELSE 0)

ElectionInv == term + Upcoming <= elections

\* A term that has not started has no goroutine, and when the goroutines of
\* lost terms end within the warm-up only the last term has one.
TermInv ==
    \A t \in Terms :
        /\ t > term => dispatch[t] = "none"
        /\ WarmupOutlastsDispatch /\ dispatch[t] \notin {"none", "done"} => t = term

\* The dispatcher through a term: empty before Register, exact until
\* Deregister, and not registered when it is reset.
DispatcherInv ==
    /\ registered => known = scheduledConfigs /\ shards = scheduledConfigs \cap Sharded
    /\ \A t \in Terms : dispatch[t] = "resetting" => ~registered
    /\ (\A t \in Terms : dispatch[t] \in {"none", "registering", "done"})
          => known = {} /\ shards = {} /\ ~active /\ ~registered

Inv == TypeOK /\ RequestInv /\ ElectionInv /\ TermInv /\ (WarmupOutlastsDispatch => DispatcherInv)

-----------------------------------------------------------------------------
(* The controller.                                                          *)

\* A request that is recorded will be queued; the worker applies it or finds
\* it applied, and its cleanup leaves a wanted state in the map.
LEMMA RequestStep ==
    ASSUME ControllerTypeOK, RequestInv, ControllerNext
    PROVE  RequestInv'
  <1>. USE DEF RequestInv, WorkInv, ScheduleNotLost, Pending, AboutTo
  <1>1. ASSUME NEW c \in Configs, NEW s \in {"scheduled", "unscheduled"}, UpdateDesiredState(c, s)
        PROVE  RequestInv'
    <2>1. /\ wanted' = IF s = "scheduled" THEN wanted \cup {c} ELSE wanted \ {c}
          /\ configStateMap' = [configStateMap EXCEPT ![c] = s]
          /\ applying' = applying \cup {c}
          /\ UNCHANGED <<queue, work, scheduledConfigs>>
      BY <1>1 DEF UpdateDesiredState
    <2>2. WantedIsDesired'
      BY <2>1 DEF WantedIsDesired, ControllerTypeOK
    <2>3. ScheduleNotLost'
      BY <2>1 DEF ControllerTypeOK
    <2>. QED
      BY <2>1, <2>2, <2>3
  <1>2. ASSUME NEW c \in Configs, QueueAdd(c) PROVE RequestInv'
    <2>1. /\ applying' = applying \ {c} /\ queue' = queue \cup {c}
          /\ UNCHANGED <<wanted, configStateMap, work, scheduledConfigs>>
      BY <1>2 DEF QueueAdd
    <2>. QED
      BY <2>1 DEF WantedIsDesired
  <1>3. ASSUME NEW c \in Configs, QueueGet(c) PROVE RequestInv'
    <2>1. /\ queue' = queue \ {c} /\ work.pc = "idle"
          /\ work'.pc = "got" /\ work'.config = c
          /\ UNCHANGED <<wanted, configStateMap, applying, scheduledConfigs>>
      BY <1>3 DEF QueueGet, NoWork
    <2>. QED
      BY <2>1 DEF WantedIsDesired
  <1>4. ASSUME GetConfigState PROVE RequestInv'
    <2>. DEFINE desired == configStateMap[work.config]
    <2>1. /\ work.pc = "got" /\ work.config \in Configs
          /\ work' = IF desired = "absent" THEN NoWork
                     ELSE IF desired = CurrentState(work.config) THEN [work EXCEPT !.pc = "cleanup"]
                     ELSE [work EXCEPT !.pc = "apply", !.desired = desired]
          /\ UNCHANGED <<wanted, configStateMap, applying, queue, scheduledConfigs>>
      BY <1>4 DEF GetConfigState
    <2>2. desired \in {"absent", "scheduled", "unscheduled"}
      BY <2>1 DEF ControllerTypeOK
    <2>3. \/ desired = "absent" /\ work'.pc = "idle"
          \/ desired = CurrentState(work.config) /\ work'.pc = "cleanup" /\ work'.config = work.config
          \/ /\ desired # "absent" /\ desired # CurrentState(work.config)
             /\ work'.pc = "apply" /\ work'.config = work.config /\ work'.desired = desired
      BY <2>1 DEF NoWork, ControllerTypeOK
    <2>4. WantedIsDesired'
      BY <2>1 DEF WantedIsDesired
    <2>5. WorkInv'
      BY <2>1, <2>2, <2>3
    <2>6. ASSUME NEW c \in wanted
          PROVE  ((Pending(c) /\ configStateMap[c] = "scheduled") \/ AboutTo(c, "scheduled")
                    \/ (c \in scheduledConfigs /\ ~AboutTo(c, "unscheduled")))'
      <3>1. c \in Configs /\ configStateMap[c] = "scheduled"
        BY DEF WantedIsDesired, ControllerTypeOK
      <3>2. CASE work.config = c
        BY <2>1, <2>3, <3>1, <3>2 DEF CurrentState
      <3>3. CASE work.config # c
        <4>1. c \in applying \cup queue \/ c \in scheduledConfigs
          BY <2>1, <3>3
        <4>2. work'.pc # "apply" \/ work'.config # c
          BY <2>3, <3>3
        <4>. QED
          BY <2>1, <3>1, <4>1, <4>2
      <3>. QED
        BY <3>2, <3>3
    <2>7. ScheduleNotLost'
      BY <2>1, <2>6
    <2>. QED
      BY <2>4, <2>5, <2>7
  <1>5. ASSUME CleanupWork PROVE RequestInv'
    <2>1. /\ work.pc = "cleanup" /\ work.config \in Configs /\ work'.pc = "idle"
          /\ UNCHANGED <<wanted, applying, queue, scheduledConfigs>>
          /\ configStateMap' = Cleaned(work.config)
      BY <1>5 DEF CleanupWork, NoWork
    <2>2. WantedIsDesired' /\ \A c \in wanted : configStateMap'[c] = configStateMap[c]
      BY <2>1 DEF WantedIsDesired, Cleaned, ControllerTypeOK
    <2>. QED
      BY <2>1, <2>2
  <1>6. ASSUME ApplyWork PROVE RequestInv'
    <2>1. /\ work.pc = "apply" /\ work.config \in Configs /\ work'.pc = "idle"
          /\ UNCHANGED <<wanted, applying, queue>>
          /\ configStateMap' = configStateMap \/ configStateMap' = Cleaned(work.config)
          /\ IF work.desired = "scheduled" THEN scheduledConfigs' = scheduledConfigs \cup {work.config}
             ELSE scheduledConfigs' = scheduledConfigs \ {work.config}
      BY <1>6 DEF ApplyWork, NoWork
    <2>2. WantedIsDesired' /\ \A c \in wanted : configStateMap'[c] = configStateMap[c]
      BY <2>1 DEF WantedIsDesired, Cleaned, ControllerTypeOK
    <2>. QED
      BY <2>1, <2>2
  <1>. QED
    BY <1>1, <1>2, <1>3, <1>4, <1>5, <1>6 DEF ControllerNext, Worker

\* The controller keeps the types, and the dispatcher it drives exact.
LEMMA ControllerStep ==
    ASSUME ControllerTypeOK, RequestInv, ControllerNext
    PROVE  /\ ControllerTypeOK' /\ registered' = registered
           /\ ~registered => known' = known /\ shards' = shards
           /\ registered /\ known = scheduledConfigs /\ shards = scheduledConfigs \cap Sharded
                => known' = scheduledConfigs' /\ shards' = scheduledConfigs' \cap Sharded
  <1>. USE DEF RequestInv, WorkInv
  <1>1. ASSUME NEW c \in Configs, NEW s \in {"scheduled", "unscheduled"}, UpdateDesiredState(c, s)
        PROVE  ControllerTypeOK' /\ UNCHANGED <<scheduledConfigs, dispatcherVars>>
    BY <1>1 DEF UpdateDesiredState, ControllerTypeOK, dispatcherVars
  <1>2. ASSUME NEW c \in Configs, QueueAdd(c)
        PROVE  ControllerTypeOK' /\ UNCHANGED <<scheduledConfigs, dispatcherVars>>
    BY <1>2 DEF QueueAdd, ControllerTypeOK, dispatcherVars
  <1>3. ASSUME NEW c \in Configs, QueueGet(c)
        PROVE  ControllerTypeOK' /\ UNCHANGED <<scheduledConfigs, dispatcherVars>>
    BY <1>3 DEF QueueGet, NoWork, ControllerTypeOK, dispatcherVars
  <1>4. ASSUME GetConfigState
        PROVE  ControllerTypeOK' /\ UNCHANGED <<scheduledConfigs, dispatcherVars>>
    <2>1. work.pc = "got" /\ work.config \in Configs
      BY <1>4 DEF GetConfigState
    <2>2. configStateMap[work.config] \in {"absent", "scheduled", "unscheduled"}
      BY <2>1 DEF ControllerTypeOK
    <2>. QED
      BY <1>4, <2>1, <2>2 DEF GetConfigState, NoWork, ControllerTypeOK, dispatcherVars
  <1>5. ASSUME NEW c \in Configs
        PROVE  Cleaned(c) \in [Configs -> {"absent", "scheduled", "unscheduled"}]
    BY DEF Cleaned, ControllerTypeOK
  <1>6. ASSUME CleanupWork
        PROVE  ControllerTypeOK' /\ UNCHANGED <<scheduledConfigs, dispatcherVars>>
    BY <1>5, <1>6 DEF CleanupWork, NoWork, ControllerTypeOK, dispatcherVars
  <1>7. ASSUME ApplyWork
        PROVE  /\ ControllerTypeOK' /\ registered' = registered
               /\ ~registered => known' = known /\ shards' = shards
               /\ registered /\ known = scheduledConfigs /\ shards = scheduledConfigs \cap Sharded
                    => known' = scheduledConfigs' /\ shards' = scheduledConfigs' \cap Sharded
    <2>1. PICK c \in Configs : c = work.config
      BY <1>7 DEF ApplyWork
    <2>2. /\ work' = NoWork /\ UNCHANGED <<wanted, applying, queue, registered, requests>>
          /\ ~registered => known' = known /\ shards' = shards
          /\ configStateMap' = configStateMap \/ configStateMap' = Cleaned(c)
      BY <1>7, <2>1 DEF ApplyWork
    <2>3. \/ /\ scheduledConfigs' = scheduledConfigs \cup {c} /\ (registered => Schedule({c}))
          \/ /\ scheduledConfigs' = scheduledConfigs \ {c} /\ (registered => Unschedule(c))
      BY <1>7, <2>1 DEF ApplyWork
    <2>4. known' \subseteq Configs /\ shards' \subseteq Sharded
      BY <2>2, <2>3 DEF Schedule, Unschedule, ControllerTypeOK
    <2>5. ControllerTypeOK'
      BY <1>5, <2>2, <2>3, <2>4 DEF ControllerTypeOK, NoWork
    <2>6. ASSUME registered, known = scheduledConfigs, shards = scheduledConfigs \cap Sharded
          PROVE  known' = scheduledConfigs' /\ shards' = scheduledConfigs' \cap Sharded
      <3>1. CASE scheduledConfigs' = scheduledConfigs \cup {c} /\ Schedule({c})
        BY <2>6, <3>1 DEF Schedule
      <3>2. CASE scheduledConfigs' = scheduledConfigs \ {c} /\ Unschedule(c)
        BY <2>6, <3>2 DEF Unschedule
      <3>. QED
        BY <2>3, <2>6, <3>1, <3>2
    <2>. QED
      BY <2>2, <2>5, <2>6
  <1>. QED
    BY <1>1, <1>2, <1>3, <1>4, <1>6, <1>7 DEF ControllerNext, Worker, dispatcherVars

-----------------------------------------------------------------------------
(* The handler.                                                             *)

\* What the steps of the handler leave of the controller.
LEMMA RequestFrame ==
    ASSUME RequestInv, UNCHANGED controllerVars
    PROVE  RequestInv'
  BY DEF RequestInv, WorkInv, WantedIsDesired, ScheduleNotLost, Pending, AboutTo, controllerVars

\* A handler that starts.
LEMMA InitInv == Init => Inv
  <1>. SUFFICES ASSUME Init PROVE Inv
    OBVIOUS
  <1>1. TypeOK
    <2>1. ControllerTypeOK
      BY DEF Init, ControllerInit, ControllerTypeOK, NoWork
    <2>2. elections \in {0, 1} /\ term = 0
      BY DEF Init
    <2>3. elections \in 0 .. MaxTerms /\ term \in 0 .. elections
      BY <2>2, MaxTermsAssumption
    <2>4. dispatch \in [Terms -> {"none", "registering", "starting", "running", "removing",
                                 "resetting", "done"}]
      BY DEF Init
    <2>. QED
      BY <2>1, <2>3, <2>4 DEF Init, TypeOK
  <1>2. RequestInv
    BY DEF Init, ControllerInit, RequestInv, WorkInv, WantedIsDesired, ScheduleNotLost, NoWork
  <1>3. ElectionInv /\ TermInv /\ DispatcherInv
    BY DEF Init, ControllerInit, ElectionInv, Upcoming, TermInv, DispatcherInv, Terms
  <1>. QED
    BY <1>1, <1>2, <1>3 DEF Inv

\* The controller's steps leave the handler alone.
LEMMA ControllerInvStep ==
    ASSUME Inv, Controller
    PROVE  Inv'
  <1>1. UNCHANGED handlerVars /\ ControllerNext /\ ControllerTypeOK /\ RequestInv
    BY DEF Controller, Inv, TypeOK
  <1>2. RequestInv'
    BY <1>1, RequestStep
  <1>3. TypeOK'
    BY <1>1, ControllerStep DEF Inv, TypeOK, handlerVars
  <1>4. ElectionInv' /\ TermInv'
    BY <1>1 DEF Inv, ElectionInv, Upcoming, TermInv, handlerVars
  <1>5. DispatcherInv => DispatcherInv'
    BY <1>1, ControllerStep DEF DispatcherInv, handlerVars
  <1>. QED
    BY <1>2, <1>3, <1>4, <1>5 DEF Inv

\* The steps of the election, its watcher and Run that start no term.
LEMMA WatchStep ==
    ASSUME Inv, ElectionChanges \/ UpdateLeaderIP \/ FollowerHears \/ LeaderHears
    PROVE  Inv'
  <1>1. UNCHANGED <<controllerVars, dispatcherVars, term, dispatch, active>>
    BY DEF ElectionChanges, UpdateLeaderIP, FollowerHears, LeaderHears
  <1>2. RequestInv'
    BY <1>1, RequestFrame DEF Inv
  <1>3. ControllerTypeOK'
    BY <1>1 DEF Inv, TypeOK, ControllerTypeOK, controllerVars, dispatcherVars
  <1>4. TermInv' /\ (DispatcherInv => DispatcherInv')
    BY <1>1 DEF Inv, TermInv, DispatcherInv, controllerVars, dispatcherVars
  <1>5. TypeOK /\ ElectionInv /\ term \in Nat /\ elections \in Nat
    BY DEF Inv, TypeOK
  <1>6. CASE ElectionChanges
    <2>1. /\ UNCHANGED <<state, leadershipChan, run>> /\ elected' = ~elected
          /\ elections' \in 0 .. MaxTerms
          /\ \/ elected /\ elections' = elections
             \/ ~elected /\ elections' = elections + 1
      BY <1>5, <1>6, MaxTermsAssumption DEF ElectionChanges, TypeOK
    <2>2. ElectionInv'
      BY <1>1, <1>5, <2>1 DEF ElectionInv, Upcoming
    <2>3. TypeOK'
      BY <1>1, <1>3, <1>5, <2>1, MaxTermsAssumption DEF TypeOK
    <2>. QED
      BY <1>2, <1>4, <2>2, <2>3 DEF Inv
  <1>7. CASE UpdateLeaderIP
    <2>1. /\ UNCHANGED <<elected, run, elections>> /\ leadershipChan = <<>>
          /\ \/ elected /\ state # "leader" /\ state' = "leader" /\ leadershipChan' = <<"leader">>
             \/ ~elected /\ state' = "follower" /\ leadershipChan' = <<"follower">>
      BY <1>7 DEF UpdateLeaderIP
    <2>2. ElectionInv'
      BY <1>1, <1>5, <2>1 DEF ElectionInv, Upcoming
    <2>3. TypeOK'
      BY <1>1, <1>3, <1>5, <2>1 DEF TypeOK
    <2>. QED
      BY <1>2, <1>4, <2>2, <2>3 DEF Inv
  <1>8. CASE FollowerHears \/ LeaderHears
    <2>1. /\ UNCHANGED <<elected, state, elections>> /\ leadershipChan # <<>> /\ leadershipChan' = <<>>
          /\ run # "warmup" /\ run' \in {"follower", "warmup", "leading"}
          /\ run' = "warmup" => leadershipChan = <<"leader">>
      BY <1>5, <1>8 DEF FollowerHears, LeaderHears, TypeOK
    <2>2. ElectionInv'
      BY <1>1, <1>5, <2>1 DEF ElectionInv, Upcoming
    <2>3. TypeOK'
      BY <1>1, <1>3, <1>5, <2>1 DEF TypeOK
    <2>. QED
      BY <1>2, <1>4, <2>2, <2>3 DEF Inv
  <1>. QED
    BY <1>6, <1>7, <1>8

\* The end of the warm-up: the term has an election of its own, and when the
\* earlier goroutines have ended it is the only one.
LEMMA WarmupStep ==
    ASSUME Inv, WarmupHears \/ WarmupOver
    PROVE  Inv'
  <1>1. UNCHANGED <<controllerVars, dispatcherVars, elected, state, active, elections>> /\ run = "warmup"
    BY DEF WarmupHears, WarmupOver
  <1>2. RequestInv'
    BY <1>1, RequestFrame DEF Inv
  <1>3. ControllerTypeOK'
    BY <1>1 DEF Inv, TypeOK, ControllerTypeOK, controllerVars, dispatcherVars
  <1>4. TypeOK /\ ElectionInv /\ term \in Nat /\ elections \in Nat /\ elections <= MaxTerms
    BY MaxTermsAssumption DEF Inv, TypeOK
  <1>5. leadershipChan' \in {<<>>, <<"leader">>, <<"follower">>}
        /\ (leadershipChan' = leadershipChan \/ leadershipChan' = <<>>)
    BY <1>4 DEF WarmupHears, WarmupOver, TypeOK
  <1>6. CASE run' = "follower" /\ UNCHANGED <<term, dispatch>>
    <2>1. TermInv' /\ (DispatcherInv => DispatcherInv')
      BY <1>1, <1>6 DEF Inv, TermInv, DispatcherInv, controllerVars, dispatcherVars
    <2>2. ElectionInv'
      BY <1>1, <1>4, <1>5, <1>6 DEF ElectionInv, Upcoming
    <2>3. TypeOK'
      BY <1>1, <1>3, <1>4, <1>5, <1>6 DEF TypeOK
    <2>. QED
      BY <1>2, <2>1, <2>2, <2>3 DEF Inv
  <1>7. CASE StartDispatch
    <2>1. /\ WarmupOutlastsDispatch => \A t \in Terms : dispatch[t] \in {"none", "done"}
          /\ run' = "leading" /\ term' = term + 1
          /\ dispatch' = [dispatch EXCEPT ![term + 1] = "registering"]
      BY <1>7 DEF StartDispatch
    <2>2. term + 1 <= elections /\ ElectionInv'
      BY <1>1, <1>4, <1>5, <2>1 DEF ElectionInv, Upcoming
    <2>3. term + 1 \in Terms
      BY <1>4, <2>2, MaxTermsAssumption DEF Terms
    <2>4. TypeOK'
      BY <1>1, <1>3, <1>4, <1>5, <2>1, <2>2, <2>3 DEF TypeOK
    <2>5. \A t \in Terms : dispatch'[t] = IF t = term + 1 THEN "registering" ELSE dispatch[t]
      BY <1>4, <2>1 DEF TypeOK
    <2>6. TermInv'
      BY <1>4, <2>1, <2>5 DEF Inv, TermInv, Terms
    <2>7. WarmupOutlastsDispatch /\ DispatcherInv => DispatcherInv'
      BY <1>1, <2>1, <2>5 DEF DispatcherInv, controllerVars, dispatcherVars
    <2>. QED
      BY <1>2, <2>2, <2>4, <2>6, <2>7 DEF Inv
  <1>. QED
    BY <1>6, <1>7 DEF WarmupHears, WarmupOver

\* The runDispatch goroutine of term t: Register finds an empty dispatcher,
\* and reset one that is deregistered.
LEMMA RunDispatchStep ==
    ASSUME Inv, NEW t \in Terms, RunDispatch(t)
    PROVE  Inv'
  <1>1. UNCHANGED <<controllerVars, elected, state, leadershipChan, run, term, elections>>
    BY DEF RunDispatch, AddScheduler, RunStarts, RunEnds, RemoveThenReset, Register, Deregister,
           controllerVars
  <1>2. RequestInv'
    BY <1>1, RequestFrame DEF Inv
  <1>3. TypeOK /\ TermInv
    BY DEF Inv
  <1>4. ElectionInv'
    BY <1>1 DEF Inv, ElectionInv, Upcoming
  <1>5. \E from, to \in {"registering", "starting", "running", "removing", "resetting", "done"} :
            from # "done" /\ Goes(t, from, to)
    BY DEF RunDispatch, AddScheduler, RunStarts, RunEnds, RemoveThenReset
  <1>6. dispatch' \in [Terms -> {"none", "registering", "starting", "running", "removing",
                                 "resetting", "done"}]
    BY <1>3, <1>5 DEF Goes, TypeOK
  <1>7. \A u \in Terms : u # t => dispatch'[u] = dispatch[u]
    BY <1>3, <1>5 DEF Goes, TypeOK
  <1>8. TermInv'
    <2>1. dispatch[t] \notin {"none", "done"}
      BY <1>5 DEF Goes
    <2>. QED
      BY <1>1, <1>3, <1>7, <2>1 DEF TermInv
  <1>9. registered' \in BOOLEAN /\ active' \in BOOLEAN /\ known' \subseteq Configs /\ shards' \subseteq Sharded
    BY <1>3 DEF RunDispatch, AddScheduler, RunStarts, RunEnds, RemoveThenReset, Register, Deregister,
                DispatcherReset, Schedule, TypeOK, ControllerTypeOK, dispatcherVars
  <1>10. TypeOK'
    BY <1>1, <1>3, <1>6, <1>9 DEF TypeOK, ControllerTypeOK, controllerVars
  <1>11. ASSUME WarmupOutlastsDispatch, DispatcherInv PROVE DispatcherInv'
    <2>1. \A u \in Terms : u # t => dispatch[u] \in {"none", "done"} /\ dispatch'[u] \in {"none", "done"}
      <3>1. dispatch[t] \notin {"none", "done"}
        BY <1>5 DEF Goes
      <3>. QED
        BY <1>3, <1>7, <1>11, <3>1 DEF TermInv
    <2>2. CASE AddScheduler(t)
      <3>1. /\ dispatch[t] = "registering" /\ dispatch'[t] = "starting" /\ registered' = TRUE
            /\ Schedule(scheduledConfigs)
        BY <1>3, <2>2 DEF AddScheduler, Register, Goes, TypeOK
      <3>2. known = {} /\ shards = {}
        BY <1>11, <2>1, <3>1 DEF DispatcherInv
      <3>3. known' = scheduledConfigs /\ shards' = scheduledConfigs \cap Sharded
        BY <3>1, <3>2 DEF Schedule
      <3>. QED
        BY <1>1, <2>1, <3>1, <3>3 DEF DispatcherInv, controllerVars
    <2>3. CASE RunStarts(t) \/ RunEnds(t)
      <3>1. dispatch'[t] \in {"running", "removing"} /\ UNCHANGED dispatcherVars
        BY <1>3, <2>3 DEF RunStarts, RunEnds, Goes, TypeOK
      <3>. QED
        BY <1>1, <1>11, <2>1, <3>1 DEF DispatcherInv, controllerVars, dispatcherVars
    <2>4. CASE RemoveThenReset(t)
      <3>1. CASE Goes(t, "removing", "resetting") /\ Deregister
        <4>1. dispatch'[t] = "resetting" /\ registered' = FALSE
          BY <1>3, <3>1 DEF Goes, Deregister, TypeOK
        <4>. QED
          BY <4>1 DEF DispatcherInv
      <3>2. CASE Goes(t, "resetting", "done") /\ DispatcherReset /\ UNCHANGED registered
        <4>1. dispatch[t] = "resetting" /\ dispatch'[t] = "done"
          BY <1>3, <3>2 DEF Goes, TypeOK
        <4>2. ~registered'
          BY <1>11, <3>2, <4>1 DEF DispatcherInv
        <4>. QED
          BY <2>1, <3>2, <4>1, <4>2 DEF DispatcherInv, DispatcherReset
      <3>. QED
        BY <2>4, <3>1, <3>2 DEF RemoveThenReset
    <2>. QED
      BY <2>2, <2>3, <2>4 DEF RunDispatch
  <1>. QED
    BY <1>2, <1>4, <1>8, <1>10, <1>11 DEF Inv

\* A stuttering step.
LEMMA StutterStep ==
    ASSUME Inv, UNCHANGED vars
    PROVE  Inv'
  <1>1. UNCHANGED <<controllerVars, dispatcherVars, handlerVars>>
    BY DEF vars
  <1>2. RequestInv'
    BY <1>1, RequestFrame DEF Inv
  <1>3. TypeOK'
    BY <1>1 DEF Inv, TypeOK, ControllerTypeOK, controllerVars, dispatcherVars, handlerVars
  <1>4. ElectionInv' /\ TermInv' /\ (DispatcherInv => DispatcherInv')
    BY <1>1 DEF Inv, ElectionInv, Upcoming, TermInv, DispatcherInv, controllerVars, dispatcherVars,
                handlerVars
  <1>. QED
    BY <1>2, <1>3, <1>4 DEF Inv

-----------------------------------------------------------------------------
(* The theorems.                                                            *)

\* The inductive invariant of the handler and the controller.
THEOREM LeadershipCorrect == Spec => []Inv
  <1>1. Init => Inv
    BY InitInv
  <1>2. Inv /\ [Next]_vars => Inv'
    BY ControllerInvStep, WatchStep, WarmupStep, RunDispatchStep, StutterStep DEF Next, Handler
  <1>. QED
    BY <1>1, <1>2, PTL DEF Spec

\* Every variable keeps its type; no term starts that was not elected.
THEOREM TypeCorrect == Spec => []TypeOK
  <1>1. Inv => TypeOK
    BY DEF Inv
  <1>. QED
    BY <1>1, LeadershipCorrect, PTL

\* However requests, the worker and Cleanup interleave, a request to schedule
\* that is the last one for its configuration is not lost.
THEOREM ScheduleIsNotLost == Spec => []ScheduleNotLost
  <1>1. Inv => ScheduleNotLost
    BY DEF Inv, RequestInv
  <1>. QED
    BY <1>1, LeadershipCorrect, PTL

\* When the goroutine of a lost term ends within the next warm-up, the
\* dispatcher knows exactly what is scheduled while it is registered, after
\* any number of terms.
THEOREM ReplayIsExact == ASSUME WarmupOutlastsDispatch PROVE Spec => []ReplayExact
  <1>1. Inv => ReplayExact
    BY DEF Inv, DispatcherInv, ReplayExact
  <1>. QED
    BY <1>1, LeadershipCorrect, PTL

\* Under the same condition every term starts from an empty store and an
\* empty shard tracker.
THEOREM WarmupIsClean == ASSUME WarmupOutlastsDispatch PROVE Spec => []CleanWarmup
  <1>1. Inv => CleanWarmup
    <2>. SUFFICES ASSUME Inv, NEW t \in Terms, dispatch[t] = "registering"
                  PROVE  known = {} /\ shards = {} /\ ~active
      BY DEF CleanWarmup
    <2>1. \A u \in Terms : dispatch[u] \in {"none", "registering", "done"}
      BY DEF Inv, TermInv
    <2>. QED
      BY <2>1 DEF Inv, DispatcherInv
  <1>. QED
    BY <1>1, LeadershipCorrect, PTL

=============================================================================
