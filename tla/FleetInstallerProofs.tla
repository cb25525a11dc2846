------------------------ MODULE FleetInstallerProofs ------------------------
(***************************************************************************)
(* Proofs about FleetInstaller, for any set of versions: the invariant     *)
(* that relates the links on disk to what an operation holds in memory at  *)
(* each of its stages, the properties of the installer it implies, and the *)
(* refinement of PackageRepository.                                        *)
(***************************************************************************)
EXTENDS FleetInstaller, FiniteSetTheorems, TLAPS

\* What the installer's call and the repository's operation say of each other.
CallMatchesOp ==
    /\ call.pc # "repository" => op = NoOp
    /\ call.pc = "repository" =>
         /\ op.pc # "idle"
         /\ call.name \in Calls \ {"purge"}
         /\ op.kind = RepositoryCall(call.name)
         /\ op.name = call.version
    /\ call.pc \in {"before", "extracted", "repository", "after"} =>
         call.name \in Calls /\ call.version \in Versions
    /\ call.pc = "extracted" => call.name \in Installing
    /\ call.pc = "after" => call.name \in Installing \cup {"promoteExperiment", "remove"}
    /\ call.pc = "purging" => call.name = "purge" /\ wreck

\* The links an operation holds in memory are those on disk until it fails.
LinksKnown ==
    op.pc \notin {"idle", "failed"} => op.stable = stable /\ op.experiment = experiment

\* Which operation is at which step.
StageKinds ==
    /\ op.pc \in {"unlinkExperiment", "unlinkStable"} => op.kind \in {"create", "delete"}
    /\ op.pc = "move" => op.kind \in {"create", "setExperiment"}
    /\ op.pc = "setStable" => op.kind = "create"
    /\ op.pc = "setExperiment" => op.kind = "setExperiment"
    /\ op.pc = "promote" => op.kind = "promote"
    /\ op.pc = "unset" => op.kind \in {"create", "deleteExperiment"}
    /\ op.pc = "removeRoot" => op.kind = "delete"

\* What the links are at a step.
StageLinks ==
    /\ op.pc = "unlinkStable" => experiment = None
    /\ op.kind \in {"create", "delete"} /\ op.pc \in {"migrate", "list", "remove", "move", "setStable", "removeRoot"}
         => stable = None /\ experiment = None
    /\ op.kind \notin {"create", "delete"} /\ op.pc \in {"list", "remove"} /\ stable # None
         => experiment # None
    /\ op.kind = "setExperiment" /\ op.pc \in {"move", "setExperiment"}
         => stable # None /\ op.name \notin {stable, experiment}
    /\ op.pc = "promote" => experiment \in Versions /\ experiment # stable
    /\ op.pc = "unset" => stable # None
    /\ op.kind = "create" /\ op.pc \in {"unset", "done"} => stable = op.name
    /\ op.kind = "create" /\ op.pc = "unset" => experiment = None
    /\ op.kind = "create" /\ op.pc = "done" => experiment = ToStable

\* What the directories are at a step.
StageDirs ==
    /\ op.pc \in {"setStable", "setExperiment"} => dir[op.name] = "whole"
    /\ op.kind = "create" /\ op.pc \in {"unset", "done"} => dir[op.name] = "whole"
    /\ op.pc = "remove" => stable \notin op.todo /\ experiment \notin op.todo

\* The repository's directory exists when something is in it.
StageRoot ==
    /\ stable # None => root
    /\ op.kind = "create" /\ op.pc \notin {"idle", "failed"} => root
    /\ op.pc \in {"remove", "move", "setStable", "setExperiment", "promote", "unset"} => root

\* What is left in the directory of an operation that met no error.
StageClean ==
    op.clean =>
      /\ op.pc = "remove" => Present \subseteq {stable, experiment} \cup op.todo
      /\ op.pc \in {"move", "promote", "removeRoot"} => Present \subseteq {stable, experiment}
      /\ op.pc = "setStable" => Present \subseteq {op.name}
      /\ op.pc = "unset" /\ op.kind = "create" => Present \subseteq {stable}
      /\ op.pc = "setExperiment" => Present \subseteq {stable, experiment, op.name}

\* What packages.db holds during a call.
Entry ==
    /\ call.name \in Installing /\ call.pc \in {"extracted", "repository", "after"} => db = None
    /\ call.name \in Installing /\ call.pc = "after" => stable = call.version
    /\ call.name \in {"promoteExperiment", "remove"} /\ call.pc \in {"repository", "after"} => unsettled
    /\ call.pc = "purging" => db = None \/ unsettled

Stages == LinksKnown /\ StageKinds /\ StageLinks /\ StageDirs /\ StageRoot /\ StageClean
Promises == LinksResolve /\ FailsForCause /\ NoGarbage /\ EntryIsStable
Inv == TypeOK /\ CallMatchesOp /\ Stages /\ Entry /\ Promises

-----------------------------------------------------------------------------
(* The steps of a repository's operation.                                   *)

\* What UnlinkExperiment does when it does not fail.
LEMMA UnlinkExperimentDoes ==
    ASSUME RepositoryTypeOK, LinksKnown, UnlinkExperiment, op'.pc # "failed"
    PROVE  /\ op'.kind = op.kind /\ op'.name = op.name
           /\ op.pc = "unlinkExperiment" /\ op'.pc = "unlinkStable"
           /\ op'.stable = op.stable /\ op'.experiment = None
           /\ experiment' = None /\ UNCHANGED <<root, dir, stable>>
  BY DEF UnlinkExperiment, Fails, Running, diskVars, RepositoryTypeOK, LinksKnown

\* What UnlinkStable does when it does not fail.
LEMMA UnlinkStableDoes ==
    ASSUME RepositoryTypeOK, LinksKnown, UnlinkStable, op'.pc # "failed"
    PROVE  /\ op'.kind = op.kind /\ op'.name = op.name
           /\ op.pc = "unlinkStable" /\ op'.pc = "migrate"
           /\ op'.stable = None /\ op'.experiment = op.experiment
           /\ stable' = None /\ UNCHANGED <<root, dir, experiment>>
  BY DEF UnlinkStable, Fails, Running, diskVars, RepositoryTypeOK, LinksKnown

\* What Migrate does when it does not fail.
LEMMA MigrateDoes ==
    ASSUME RepositoryTypeOK, LinksKnown, Migrate, op'.pc # "failed"
    PROVE  /\ op'.kind = op.kind /\ op'.name = op.name
           /\ op.pc = "migrate" /\ op'.pc = "list"
           /\ op'.stable = op.stable /\ op'.experiment = experiment'
           /\ experiment' = IF stable # None /\ experiment = None THEN ToStable ELSE experiment
           /\ UNCHANGED <<root, dir, stable>>
  BY DEF Migrate, SetExperimentLink, Fails, Goto, Running, diskVars, RepositoryTypeOK, LinksKnown

\* What List does when it does not fail.
LEMMA ListDoes ==
    ASSUME RepositoryTypeOK, LinksKnown, List, op'.pc # "failed"
    PROVE  /\ op'.kind = op.kind /\ op'.name = op.name
           /\ op.pc = "list" /\ op'.pc = "remove"
           /\ op'.stable = op.stable /\ op'.experiment = op.experiment
           /\ root /\ op'.todo = Present \ {stable, experiment}
           /\ UNCHANGED <<root, dir, stable, experiment>>
  BY ZenonT(40) DEF List, Fails, Refuses, Goto, Running, diskVars, RepositoryTypeOK, LinksKnown

\* What CleanupDone does when it does not fail.
LEMMA CleanupDoneDoes ==
    ASSUME RepositoryTypeOK, LinksKnown, CleanupDone, op'.pc # "failed"
    PROVE  /\ op'.kind = op.kind /\ op'.name = op.name
           /\ op.pc = "remove" /\ op.todo = {}
           /\ op'.stable = op.stable /\ op'.experiment = op.experiment /\ op'.clean = op.clean
           /\ UNCHANGED <<root, dir, stable, experiment>>
           /\ op'.pc \in {"move", "removeRoot", "done", "promote", "unset"}
           /\ op'.pc = "move" =>
                \/ op.kind = "create"
                \/ op.kind = "setExperiment" /\ stable # None /\ op.name \notin {stable, experiment}
           /\ op'.pc = "removeRoot" => op.kind = "delete"
           /\ op'.pc = "done" => op.kind \notin {"create", "delete"}
           /\ op'.pc = "promote" => op.kind = "promote" /\ experiment \in Versions /\ experiment # stable
           /\ op'.pc = "unset" => op.kind = "deleteExperiment" /\ stable # None
  <1>. DEFINE E == op.kind
              To2(pc) == op' = [op EXCEPT !.pc = pc, !.round = 2]
              both == op.stable # None /\ op.experiment # None
  <1>1. /\ op.pc = "remove" /\ op.todo = {} /\ UNCHANGED <<root, dir, stable, experiment>>
        /\ op.stable = stable /\ op.experiment = experiment
    BY DEF CleanupDone, Running, LinksKnown, diskVars
  <1>2. \/ E = "create" /\ To2("move")
        \/ E = "delete" /\ To2("removeRoot")
        \/ E \notin {"create", "delete"} /\ To2("done")
        \/ E = "setExperiment" /\ both /\ op.name \notin {op.stable, op.experiment} /\ To2("move")
        \/ E = "promote" /\ both /\ op.experiment \notin {ToStable, op.stable} /\ To2("promote")
        \/ E = "deleteExperiment" /\ both /\ To2("unset")
        \/ To2("failed")
    BY DEF CleanupDone
  <1>3. experiment \in Versions \cup {None, ToStable}
    BY DEF RepositoryTypeOK
  <1>4. CASE E = "create" /\ To2("move")
    BY <1>1, <1>4 DEF RepositoryTypeOK
  <1>5. CASE E = "delete" /\ To2("removeRoot")
    BY <1>1, <1>5 DEF RepositoryTypeOK
  <1>6. CASE E \notin {"create", "delete"} /\ To2("done")
    BY <1>1, <1>6 DEF RepositoryTypeOK
  <1>7. CASE E = "setExperiment" /\ both /\ op.name \notin {op.stable, op.experiment} /\ To2("move")
    BY <1>1, <1>7 DEF RepositoryTypeOK
  <1>8. CASE E = "promote" /\ both /\ op.experiment \notin {ToStable, op.stable} /\ To2("promote")
    BY <1>1, <1>8 DEF RepositoryTypeOK
  <1>9. CASE E = "deleteExperiment" /\ both /\ To2("unset")
    BY <1>1, <1>9 DEF RepositoryTypeOK
  <1>10. CASE To2("failed")
    BY <1>1, <1>10 DEF RepositoryTypeOK
  <1>. QED
    BY <1>2, <1>4, <1>5, <1>6, <1>7, <1>8, <1>9, <1>10

\* What Remove does when it does not fail.
LEMMA RemoveDoes ==
    ASSUME RepositoryTypeOK, LinksKnown, NEW f \in Names, Remove(f), op'.pc # "failed"
    PROVE  /\ op'.kind = op.kind /\ op'.name = op.name
           /\ op.pc = "remove" /\ op'.pc = "remove"
           /\ op'.stable = op.stable /\ op'.experiment = op.experiment
           /\ op'.todo = op.todo \ {f} /\ f \in op.todo
           /\ op'.clean => op.clean /\ dir'[f] = "absent"
           /\ \A g \in Names \ {f} : dir'[g] = dir[g]
           /\ UNCHANGED <<root, stable, experiment>>
  BY DEF Remove, Running, diskVars, RepositoryTypeOK, LinksKnown, Names

\* What MovePackage does when it does not fail.
LEMMA MovePackageDoes ==
    ASSUME RepositoryTypeOK, LinksKnown, op.name \in Versions, MovePackage, op'.pc # "failed"
    PROVE  /\ op'.kind = op.kind /\ op'.name = op.name
           /\ op.pc = "move" /\ op'.pc = (IF op.kind = "create" THEN "setStable" ELSE "setExperiment")
           /\ op'.stable = op.stable /\ op'.experiment = op.experiment /\ op'.clean = op.clean
           /\ dir'[op.name] = "whole" /\ \A g \in Names \ {op.name} : dir'[g] = dir[g]
           /\ UNCHANGED <<root, stable, experiment>>
  BY DEF MovePackage, Fails, Refuses, Goto, Running, diskVars, RepositoryTypeOK, LinksKnown, Names

\* What CreateSetStable does when it does not fail.
LEMMA CreateSetStableDoes ==
    ASSUME RepositoryTypeOK, LinksKnown, CreateSetStable, op'.pc # "failed"
    PROVE  /\ op'.kind = op.kind /\ op'.name = op.name
           /\ op.pc = "setStable" /\ op'.pc = "unset"
           /\ op'.stable = op.name /\ op'.experiment = op.experiment /\ op'.clean = op.clean
           /\ stable' = op.name /\ UNCHANGED <<root, dir, experiment>>
  BY DEF CreateSetStable, SetStableLink, Fails, Running, diskVars, RepositoryTypeOK, LinksKnown

\* What SetExperiment does when it does not fail.
LEMMA SetExperimentDoes ==
    ASSUME RepositoryTypeOK, LinksKnown, SetExperiment, op'.pc # "failed"
    PROVE  /\ op'.kind = op.kind /\ op'.name = op.name
           /\ op.pc = "setExperiment" /\ op'.pc = "done"
           /\ op'.stable = op.stable /\ op'.experiment = op.name /\ op'.clean = op.clean
           /\ experiment' = op.name /\ UNCHANGED <<root, dir, stable>>
  BY DEF SetExperiment, SetExperimentLink, Fails, Running, diskVars, RepositoryTypeOK, LinksKnown

\* What PromoteExperiment does when it does not fail.
LEMMA PromoteExperimentDoes ==
    ASSUME RepositoryTypeOK, LinksKnown, PromoteExperiment, op'.pc # "failed"
    PROVE  /\ op'.kind = op.kind /\ op'.name = op.name
           /\ op.pc = "promote" /\ op'.pc = "migrate"
           /\ op'.stable = op.experiment /\ op'.experiment = op.experiment
           /\ stable' = experiment /\ UNCHANGED <<root, dir, experiment>>
  BY DEF PromoteExperiment, SetStableLink, Fails, Running, diskVars, RepositoryTypeOK, LinksKnown

\* What SetExperimentToStable does when it does not fail.
LEMMA SetExperimentToStableDoes ==
    ASSUME RepositoryTypeOK, LinksKnown, SetExperimentToStable, op'.pc # "failed"
    PROVE  /\ op'.kind = op.kind /\ op'.name = op.name
           /\ op.pc = "unset" /\ op'.pc = (IF op.kind = "create" THEN "done" ELSE "migrate")
           /\ op'.stable = op.stable /\ op'.experiment = ToStable /\ op'.clean = op.clean
           /\ experiment' = ToStable /\ UNCHANGED <<root, dir, stable>>
  BY DEF SetExperimentToStable, SetExperimentLink, Fails, Running, diskVars, RepositoryTypeOK, LinksKnown

\* What RemoveRoot does when it does not fail.
LEMMA RemoveRootDoes ==
    ASSUME RepositoryTypeOK, LinksKnown, RemoveRoot, op'.pc # "failed"
    PROVE  /\ op'.kind = op.kind /\ op'.name = op.name
           /\ op.pc = "removeRoot" /\ op'.pc = "done"
           /\ op'.stable = op.stable /\ op'.experiment = op.experiment
           /\ Present = {} /\ root' = FALSE /\ UNCHANGED <<dir, stable, experiment>>
  BY DEF RemoveRoot, Fails, Refuses, Goto, Running, diskVars, RepositoryTypeOK, LinksKnown

\* Nothing is asked of an operation that has failed.
LEMMA Failing ==
    ASSUME op'.pc = "failed", stable' # None => root'
    PROVE  Stages'
  BY DEF Stages, LinksKnown, StageKinds, StageLinks, StageDirs, StageRoot, StageClean

\* The directory exists when a link is set.
LEMMA FailingRoot ==
    ASSUME Inv, Step, op'.pc = "failed"
    PROVE  stable' # None => root'
  <1>. USE DEF Inv, Stages, StageRoot, Running, diskVars
  <1>1. CASE UnlinkExperiment
    BY <1>1 DEF UnlinkExperiment, Fails
  <1>2. CASE UnlinkStable
    BY <1>2 DEF UnlinkStable, Fails
  <1>3. CASE Migrate
    BY <1>3 DEF Migrate, SetExperimentLink, Fails, Goto
  <1>4. CASE List
    BY <1>4 DEF List, Fails, Refuses, Goto
  <1>5. CASE CleanupDone
    BY <1>5 DEF CleanupDone
  <1>6. ASSUME NEW f \in Names, Remove(f) PROVE stable' # None => root'
    BY <1>6 DEF Remove
  <1>7. CASE MovePackage
    BY <1>7 DEF MovePackage, Fails, Refuses, Goto
  <1>8. CASE CreateSetStable
    BY <1>8 DEF CreateSetStable, SetStableLink, Fails
  <1>9. CASE SetExperiment
    BY <1>9 DEF SetExperiment, SetExperimentLink, Fails
  <1>10. CASE PromoteExperiment
    BY <1>10 DEF PromoteExperiment, SetStableLink, Fails
  <1>11. CASE SetExperimentToStable
    BY <1>11 DEF SetExperimentToStable, SetExperimentLink, Fails
  <1>12. CASE RemoveRoot
    BY <1>12 DEF RemoveRoot, Fails, Refuses, Goto, TypeOK, RepositoryTypeOK
  <1>. QED
    BY <1>1, <1>2, <1>3, <1>4, <1>5, <1>6, <1>7, <1>8, <1>9, <1>10, <1>11, <1>12 DEF Step

\* What the invariant says of an operation that is under way.
LEMMA UnderWay ==
    ASSUME Inv, call.pc = "repository"
    PROVE  /\ RepositoryTypeOK /\ LinksKnown /\ StageKinds /\ StageLinks
           /\ StageDirs /\ StageRoot /\ StageClean
           /\ op.name \in Versions /\ op.name # None
           /\ op.name \in Names
  BY NamesAssumption DEF Inv, TypeOK, Stages, CallMatchesOp, Names

\* UnlinkExperiment keeps what is known of the stages when it does not fail.
LEMMA UnlinkExperimentStages ==
    ASSUME Inv, call.pc = "repository", UnlinkExperiment, op'.pc # "failed"
    PROVE  Stages'
  <1>1. LinksKnown' /\ StageKinds'
    BY UnderWay, UnlinkExperimentDoes DEF LinksKnown, StageKinds
  <1>2. StageLinks'
    BY UnderWay, UnlinkExperimentDoes, NamesAssumption DEF LinksKnown, StageKinds, StageLinks, RepositoryTypeOK
  <1>3. StageDirs'
    BY UnderWay, UnlinkExperimentDoes DEF StageKinds, StageLinks, StageDirs
  <1>4. StageRoot'
    BY UnderWay, UnlinkExperimentDoes DEF StageKinds, StageLinks, StageRoot
  <1>5. StageClean'
    BY UnderWay, UnlinkExperimentDoes DEF StageKinds, StageLinks, StageClean, Present
  <1>. QED
    BY <1>1, <1>2, <1>3, <1>4, <1>5 DEF Stages

\* UnlinkStable keeps what is known of the stages when it does not fail.
LEMMA UnlinkStableStages ==
    ASSUME Inv, call.pc = "repository", UnlinkStable, op'.pc # "failed"
    PROVE  Stages'
  <1>1. LinksKnown' /\ StageKinds'
    BY UnderWay, UnlinkStableDoes DEF LinksKnown, StageKinds
  <1>2. StageLinks'
    BY UnderWay, UnlinkStableDoes, NamesAssumption DEF LinksKnown, StageKinds, StageLinks, RepositoryTypeOK
  <1>3. StageDirs'
    BY UnderWay, UnlinkStableDoes DEF StageKinds, StageLinks, StageDirs
  <1>4. StageRoot'
    BY UnderWay, UnlinkStableDoes DEF StageKinds, StageLinks, StageRoot
  <1>5. StageClean'
    BY UnderWay, UnlinkStableDoes DEF StageKinds, StageLinks, StageClean, Present
  <1>. QED
    BY <1>1, <1>2, <1>3, <1>4, <1>5 DEF Stages

\* Migrate keeps what is known of the stages when it does not fail.
LEMMA MigrateStages ==
    ASSUME Inv, call.pc = "repository", Migrate, op'.pc # "failed"
    PROVE  Stages'
  <1>1. LinksKnown' /\ StageKinds'
    BY UnderWay, MigrateDoes DEF LinksKnown, StageKinds
  <1>2. StageLinks'
    BY UnderWay, MigrateDoes, NamesAssumption DEF LinksKnown, StageKinds, StageLinks, RepositoryTypeOK
  <1>3. StageDirs'
    BY UnderWay, MigrateDoes DEF StageKinds, StageLinks, StageDirs
  <1>4. StageRoot'
    BY UnderWay, MigrateDoes DEF StageKinds, StageLinks, StageRoot
  <1>5. StageClean'
    BY UnderWay, MigrateDoes DEF StageKinds, StageLinks, StageClean, Present
  <1>. QED
    BY <1>1, <1>2, <1>3, <1>4, <1>5 DEF Stages

\* List keeps what is known of the stages when it does not fail.
LEMMA ListStages ==
    ASSUME Inv, call.pc = "repository", List, op'.pc # "failed"
    PROVE  Stages'
  <1>1. LinksKnown' /\ StageKinds'
    BY UnderWay, ListDoes DEF LinksKnown, StageKinds
  <1>2. StageLinks'
    BY UnderWay, ListDoes, NamesAssumption DEF LinksKnown, StageKinds, StageLinks, RepositoryTypeOK
  <1>3. StageDirs'
    BY UnderWay, ListDoes DEF StageKinds, StageLinks, StageDirs
  <1>4. StageRoot'
    BY UnderWay, ListDoes DEF StageKinds, StageLinks, StageRoot
  <1>5. StageClean'
    BY UnderWay, ListDoes DEF StageKinds, StageLinks, StageClean, Present
  <1>. QED
    BY <1>1, <1>2, <1>3, <1>4, <1>5 DEF Stages

\* CleanupDone keeps what is known of the stages when it does not fail.
LEMMA CleanupDoneStages ==
    ASSUME Inv, call.pc = "repository", CleanupDone, op'.pc # "failed"
    PROVE  Stages'
  <1>1. LinksKnown' /\ StageKinds'
    BY UnderWay, CleanupDoneDoes DEF LinksKnown, StageKinds
  <1>2. StageLinks'
    BY UnderWay, CleanupDoneDoes, NamesAssumption DEF LinksKnown, StageKinds, StageLinks, RepositoryTypeOK
  <1>3. StageDirs'
    BY UnderWay, CleanupDoneDoes DEF StageKinds, StageLinks, StageDirs
  <1>4. StageRoot'
    BY UnderWay, CleanupDoneDoes DEF StageKinds, StageLinks, StageRoot
  <1>5. StageClean'
    BY UnderWay, CleanupDoneDoes DEF StageKinds, StageLinks, StageClean, Present
  <1>. QED
    BY <1>1, <1>2, <1>3, <1>4, <1>5 DEF Stages

\* Remove keeps what is known of the stages when it does not fail.
LEMMA RemoveStages ==
    ASSUME Inv, call.pc = "repository", NEW f \in Names, Remove(f), op'.pc # "failed"
    PROVE  Stages'
  <1>1. LinksKnown' /\ StageKinds'
    BY UnderWay, RemoveDoes DEF LinksKnown, StageKinds
  <1>2. StageLinks'
    BY UnderWay, RemoveDoes, NamesAssumption DEF LinksKnown, StageKinds, StageLinks, RepositoryTypeOK
  <1>3. StageDirs'
    BY UnderWay, RemoveDoes DEF StageKinds, StageLinks, StageDirs
  <1>4. StageRoot'
    BY UnderWay, RemoveDoes DEF StageKinds, StageLinks, StageRoot
  <1>5. StageClean'
    BY UnderWay, RemoveDoes DEF StageKinds, StageLinks, StageClean, Present
  <1>. QED
    BY <1>1, <1>2, <1>3, <1>4, <1>5 DEF Stages

\* MovePackage keeps what is known of the stages when it does not fail.
LEMMA MovePackageStages ==
    ASSUME Inv, call.pc = "repository", MovePackage, op'.pc # "failed"
    PROVE  Stages'
  <1>1. LinksKnown' /\ StageKinds'
    BY UnderWay, MovePackageDoes DEF LinksKnown, StageKinds
  <1>2. StageLinks'
    BY UnderWay, MovePackageDoes, NamesAssumption DEF LinksKnown, StageKinds, StageLinks, RepositoryTypeOK
  <1>3. StageDirs'
    BY UnderWay, MovePackageDoes DEF StageKinds, StageLinks, StageDirs
  <1>4. StageRoot'
    BY UnderWay, MovePackageDoes DEF StageKinds, StageLinks, StageRoot
  <1>5. StageClean'
    <2>1. Present' \subseteq Present \cup {op.name} /\ None \notin Present
      BY UnderWay, MovePackageDoes, NamesAssumption DEF Present, Names
    <2>. QED
      BY <2>1, UnderWay, MovePackageDoes, ZenonT(40) DEF StageKinds, StageLinks, StageClean
  <1>. QED
    BY <1>1, <1>2, <1>3, <1>4, <1>5 DEF Stages

\* CreateSetStable keeps what is known of the stages when it does not fail.
LEMMA CreateSetStableStages ==
    ASSUME Inv, call.pc = "repository", CreateSetStable, op'.pc # "failed"
    PROVE  Stages'
  <1>1. LinksKnown' /\ StageKinds'
    BY UnderWay, CreateSetStableDoes DEF LinksKnown, StageKinds
  <1>2. StageLinks'
    BY UnderWay, CreateSetStableDoes, NamesAssumption DEF LinksKnown, StageKinds, StageLinks, RepositoryTypeOK
  <1>3. StageDirs'
    BY UnderWay, CreateSetStableDoes DEF StageKinds, StageLinks, StageDirs
  <1>4. StageRoot'
    BY UnderWay, CreateSetStableDoes DEF StageKinds, StageLinks, StageRoot
  <1>5. StageClean'
    BY UnderWay, CreateSetStableDoes DEF StageKinds, StageLinks, StageClean, Present
  <1>. QED
    BY <1>1, <1>2, <1>3, <1>4, <1>5 DEF Stages

\* SetExperiment keeps what is known of the stages when it does not fail.
LEMMA SetExperimentStages ==
    ASSUME Inv, call.pc = "repository", SetExperiment, op'.pc # "failed"
    PROVE  Stages'
  <1>1. LinksKnown' /\ StageKinds'
    BY UnderWay, SetExperimentDoes DEF LinksKnown, StageKinds
  <1>2. StageLinks'
    BY UnderWay, SetExperimentDoes, NamesAssumption DEF LinksKnown, StageKinds, StageLinks, RepositoryTypeOK
  <1>3. StageDirs'
    BY UnderWay, SetExperimentDoes DEF StageKinds, StageLinks, StageDirs
  <1>4. StageRoot'
    BY UnderWay, SetExperimentDoes DEF StageKinds, StageLinks, StageRoot
  <1>5. StageClean'
    BY UnderWay, SetExperimentDoes DEF StageKinds, StageLinks, StageClean, Present
  <1>. QED
    BY <1>1, <1>2, <1>3, <1>4, <1>5 DEF Stages

\* PromoteExperiment keeps what is known of the stages when it does not fail.
LEMMA PromoteExperimentStages ==
    ASSUME Inv, call.pc = "repository", PromoteExperiment, op'.pc # "failed"
    PROVE  Stages'
  <1>1. LinksKnown' /\ StageKinds'
    BY UnderWay, PromoteExperimentDoes DEF LinksKnown, StageKinds
  <1>2. StageLinks'
    BY UnderWay, PromoteExperimentDoes, NamesAssumption DEF LinksKnown, StageKinds, StageLinks, RepositoryTypeOK
  <1>3. StageDirs'
    BY UnderWay, PromoteExperimentDoes DEF StageKinds, StageLinks, StageDirs
  <1>4. StageRoot'
    BY UnderWay, PromoteExperimentDoes DEF StageKinds, StageLinks, StageRoot
  <1>5. StageClean'
    BY UnderWay, PromoteExperimentDoes DEF StageKinds, StageLinks, StageClean, Present
  <1>. QED
    BY <1>1, <1>2, <1>3, <1>4, <1>5 DEF Stages

\* SetExperimentToStable keeps what is known of the stages when it does not fail.
LEMMA SetExperimentToStableStages ==
    ASSUME Inv, call.pc = "repository", SetExperimentToStable, op'.pc # "failed"
    PROVE  Stages'
  <1>1. LinksKnown' /\ StageKinds'
    BY UnderWay, SetExperimentToStableDoes DEF LinksKnown, StageKinds
  <1>2. StageLinks'
    BY UnderWay, SetExperimentToStableDoes, NamesAssumption DEF LinksKnown, StageKinds, StageLinks, RepositoryTypeOK
  <1>3. StageDirs'
    BY UnderWay, SetExperimentToStableDoes DEF StageKinds, StageLinks, StageDirs
  <1>4. StageRoot'
    BY UnderWay, SetExperimentToStableDoes DEF StageKinds, StageLinks, StageRoot
  <1>5. StageClean'
    BY UnderWay, SetExperimentToStableDoes DEF StageKinds, StageLinks, StageClean, Present
  <1>. QED
    BY <1>1, <1>2, <1>3, <1>4, <1>5 DEF Stages

\* RemoveRoot keeps what is known of the stages when it does not fail.
LEMMA RemoveRootStages ==
    ASSUME Inv, call.pc = "repository", RemoveRoot, op'.pc # "failed"
    PROVE  Stages'
  <1>1. LinksKnown' /\ StageKinds'
    BY UnderWay, RemoveRootDoes DEF LinksKnown, StageKinds
  <1>2. StageLinks'
    BY UnderWay, RemoveRootDoes, NamesAssumption DEF LinksKnown, StageKinds, StageLinks, RepositoryTypeOK
  <1>3. StageDirs'
    BY UnderWay, RemoveRootDoes DEF StageKinds, StageLinks, StageDirs
  <1>4. StageRoot'
    BY UnderWay, RemoveRootDoes DEF StageKinds, StageLinks, StageRoot
  <1>5. StageClean'
    BY UnderWay, RemoveRootDoes DEF StageKinds, StageLinks, StageClean, Present
  <1>. QED
    BY <1>1, <1>2, <1>3, <1>4, <1>5 DEF Stages

\* Every step of the repository keeps what is known of its stages.
LEMMA StepStages ==
    ASSUME Inv, call.pc = "repository", Step
    PROVE  Stages'
  <1>1. CASE op'.pc = "failed"
    BY <1>1, Failing, FailingRoot
  <1>2. CASE op'.pc # "failed"
    <2>1. ASSUME NEW f \in Names, Remove(f) PROVE Stages'
      BY <1>2, <2>1, RemoveStages
    <2>. QED
      BY <1>2, <2>1, UnlinkExperimentStages, UnlinkStableStages, MigrateStages, ListStages,
         CleanupDoneStages, MovePackageStages, CreateSetStableStages, SetExperimentStages,
         PromoteExperimentStages, SetExperimentToStableStages, RemoveRootStages
      DEF Step
  <1>. QED
    BY <1>1, <1>2

\* A change of the experiment link keeps the types.
LEMMA SetExperimentLinkType ==
    ASSUME RepositoryTypeOK, NEW t \in Versions \cup {ToStable}, NEW q \in {"list", "done", "migrate"},
           SetExperimentLink(t, q)
    PROVE  RepositoryTypeOK'
  BY ZenonT(40) DEF SetExperimentLink, Fails, RepositoryTypeOK, diskVars

\* A change of the stable link keeps the types.
LEMMA SetStableLinkType ==
    ASSUME RepositoryTypeOK, NEW t \in Versions, NEW q \in {"unset", "migrate"}, SetStableLink(t, q)
    PROVE  RepositoryTypeOK'
  BY ZenonT(40) DEF SetStableLink, Fails, RepositoryTypeOK, diskVars

\* Every step of the repository keeps the types.
LEMMA StepType ==
    ASSUME Inv, call.pc = "repository", Step
    PROVE  RepositoryTypeOK'
  <1>1. RepositoryTypeOK
    BY UnderWay
  <1>2. CASE UnlinkExperiment
    BY <1>1, <1>2 DEF UnlinkExperiment, Fails, diskVars, RepositoryTypeOK
  <1>3. CASE UnlinkStable
    BY <1>1, <1>3 DEF UnlinkStable, Fails, diskVars, RepositoryTypeOK
  <1>4. CASE Migrate
    <2>1. CASE SetExperimentLink(ToStable, "list")
      BY <1>1, <2>1, SetExperimentLinkType
    <2>2. CASE op' = Goto("list") /\ UNCHANGED diskVars
      BY <1>1, <2>2 DEF Goto, diskVars, RepositoryTypeOK
    <2>. QED
      BY <1>4, <2>1, <2>2 DEF Migrate
  <1>5. CASE List
    BY <1>1, <1>5, ZenonT(40) DEF List, Fails, Refuses, Goto, diskVars, Present, RepositoryTypeOK
  <1>6. CASE CleanupDone
    <2>1. PICK q \in {"move", "removeRoot", "done", "promote", "unset", "failed"} :
            op' = [op EXCEPT !.pc = q, !.round = 2]
      BY <1>6 DEF CleanupDone
    <2>2. UNCHANGED <<root, dir, stable, experiment>>
      BY <1>6 DEF CleanupDone, diskVars
    <2>3. op' = [op EXCEPT !.pc = q, !.round = 2]
      BY <2>1
    <2>. QED
      BY <1>1, <2>3, <2>2 DEF RepositoryTypeOK
  <1>7. ASSUME NEW f \in Names, Remove(f) PROVE RepositoryTypeOK'
    <2>1. /\ op' = [op EXCEPT !.todo = @ \ {f}] \/ op' = [op EXCEPT !.todo = @ \ {f}, !.clean = FALSE]
          /\ dir' = dir \/ dir' = [dir EXCEPT ![f] = "absent"] \/ dir' = [dir EXCEPT ![f] = "partial"]
          /\ UNCHANGED <<root, stable, experiment>>
      BY <1>7 DEF Remove
    <2>2. dir' \in [Names -> {"absent", "whole", "partial"}]
      BY <1>1, <2>1 DEF RepositoryTypeOK
    <2>3. CASE op' = [op EXCEPT !.todo = @ \ {f}]
      BY <1>1, <2>1, <2>2, <2>3 DEF RepositoryTypeOK
    <2>4. CASE op' = [op EXCEPT !.todo = @ \ {f}, !.clean = FALSE]
      BY <1>1, <2>1, <2>2, <2>4 DEF RepositoryTypeOK
    <2>. QED
      BY <2>1, <2>3, <2>4
  <1>8. CASE MovePackage
    BY <1>1, <1>8, ZenonT(40) DEF MovePackage, Fails, Refuses, Goto, diskVars, RepositoryTypeOK
  <1>9. CASE CreateSetStable
    BY <1>1, <1>9, UnderWay, SetStableLinkType DEF CreateSetStable
  <1>10. CASE SetExperiment
    BY <1>1, <1>10, UnderWay, SetExperimentLinkType DEF SetExperiment
  <1>11. CASE PromoteExperiment
    <2>1. op.experiment \in Versions
      BY <1>11, UnderWay DEF PromoteExperiment, Running, LinksKnown, StageLinks
    <2>. QED
      BY <1>1, <1>11, <2>1, SetStableLinkType DEF PromoteExperiment
  <1>12. CASE SetExperimentToStable
    BY <1>1, <1>12, SetExperimentLinkType DEF SetExperimentToStable
  <1>13. CASE RemoveRoot
    BY <1>1, <1>13, ZenonT(40) DEF RemoveRoot, Fails, Refuses, Goto, diskVars, RepositoryTypeOK
  <1>. QED
    BY <1>2, <1>3, <1>4, <1>5, <1>6, <1>7, <1>8, <1>9, <1>10, <1>11, <1>12, <1>13 DEF Step

-----------------------------------------------------------------------------
(* The links.                                                               *)

\* Every change of a link, with what is known when it is made.
LinkChange ==
    \/ op.pc = "unlinkExperiment" /\ experiment' = None /\ stable' = stable
    \/ /\ op.pc = "unlinkStable"
       /\ experiment = None /\ experiment' = None /\ stable' = None
    \/ /\ experiment = None /\ experiment' = ToStable
       /\ stable # None /\ stable' = stable
    \/ /\ op.pc = "setStable" /\ stable = None /\ experiment = None /\ experiment' = None
       /\ stable' = op.name /\ dir[op.name] = "whole"
    \/ /\ op.pc = "setExperiment" /\ experiment' = op.name /\ dir[op.name] = "whole"
       /\ stable # None /\ op.name # stable /\ stable' = stable
    \/ /\ op.pc = "promote" /\ experiment \in Versions /\ experiment # stable
       /\ stable' = experiment /\ experiment' = experiment
    \/ /\ op.pc = "unset" /\ stable # None /\ stable' = stable /\ experiment' = ToStable

\* A step changes a link and no version, or no link and nothing a link names.
LinksMove ==
    \/ LinkChange /\ \A g \in Versions : dir'[g] = dir[g]
    \/ /\ UNCHANGED <<stable, experiment>>
       /\ \A g \in Versions \cap {stable, experiment} : dir'[g] \in {dir[g], "whole"}

\* What a change of the experiment link does, whether it fails or not.
LEMMA SetExperimentLinkDoes ==
    ASSUME RepositoryTypeOK, NEW t, NEW q, SetExperimentLink(t, q)
    PROVE  /\ op'.kind = op.kind /\ op'.name = op.name
           /\ experiment' \in {experiment, t} /\ UNCHANGED <<root, stable>>
           /\ \A g \in Versions : dir'[g] = dir[g]
           /\ op'.pc # q => op'.pc = "failed" /\ op'.clean = FALSE
  BY NamesAssumption DEF SetExperimentLink, Fails, RepositoryTypeOK, diskVars, Names

\* What a change of the stable link does, whether it fails or not.
LEMMA SetStableLinkDoes ==
    ASSUME RepositoryTypeOK, NEW t, NEW q, SetStableLink(t, q)
    PROVE  /\ op'.kind = op.kind /\ op'.name = op.name
           /\ stable' \in {stable, t} /\ UNCHANGED <<root, experiment>>
           /\ \A g \in Versions : dir'[g] = dir[g]
           /\ op'.pc # q => op'.pc = "failed" /\ op'.clean = FALSE
  BY NamesAssumption DEF SetStableLink, Fails, RepositoryTypeOK, diskVars, Names

\* An operation stays the one it is.
LEMMA StepKeeps ==
    ASSUME Inv, call.pc = "repository", Step
    PROVE  op'.kind = op.kind /\ op'.name = op.name
  <1>1. RepositoryTypeOK
    BY UnderWay
  <1>2. CASE UnlinkExperiment \/ UnlinkStable
    BY <1>1, <1>2 DEF UnlinkExperiment, UnlinkStable, Fails, RepositoryTypeOK
  <1>3. CASE Migrate
    BY <1>1, <1>3, SetExperimentLinkDoes DEF Migrate, Goto, RepositoryTypeOK
  <1>4. CASE List \/ MovePackage \/ RemoveRoot
    BY <1>1, <1>4 DEF List, MovePackage, RemoveRoot, Fails, Refuses, Goto, RepositoryTypeOK
  <1>5. CASE CleanupDone
    BY <1>1, <1>5 DEF CleanupDone, RepositoryTypeOK
  <1>6. ASSUME NEW f \in Names, Remove(f) PROVE op'.kind = op.kind /\ op'.name = op.name
    BY <1>1, <1>6 DEF Remove, RepositoryTypeOK
  <1>7. CASE CreateSetStable \/ PromoteExperiment
    BY <1>1, <1>7, SetStableLinkDoes DEF CreateSetStable, PromoteExperiment
  <1>8. CASE SetExperiment \/ SetExperimentToStable
    BY <1>1, <1>8, SetExperimentLinkDoes DEF SetExperiment, SetExperimentToStable
  <1>. QED
    BY <1>2, <1>3, <1>4, <1>5, <1>6, <1>7, <1>8 DEF Step

\* Every step of the repository changes the links as LinksMove says.
LEMMA StepMoves ==
    ASSUME Inv, call.pc = "repository", Step
    PROVE  LinksMove
  <1>1. RepositoryTypeOK
    BY UnderWay
  <1>2. CASE UnlinkExperiment
    BY <1>1, <1>2 DEF UnlinkExperiment, Running, Fails, diskVars, LinksMove, LinkChange
  <1>3. CASE UnlinkStable
    BY <1>1, <1>3, UnderWay DEF UnlinkStable, Running, Fails, diskVars, LinksMove, LinkChange, StageKinds, StageLinks
  <1>4. CASE Migrate
    BY <1>1, <1>4, UnderWay, SetExperimentLinkDoes DEF Migrate, Running, diskVars, LinksMove, LinkChange, LinksKnown
  <1>5. CASE List \/ RemoveRoot
    BY <1>1, <1>5 DEF List, RemoveRoot, Fails, Refuses, diskVars, LinksMove
  <1>6. CASE CleanupDone
    BY <1>1, <1>6 DEF CleanupDone, diskVars, LinksMove
  <1>7. ASSUME NEW f \in Names, Remove(f) PROVE LinksMove
    <2>1. \A g \in Names : g # f => dir'[g] = dir[g]
      BY <1>1, <1>7 DEF Remove, RepositoryTypeOK
    <2>2. f \notin {stable, experiment} /\ UNCHANGED <<stable, experiment>>
      BY <1>7, UnderWay DEF Remove, Running, StageDirs
    <2>. QED
      BY <2>1, <2>2 DEF LinksMove, Names
  <1>8. CASE MovePackage
    <2>1. \A g \in Names : dir'[g] \in {dir[g], "whole"}
      BY <1>1, <1>8 DEF MovePackage, Fails, Refuses, diskVars, RepositoryTypeOK
    <2>2. UNCHANGED <<stable, experiment>>
      BY <1>8 DEF MovePackage, Fails, Refuses, diskVars
    <2>. QED
      BY <2>1, <2>2 DEF LinksMove, Names
  <1>9. CASE CreateSetStable
    BY <1>1, <1>9, UnderWay, SetStableLinkDoes
    DEF CreateSetStable, Running, LinksMove, LinkChange, StageKinds, StageLinks, StageDirs
  <1>10. CASE SetExperiment
    BY <1>1, <1>10, UnderWay, SetExperimentLinkDoes
    DEF SetExperiment, Running, LinksMove, LinkChange, StageKinds, StageLinks, StageDirs
  <1>11. CASE PromoteExperiment
    BY <1>1, <1>11, UnderWay, SetStableLinkDoes
    DEF PromoteExperiment, Running, LinksMove, LinkChange, LinksKnown, StageKinds, StageLinks
  <1>12. CASE SetExperimentToStable
    BY <1>1, <1>12, UnderWay, SetExperimentLinkDoes
    DEF SetExperimentToStable, Running, LinksMove, LinkChange, StageLinks
  <1>. QED
    BY <1>2, <1>3, <1>4, <1>5, <1>6, <1>7, <1>8, <1>9, <1>10, <1>11, <1>12 DEF Step

\* Links that lead to whole packages do so after a step.
LEMMA StepWhole ==
    ASSUME Inv, call.pc = "repository", Step, LinksWhole
    PROVE  LinksWhole'
  <1>1. op.name \in Versions /\ stable \in Versions \cup {None} /\ experiment \in Versions \cup {None, ToStable}
    BY UnderWay DEF RepositoryTypeOK
  <1>2. CASE UNCHANGED <<stable, experiment>> /\ \A g \in Versions \cap {stable, experiment} : dir'[g] \in {dir[g], "whole"}
    BY <1>1, <1>2 DEF LinksWhole
  <1>3. CASE LinkChange /\ \A g \in Versions : dir'[g] = dir[g]
    BY <1>1, <1>3, NamesAssumption DEF LinksWhole, LinkChange
  <1>. QED
    BY <1>2, <1>3, StepMoves DEF LinksMove

\* Create leaves whole links, whatever it found.
LEMMA CreateWhole ==
    ASSUME Inv, call.pc = "repository", Step, op.kind = "create", op'.pc = "done"
    PROVE  LinksWhole'
  <1>1. StageLinks' /\ StageDirs'
    BY StepStages DEF Stages
  <1>2. op'.kind = "create" /\ op'.name \in Versions
    BY StepKeeps, UnderWay
  <1>. QED
    BY <1>1, <1>2, NamesAssumption DEF StageLinks, StageDirs, LinksWhole

\* An operation fails for a reason.
LEMMA StepFailsForCause ==
    ASSUME Inv, call.pc = "repository", Step
    PROVE  FailsForCause'
  <1>. SUFFICES ASSUME op'.pc = "failed", op'.clean
                PROVE  \/ op'.kind \in {"delete", "cleanup"} /\ ~root'
                       \/ op'.kind \in {"setExperiment", "promote", "deleteExperiment"} /\ stable' = None
                       \/ op'.kind = "setExperiment" /\ op'.name \in {stable', experiment'}
                       \/ op'.kind = "promote" /\ StateExperiment' = None
    BY DEF FailsForCause
  <1>1. RepositoryTypeOK /\ op'.kind = op.kind /\ op'.name = op.name
    BY UnderWay, StepKeeps
  <1>2. CASE UnlinkExperiment \/ UnlinkStable
    BY <1>1, <1>2 DEF UnlinkExperiment, UnlinkStable, Fails, RepositoryTypeOK
  <1>3. CASE Migrate
    BY <1>1, <1>3, SetExperimentLinkDoes DEF Migrate, Goto, RepositoryTypeOK
  <1>4. CASE List
    <2>1. ~root /\ UNCHANGED <<root, stable>>
      BY <1>1, <1>4 DEF List, Refuses, Fails, diskVars, RepositoryTypeOK
    <2>2. op.kind # "create" /\ op.kind # "none" /\ stable = None
      BY <1>4, <2>1, UnderWay DEF List, Running, StageRoot, Inv, CallMatchesOp, RepositoryCall, Calls, Installing
    <2>. QED
      BY <1>1, <2>1, <2>2 DEF RepositoryTypeOK, Operations
  <1>5. CASE CleanupDone
    <2>. DEFINE both == stable # None /\ experiment # None
    <2>1. UNCHANGED <<stable, experiment>> /\ op.pc = "remove" /\ op.stable = stable /\ op.experiment = experiment
      BY <1>5, UnderWay DEF CleanupDone, Running, diskVars, LinksKnown
    <2>2. op.kind \notin {"create", "delete"} /\ stable # None => experiment # None
      BY <2>1, UnderWay DEF StageLinks
    <2>3. \/ op.kind = "setExperiment" /\ ~(both /\ op.name \notin {stable, experiment})
          \/ op.kind = "promote" /\ ~(both /\ experiment \notin {ToStable, stable})
          \/ op.kind = "deleteExperiment" /\ ~both
      BY <1>1, <1>5, <2>1, ZenonT(40) DEF CleanupDone, RepositoryTypeOK
    <2>. QED
      BY <1>1, <2>1, <2>2, <2>3 DEF StateExperiment
  <1>6. ASSUME NEW f \in Names, Remove(f) PROVE FALSE
    BY <1>1, <1>6 DEF Remove, Running, RepositoryTypeOK
  <1>7. CASE MovePackage
    <2>1. dir[op.name] # "absent" /\ op.pc = "move" /\ op.clean
      BY <1>1, <1>7 DEF MovePackage, Running, Refuses, Fails, Goto, RepositoryTypeOK
    <2>2. op.name \in {stable, experiment}
      BY <2>1, UnderWay DEF StageClean, Present
    <2>. QED
      BY <2>1, <2>2, UnderWay DEF StageKinds, StageLinks
  <1>8. CASE CreateSetStable \/ PromoteExperiment
    BY <1>1, <1>8, SetStableLinkDoes DEF CreateSetStable, PromoteExperiment
  <1>9. CASE SetExperiment \/ SetExperimentToStable
    BY <1>1, <1>9, SetExperimentLinkDoes DEF SetExperiment, SetExperimentToStable
  <1>10. CASE RemoveRoot
    <2>1. Present # {} /\ op.pc = "removeRoot" /\ op.clean
      BY <1>1, <1>10 DEF RemoveRoot, Running, Refuses, Fails, Goto, RepositoryTypeOK
    <2>2. stable = None /\ experiment = None /\ Present \subseteq {stable, experiment}
      BY <2>1, UnderWay DEF StageKinds, StageLinks, StageClean
    <2>. QED
      BY <2>1, <2>2, NamesAssumption DEF Present, Names
  <1>. QED
    BY <1>2, <1>3, <1>4, <1>5, <1>6, <1>7, <1>8, <1>9, <1>10 DEF Step

\* An operation that ends without an error leaves no garbage.
LEMMA StepNoGarbage ==
    ASSUME Inv, call.pc = "repository", Step
    PROVE  NoGarbage'
  <1>. SUFFICES ASSUME op'.pc = "done", op'.clean
                PROVE  \/ Present' \subseteq {stable', experiment'}
                       \/ op'.kind = "setExperiment" /\ Cardinality(Present' \ {stable', experiment'}) = 1
    BY DEF NoGarbage
  <1>1. RepositoryTypeOK /\ op'.kind = op.kind /\ op'.name = op.name
    BY UnderWay, StepKeeps
  <1>2. CASE UnlinkExperiment \/ UnlinkStable
    BY <1>1, <1>2 DEF UnlinkExperiment, UnlinkStable, Fails, RepositoryTypeOK
  <1>3. CASE Migrate
    BY <1>1, <1>3, SetExperimentLinkDoes DEF Migrate, Goto, RepositoryTypeOK
  <1>4. CASE List \/ MovePackage
    BY <1>1, <1>4 DEF List, MovePackage, Refuses, Fails, Goto, RepositoryTypeOK
  <1>5. CASE CleanupDone
    BY <1>5, UnderWay, CleanupDoneDoes DEF StageClean, Present
  <1>6. ASSUME NEW f \in Names, Remove(f) PROVE FALSE
    BY <1>1, <1>6 DEF Remove, Running, RepositoryTypeOK
  <1>7. CASE CreateSetStable \/ PromoteExperiment
    BY <1>1, <1>7, SetStableLinkDoes DEF CreateSetStable, PromoteExperiment
  <1>8. CASE SetExperiment
    <2>1. /\ stable' = stable /\ experiment' = op.name /\ Present' = Present
          /\ Present \subseteq {stable, experiment, op.name} /\ op.kind = "setExperiment"
      BY <1>8, UnderWay, SetExperimentDoes DEF StageClean, StageKinds, Present
    <2>2. CASE Present' \subseteq {stable', experiment'}
      BY <2>2
    <2>3. CASE ~(Present' \subseteq {stable', experiment'})
      <3>1. Present' \ {stable', experiment'} = {experiment}
        BY <2>1, <2>3
      <3>. QED
        BY <1>1, <2>1, <3>1, FS_Singleton
    <2>. QED
      BY <2>2, <2>3
  <1>9. CASE SetExperimentToStable
    BY <1>9, UnderWay, SetExperimentToStableDoes DEF StageClean, Present
  <1>10. CASE RemoveRoot
    BY <1>10, UnderWay, RemoveRootDoes DEF Present
  <1>. QED
    BY <1>2, <1>3, <1>4, <1>5, <1>6, <1>7, <1>8, <1>9, <1>10 DEF Step

-----------------------------------------------------------------------------
(* The installer.                                                           *)

\* Between two operations only the links and their packages matter.
LEMMA Idle ==
    ASSUME op' = NoOp, stable' # None => root'
    PROVE  Stages' /\ FailsForCause' /\ NoGarbage'
  <1>1. op'.pc = "idle" /\ op'.kind = "none"
    BY DEF NoOp
  <1>. QED
    BY <1>1 DEF Stages, LinksKnown, StageKinds, StageLinks, StageDirs, StageRoot, StageClean,
                FailsForCause, NoGarbage

\* A call that ends, or that does not touch the repository.
LEMMA Aside ==
    ASSUME Inv, op' = NoOp, UNCHANGED diskVars, wreck' = wreck
    PROVE  Stages' /\ FailsForCause' /\ NoGarbage' /\ LinksResolve' /\ RepositoryTypeOK'
  <1>1. Stages' /\ FailsForCause' /\ NoGarbage'
    BY Idle DEF Inv, Stages, StageRoot, diskVars
  <1>2. LinksResolve'
    BY DEF Inv, Promises, LinksResolve, LinksWhole, diskVars
  <1>3. NoOp \in [kind : Operations \cup {"none"}, name : Versions \cup {None},
               pc : {"idle", "failed", "done", "unlinkExperiment", "unlinkStable", "migrate", "list",
                     "remove", "move", "setStable", "setExperiment", "promote", "unset", "removeRoot"},
               round : {1, 2}, stable : Versions \cup {None},
               experiment : Versions \cup {None, ToStable}, todo : SUBSET Names, clean : BOOLEAN]
    BY DEF NoOp
  <1>4. RepositoryTypeOK'
    BY <1>3 DEF Inv, TypeOK, RepositoryTypeOK, diskVars
  <1>. QED
    BY <1>1, <1>2, <1>4

\* The beginning of an operation keeps the invariant.
LEMMA RepositoryBeginsInv ==
    ASSUME Inv, RepositoryBegins
    PROVE  Inv'
  <1>. DEFINE kind == RepositoryCall(call.name)
  <1>1. /\ call.name \in Calls \ {"purge"} /\ call.version \in Versions /\ op = NoOp
        /\ call' = [call EXCEPT !.pc = "repository"]
        /\ UNCHANGED <<dir, stable, experiment, db, wreck>> /\ root' = (root \/ kind = "create")
        /\ unsettled' = (unsettled \/ call.name \in {"promoteExperiment", "remove"})
        /\ call.name \in Installing => call.pc = "extracted"
    BY DEF RepositoryBegins, Begin, At, To, Inv, CallMatchesOp, Calls, Installing
  <1>2. kind \in Operations /\ (kind = "create" <=> call.name \in Installing)
    BY <1>1 DEF RepositoryCall, Calls, Installing, Operations
  <1>3. /\ op'.kind = kind /\ op'.name = call.version /\ op'.todo = {} /\ op'.clean
        /\ op'.stable = stable /\ op'.experiment = experiment /\ op'.round = 1
        /\ op'.pc = IF ~Readable THEN "failed"
                    ELSE IF kind \in {"create", "delete"} THEN "unlinkExperiment" ELSE "migrate"
    BY DEF RepositoryBegins, Begin, NoOp
  <1>4. op' = [NoOp EXCEPT !.kind = op'.kind, !.name = op'.name, !.stable = op'.stable,
                           !.experiment = op'.experiment, !.pc = op'.pc]
    BY DEF RepositoryBegins, Begin, NoOp
  <1>5. RepositoryTypeOK'
    <2>1. op' = [kind |-> kind, name |-> call.version, pc |-> op'.pc, round |-> 1, stable |-> stable,
                 experiment |-> experiment, todo |-> {}, clean |-> TRUE]
      BY <1>3, <1>4 DEF NoOp
    <2>. QED
      BY <1>1, <1>2, <1>3, <2>1 DEF Inv, TypeOK, RepositoryTypeOK
  <1>6. TypeOK'
    BY <1>1, <1>5 DEF Inv, TypeOK
  <1>7. call'.pc = "repository" /\ call'.name = call.name /\ call'.version = call.version
    BY <1>1 DEF Inv, TypeOK
  <1>8. CallMatchesOp'
    BY <1>1, <1>3, <1>7 DEF CallMatchesOp, RepositoryCall, Installing
  <1>9. Stages'
    BY <1>1, <1>3 DEF Inv, Stages, LinksKnown, StageKinds, StageLinks, StageDirs, StageRoot, StageClean
  <1>10. Entry'
    BY <1>1, <1>7 DEF Inv, Entry, Installing
  <1>11. LinksResolve' /\ EntryIsStable'
    BY <1>1 DEF Inv, Promises, LinksResolve, LinksWhole, EntryIsStable
  <1>12. FailsForCause'
    BY <1>1, <1>3, NamesAssumption
    DEF FailsForCause, Inv, TypeOK, RepositoryTypeOK, Promises, LinksResolve, LinksWhole, Readable
  <1>13. NoGarbage'
    BY <1>3 DEF NoGarbage
  <1>. QED
    BY <1>6, <1>8, <1>9, <1>10, <1>11, <1>12, <1>13 DEF Inv, Promises

\* A step of an operation keeps the invariant.
LEMMA RepositoryStepInv ==
    ASSUME Inv, RepositoryStep
    PROVE  Inv'
  <1>1. /\ call.pc = "repository" /\ Step /\ UNCHANGED <<db, call, unsettled>>
        /\ wreck' = (wreck /\ ~(op.kind = "create" /\ op'.pc = "done"))
    BY DEF RepositoryStep
  <1>2. TypeOK'
    BY <1>1, StepType DEF Inv, TypeOK
  <1>3. op'.kind = op.kind /\ op'.name = op.name
    BY <1>1, StepKeeps
  <1>4. op.kind = RepositoryCall(call.name) /\ call.name \in Calls \ {"purge"}
    BY <1>1 DEF Inv, CallMatchesOp
  <1>5. op'.pc # "idle"
    <2>1. CASE op'.pc = "failed"
      BY <2>1
    <2>2. CASE op'.pc # "failed"
      <3>1. RepositoryTypeOK /\ LinksKnown /\ op.name \in Versions
        BY <1>1, UnderWay
      <3>2. ASSUME NEW f \in Names, Remove(f) PROVE op'.pc # "idle"
        BY <2>2, <3>1, <3>2, RemoveDoes
      <3>. QED
        BY <1>1, <2>2, <3>1, <3>2, UnlinkExperimentDoes, UnlinkStableDoes, MigrateDoes, ListDoes,
           CleanupDoneDoes, MovePackageDoes, CreateSetStableDoes, SetExperimentDoes,
           PromoteExperimentDoes, SetExperimentToStableDoes, RemoveRootDoes
        DEF Step
    <2>. QED
      BY <2>1, <2>2
  <1>6. CallMatchesOp'
    BY <1>1, <1>3, <1>5 DEF Inv, CallMatchesOp, RepositoryCall, Installing
  <1>7. Stages'
    BY <1>1, StepStages
  <1>8. Entry'
    BY <1>1 DEF Inv, Entry
  <1>9. LinksResolve'
    BY <1>1, StepWhole, CreateWhole DEF Inv, Promises, LinksResolve
  <1>10. EntryIsStable'
    <2>1. CASE stable' = stable
      BY <1>1, <2>1 DEF Inv, Promises, EntryIsStable
    <2>2. CASE stable' # stable
      <3>1. op.kind \in {"create", "delete", "promote"}
        BY <1>1, <2>2, StepMoves, UnderWay DEF LinksMove, LinkChange, StageKinds
      <3>2. call.name \in Installing \cup {"promoteExperiment", "remove"}
        BY <1>4, <3>1 DEF RepositoryCall, Installing, Calls
      <3>. QED
        BY <1>1, <3>2 DEF Inv, Entry, EntryIsStable
    <2>. QED
      BY <2>1, <2>2
  <1>11. FailsForCause' /\ NoGarbage'
    BY <1>1, StepFailsForCause, StepNoGarbage
  <1>. QED
    BY <1>2, <1>6, <1>7, <1>8, <1>9, <1>10, <1>11 DEF Inv, Promises

\* The actions of the installer that leave the disk alone.
AsideStep ==
    \/ \E name \in Calls, v \in Versions : CallBegins(name, v)
    \/ CallAbandoned \/ InstallSkipped \/ InstallDeletesEntry \/ ExtractFails \/ NoExperiment
    \/ RepositoryFailed \/ RepositoryDone \/ HookFails \/ EntryWritten \/ Crash

\* Each of them begins a call, ends one or moves it on.
LEMMA AsideDoes ==
    ASSUME Inv, AsideStep
    PROVE  /\ op' = NoOp /\ UNCHANGED diskVars /\ wreck' = wreck
           /\ call' \in [name : Calls \cup {"none"}, version : Versions \cup {None},
                         pc : {"idle", "before", "extracted", "repository", "after", "purging"}]
           /\ \/ call' = NoCall
              \/ call'.pc = "before" /\ call'.name \in Calls /\ call'.version \in Versions
              \/ call'.pc = "extracted" /\ call'.name \in Installing /\ call'.version \in Versions /\ db' = None
              \/ /\ call'.pc = "after" /\ call' = [call EXCEPT !.pc = "after"] /\ call.pc = "repository" /\ op.pc = "done"
                 /\ call.name \in Installing \cup {"promoteExperiment", "remove"}
                 /\ UNCHANGED <<db, unsettled>>
           /\ \/ UNCHANGED <<db, unsettled>>
              \/ db' = None /\ unsettled' = FALSE
              \/ db' = stable /\ unsettled' = FALSE
  <1>. USE DEF Inv, TypeOK, RepositoryTypeOK, CallMatchesOp
  <1>0. NoCall \in [name : Calls \cup {"none"}, version : Versions \cup {None},
                    pc : {"idle", "before", "extracted", "repository", "after", "purging"}]
    BY DEF NoCall
  <1>1. CASE \E name \in Calls, v \in Versions : CallBegins(name, v)
    <2>1. PICK name \in Calls, v \in Versions : CallBegins(name, v)
      BY <1>1
    <2>2. /\ op' = NoOp /\ UNCHANGED <<diskVars, wreck, db, unsettled>>
          /\ call' = [name |-> name, pc |-> "before", version |-> v]
      BY <2>1 DEF CallBegins, NoCall, repositoryVars
    <2>. QED
      BY <2>2
  <1>2. CASE CallAbandoned \/ InstallSkipped \/ ExtractFails \/ NoExperiment \/ HookFails
    <2>1. op' = NoOp /\ UNCHANGED <<diskVars, wreck, db, unsettled>> /\ call' = NoCall
      BY <1>2 DEF CallAbandoned, InstallSkipped, ExtractFails, NoExperiment, HookFails, Return, At, repositoryVars
    <2>. QED
      BY <1>0, <2>1
  <1>3. CASE InstallDeletesEntry
    <2>1. /\ op' = NoOp /\ UNCHANGED <<diskVars, wreck>> /\ db' = None /\ unsettled' = FALSE
          /\ call' = [call EXCEPT !.pc = "extracted"] /\ call.name \in Installing /\ call.version \in Versions
      BY <1>3 DEF InstallDeletesEntry, At, To, repositoryVars
    <2>. QED
      BY <2>1
  <1>4. CASE RepositoryFailed \/ Crash
    <2>1. op' = NoOp /\ UNCHANGED <<diskVars, wreck, db, unsettled>> /\ call' = NoCall
      BY <1>4 DEF RepositoryFailed, Crash, Return
    <2>. QED
      BY <1>0, <2>1
  <1>5. CASE RepositoryDone
    <2>1. op' = NoOp /\ UNCHANGED <<diskVars, wreck, db, unsettled>> /\ call.pc = "repository" /\ op.pc = "done"
      BY <1>5 DEF RepositoryDone
    <2>2. CASE call.name \in Installing \cup {"promoteExperiment", "remove"}
      <3>1. call' = [call EXCEPT !.pc = "after"]
        BY <1>5, <2>2 DEF RepositoryDone, To
      <3>. QED
        BY <2>1, <2>2, <3>1
    <2>3. CASE call.name \notin Installing \cup {"promoteExperiment", "remove"}
      <3>1. call' = NoCall
        BY <1>5, <2>3 DEF RepositoryDone, Return
      <3>. QED
        BY <1>0, <2>1, <3>1
    <2>. QED
      BY <2>2, <2>3
  <1>6. CASE EntryWritten
    <2>1. op' = NoOp /\ UNCHANGED <<diskVars, wreck>> /\ call' = NoCall /\ unsettled' = FALSE
      BY <1>6 DEF EntryWritten, Return, repositoryVars
    <2>2. db' = None \/ db' = stable
      BY <1>6 DEF EntryWritten, Entry, StateStable
    <2>. QED
      BY <1>0, <2>1, <2>2
  <1>. QED
    BY <1>1, <1>2, <1>3, <1>4, <1>5, <1>6 DEF AsideStep

\* The actions that leave the disk alone keep the invariant.
LEMMA AsideInv ==
    ASSUME Inv, AsideStep
    PROVE  Inv'
  <1>1. Stages' /\ FailsForCause' /\ NoGarbage' /\ LinksResolve' /\ RepositoryTypeOK'
    BY AsideDoes, Aside
  <1>2. stable \in Versions \cup {None} /\ stable' = stable
    BY AsideDoes DEF Inv, TypeOK, RepositoryTypeOK, diskVars
  <1>3. TypeOK'
    BY <1>1, <1>2, AsideDoes DEF Inv, TypeOK
  <1>4. CallMatchesOp'
    <2>1. CASE call' = NoCall
      BY <2>1, AsideDoes DEF NoCall, CallMatchesOp
    <2>2. CASE call'.pc = "before" /\ call'.name \in Calls /\ call'.version \in Versions
      BY <2>2, AsideDoes DEF CallMatchesOp
    <2>3. CASE call'.pc = "extracted" /\ call'.name \in Installing /\ call'.version \in Versions
      BY <2>3, AsideDoes DEF CallMatchesOp, Installing, Calls
    <2>4. CASE /\ call'.pc = "after" /\ call' = [call EXCEPT !.pc = "after"] /\ call.pc = "repository"
               /\ call.name \in Installing \cup {"promoteExperiment", "remove"}
      <3>1. call'.name = call.name /\ call'.version = call.version /\ call.version \in Versions
        BY <2>4 DEF Inv, TypeOK, CallMatchesOp
      <3>. QED
        BY <2>4, <3>1, AsideDoes DEF CallMatchesOp, Installing, Calls
    <2>. QED
      BY <2>1, <2>2, <2>3, <2>4, AsideDoes
  <1>5. Entry'
    <2>1. CASE call' = NoCall
      BY <2>1 DEF NoCall, Entry, Installing
    <2>2. CASE call'.pc \in {"before", "extracted"} /\ (call'.pc = "extracted" => call'.name \in Installing /\ db' = None)
      BY <2>2 DEF Entry, Installing
    <2>3. CASE /\ call'.pc = "after" /\ call' = [call EXCEPT !.pc = "after"] /\ call.pc = "repository" /\ op.pc = "done"
               /\ UNCHANGED <<db, unsettled>>
      <3>1. call'.name = call.name /\ call'.version = call.version
        BY <2>3 DEF Inv, TypeOK
      <3>2. call.name \in Installing => stable = call.version
        BY <2>3 DEF Inv, CallMatchesOp, RepositoryCall, Installing, Stages, StageLinks
      <3>. QED
        BY <1>2, <2>3, <3>1, <3>2 DEF Inv, Entry
    <2>. QED
      BY <2>1, <2>2, <2>3, AsideDoes
  <1>6. EntryIsStable'
    BY <1>2, AsideDoes DEF Inv, Promises, EntryIsStable
  <1>. QED
    BY <1>1, <1>3, <1>4, <1>5, <1>6 DEF Inv, Promises

\* The steps of a purge keep the invariant, as a wreck.
LEMMA PurgeInv ==
    ASSUME Inv, PurgeEntry \/ PurgeRemoves \/ PurgeEnds
    PROVE  Inv'
  <1>1. op = NoOp /\ op' = NoOp /\ call.name = "purge"
    BY DEF PurgeEntry, PurgeRemoves, PurgeEnds, At, Inv, CallMatchesOp, repositoryVars
  <1>2. RepositoryTypeOK
    BY DEF Inv, TypeOK
  <1>3. stable # None => root
    BY DEF Inv, Stages, StageRoot
  <1>4. CASE PurgeEntry
    <2>1. UNCHANGED diskVars /\ wreck' = TRUE /\ call' = [call EXCEPT !.pc = "purging"]
      BY <1>4 DEF PurgeEntry, To, repositoryVars
    <2>2. \/ db' = None /\ unsettled' = FALSE
          \/ db' = db /\ unsettled' = (db # None)
      BY <1>4 DEF PurgeEntry
    <2>3. TypeOK'
      <3>1. RepositoryTypeOK'
        BY <1>1, <1>2, <2>1 DEF RepositoryTypeOK, diskVars
      <3>. QED
        BY <2>1, <2>2, <3>1 DEF Inv, TypeOK
    <2>4. CallMatchesOp' /\ Entry'
      BY <1>1, <2>1, <2>2 DEF Inv, TypeOK, CallMatchesOp, Entry, Calls, Installing
    <2>5. Stages' /\ FailsForCause' /\ NoGarbage'
      BY <1>1, <1>3, <2>1, Idle DEF diskVars
    <2>6. LinksResolve' /\ EntryIsStable'
      BY <2>1, <2>2 DEF LinksResolve, EntryIsStable
    <2>. QED
      BY <2>3, <2>4, <2>5, <2>6 DEF Inv, Promises
  <1>5. CASE PurgeRemoves
    <2>1. /\ call.pc = "purging" /\ wreck /\ UNCHANGED <<root, op, db, call, unsettled, wreck>>
          /\ stable' \in {stable, None} /\ experiment' \in {experiment, None}
      BY <1>5 DEF PurgeRemoves, At, Inv, CallMatchesOp
    <2>2. dir' \in [Names -> {"absent", "whole", "partial"}]
      BY <1>2, <1>5 DEF PurgeRemoves, RepositoryTypeOK
    <2>3. TypeOK'
      BY <1>2, <2>1, <2>2 DEF Inv, TypeOK, RepositoryTypeOK
    <2>4. CallMatchesOp' /\ Entry'
      BY <1>1, <2>1 DEF Inv, CallMatchesOp, Entry, Installing
    <2>5. Stages' /\ FailsForCause' /\ NoGarbage'
      BY <1>1, <1>3, <2>1, Idle
    <2>6. LinksResolve' /\ EntryIsStable'
      BY <2>1 DEF LinksResolve, EntryIsStable, Inv, Entry
    <2>. QED
      BY <2>3, <2>4, <2>5, <2>6 DEF Inv, Promises
  <1>6. CASE PurgeEnds
    <2>. DEFINE gone == Present = {} /\ stable = None /\ experiment = None
    <2>1. /\ UNCHANGED <<dir, stable, experiment, op, db, unsettled>> /\ call' = NoCall
          /\ root' = (root /\ ~gone) /\ wreck' = ~gone /\ call.pc = "purging"
      BY <1>6 DEF PurgeEnds, Return, At
    <2>2. TypeOK'
      BY <1>2, <2>1 DEF Inv, TypeOK, RepositoryTypeOK, NoCall
    <2>3. CallMatchesOp' /\ Entry'
      BY <1>1, <2>1 DEF CallMatchesOp, Entry, NoCall, Installing
    <2>4. Stages' /\ FailsForCause' /\ NoGarbage'
      BY <1>1, <1>3, <2>1, Idle
    <2>5. LinksResolve' /\ EntryIsStable'
      BY <2>1, NamesAssumption DEF LinksResolve, LinksWhole, EntryIsStable, Inv, Entry
    <2>. QED
      BY <2>2, <2>3, <2>4, <2>5 DEF Inv, Promises
  <1>. QED
    BY <1>4, <1>5, <1>6

\* The invariant holds in an empty installation.
LEMMA InvInit == Init => Inv
  <1>. SUFFICES ASSUME Init PROVE Inv
    OBVIOUS
  <1>1. op = NoOp /\ call = NoCall /\ stable = None /\ experiment = None /\ db = None /\ root = FALSE
    BY DEF Init, RepositoryInit
  <1>2. TypeOK
    BY DEF Init, RepositoryInit, TypeOK, RepositoryTypeOK, NoOp, NoCall
  <1>3. CallMatchesOp /\ Entry
    BY <1>1 DEF NoCall, CallMatchesOp, Entry, Installing
  <1>4. op.pc = "idle" /\ op.kind = "none"
    BY <1>1 DEF NoOp
  <1>5. Stages
    BY <1>1, <1>4 DEF Stages, LinksKnown, StageKinds, StageLinks, StageDirs, StageRoot, StageClean
  <1>6. Promises
    BY <1>1, <1>4, NamesAssumption DEF Promises, LinksResolve, LinksWhole, FailsForCause, NoGarbage, EntryIsStable
  <1>. QED
    BY <1>2, <1>3, <1>5, <1>6 DEF Inv

\* The invariant depends on the variables only.
LEMMA InvStutter ==
    ASSUME Inv, UNCHANGED vars
    PROVE  Inv'
  <1>1. UNCHANGED <<root, dir, stable, experiment, op, db, call, unsettled, wreck>>
    BY DEF vars, repositoryVars, diskVars
  <1>2. TypeOK'
    BY <1>1 DEF Inv, TypeOK, RepositoryTypeOK
  <1>3. CallMatchesOp' /\ Entry'
    BY <1>1 DEF Inv, CallMatchesOp, RepositoryCall, Installing, Entry
  <1>4. Stages'
    BY <1>1 DEF Inv, Stages, LinksKnown, StageKinds, StageLinks, StageDirs, StageRoot, StageClean, Present
  <1>5. Promises'
    BY <1>1 DEF Inv, Promises, LinksResolve, LinksWhole, FailsForCause, NoGarbage, EntryIsStable, Present, StateExperiment
  <1>. QED
    BY <1>2, <1>3, <1>4, <1>5 DEF Inv

\* The inductive invariant: through every operation of the installer, every
\* failing call, refusing hook and crash, the links in memory and on disk, the
\* directories, the entry in packages.db and the call agree.
THEOREM Recoverable == Spec => []Inv
  <1>1. Inv /\ [Next]_vars => Inv'
    <2>. SUFFICES ASSUME Inv, [Next]_vars PROVE Inv'
      OBVIOUS
    <2>1. CASE AsideStep
      BY <2>1, AsideInv
    <2>2. CASE RepositoryBegins
      BY <2>2, RepositoryBeginsInv
    <2>3. CASE RepositoryStep
      BY <2>3, RepositoryStepInv
    <2>4. CASE PurgeEntry \/ PurgeRemoves \/ PurgeEnds
      BY <2>4, PurgeInv
    <2>5. CASE UNCHANGED vars
      BY <2>5, InvStutter
    <2>. QED
      BY <2>1, <2>2, <2>3, <2>4, <2>5 DEF Next, AsideStep
  <1>. QED
    BY <1>1, InvInit, PTL DEF Spec

\* Every variable of the installer and of the repository keeps its type.
THEOREM TypeCorrect == Spec => []TypeOK
  <1>1. Inv => TypeOK
    BY DEF Inv
  <1>. QED
    BY <1>1, Recoverable, PTL

\* Wherever an operation fails or is killed, the links it leaves lead to
\* packages with all their files.
THEOREM LinksAlwaysResolve == Spec => []LinksResolve
  <1>1. Inv => LinksResolve
    BY DEF Inv, Promises
  <1>. QED
    BY <1>1, Recoverable, PTL

\* Whatever an earlier operation left behind, a later one that meets no error
\* of the system fails only if what it asks is impossible.
THEOREM Recovers == Spec => []FailsForCause
  <1>1. Inv => FailsForCause
    BY DEF Inv, Promises
  <1>. QED
    BY <1>1, Recoverable, PTL

\* An operation that meets no error leaves only the packages the links name.
THEOREM GarbageCollected == Spec => []NoGarbage
  <1>1. Inv => NoGarbage
    BY DEF Inv, Promises
  <1>. QED
    BY <1>1, Recoverable, PTL

\* packages.db names the stable version unless a promotion, a removal or a
\* purge did not get as far as the entry.
THEOREM EntryCorrect == Spec => []EntryIsStable
  <1>1. Inv => EntryIsStable
    BY DEF Inv, Promises
  <1>. QED
    BY <1>1, Recoverable, PTL

-----------------------------------------------------------------------------
(* The abstract repository.                                                 *)

\* What the abstract repository holds.
StableVersion == IF wreck THEN None ELSE StateStable
ExperimentVersion == IF wreck THEN None ELSE StateExperiment
NoOperation == [kind |-> "none", version |-> None]
Abstract == <<StableVersion, ExperimentVersion, Operation>>
Refines == Repository!RepositoryNext \/ UNCHANGED Abstract

\* A step that leaves GetState alone and the operation as it is, or ends it.
LEMMA EndRefines ==
    ASSUME UNCHANGED <<StableVersion, ExperimentVersion>>, Operation' \in {Operation, NoOperation}
    PROVE  Refines
  <1>1. CASE Operation' = Operation
    BY <1>1 DEF Refines, Abstract
  <1>2. CASE Operation' = NoOperation
    <2>1. Repository!Ends
      BY <1>2 DEF Repository!Ends, Repository!GetState, Repository!Idle, NoOperation,
                  StableVersion, ExperimentVersion
    <2>. QED
      BY <2>1 DEF Refines, Repository!RepositoryNext
  <1>. QED
    BY <1>1, <1>2

\* Create and Delete take the experiment away.
LEMMA UnlinkExperimentRefines ==
    ASSUME Inv, call.pc = "repository", UnlinkExperiment, UNCHANGED wreck
    PROVE  Refines
  <1>1. /\ op.pc = "unlinkExperiment" /\ op.kind \in {"create", "delete"} /\ RepositoryTypeOK
        /\ stable \in Versions \cup {None} /\ None \notin Versions /\ None # ToStable
    BY UnderWay, NamesAssumption DEF UnlinkExperiment, Running, StageKinds, RepositoryTypeOK
  <1>2. CASE Fails
    <2>1. Operation' = NoOperation
      BY <1>1, <1>2 DEF Fails, Operation, NoOperation, RepositoryTypeOK
    <2>2. UNCHANGED <<StableVersion, ExperimentVersion>>
      BY <1>2 DEF Fails, diskVars, StableVersion, ExperimentVersion, StateStable, StateExperiment
    <2>. QED
      BY <2>1, <2>2, EndRefines
  <1>3. CASE ~Fails
    <2>1. /\ experiment' = None /\ stable' = stable
          /\ op' = [op EXCEPT !.pc = "unlinkStable", !.experiment = None]
      BY <1>3 DEF UnlinkExperiment
    <2>2. Operation' = Operation /\ Operation.kind \in {"replace", "delete"}
      BY <1>1, <2>1 DEF Operation, RepositoryTypeOK
    <2>3. StableVersion' = StableVersion /\ ExperimentVersion' = None
      BY <1>1, <2>1 DEF StableVersion, ExperimentVersion, StateStable, StateExperiment
    <2>4. Repository!RemoveExperiment
      BY <2>2, <2>3 DEF Repository!RemoveExperiment, StableVersion, ExperimentVersion
    <2>. QED
      BY <2>4 DEF Refines, Repository!RepositoryNext
  <1>. QED
    BY <1>2, <1>3

\* Create and Delete take the stable version away; Create goes on.
LEMMA UnlinkStableRefines ==
    ASSUME Inv, call.pc = "repository", UnlinkStable, UNCHANGED wreck
    PROVE  Refines
  <1>1. /\ op.pc = "unlinkStable" /\ op.kind \in {"create", "delete"} /\ RepositoryTypeOK
        /\ experiment = None /\ stable \in Versions \cup {None}
        /\ None \notin Versions /\ None # ToStable
    BY UnderWay, NamesAssumption DEF UnlinkStable, Running, StageKinds, StageLinks, RepositoryTypeOK
  <1>2. CASE Fails
    <2>1. Operation' = NoOperation
      BY <1>1, <1>2 DEF Fails, Operation, NoOperation, RepositoryTypeOK
    <2>2. UNCHANGED <<StableVersion, ExperimentVersion>>
      BY <1>2 DEF Fails, diskVars, StableVersion, ExperimentVersion, StateStable, StateExperiment
    <2>. QED
      BY <2>1, <2>2, EndRefines
  <1>3. CASE ~Fails
    <2>1. /\ experiment' = None /\ stable' = None
          /\ op' = [op EXCEPT !.pc = "migrate", !.stable = None]
      BY <1>1, <1>3 DEF UnlinkStable
    <2>2. /\ Operation.kind \in {"replace", "delete"}
          /\ Operation' = IF Operation.kind = "replace" THEN [Operation EXCEPT !.kind = "create"] ELSE Operation
      BY <1>1, <2>1 DEF Operation, RepositoryTypeOK
    <2>3. StableVersion' = None /\ ExperimentVersion = None /\ ExperimentVersion' = None
      BY <1>1, <2>1 DEF StableVersion, ExperimentVersion, StateStable, StateExperiment
    <2>4. Repository!RemoveStable
      BY <2>2, <2>3 DEF Repository!RemoveStable, StableVersion, ExperimentVersion
    <2>. QED
      BY <2>4 DEF Refines, Repository!RepositoryNext
  <1>. QED
    BY <1>2, <1>3

\* The other steps are of an operation that goes on or ends.
OtherStep == Step /\ ~UnlinkExperiment /\ ~UnlinkStable

LEMMA OtherStepStages ==
    ASSUME Inv, call.pc = "repository", OtherStep
    PROVE  /\ op.pc \notin {"idle", "failed", "done", "unlinkExperiment", "unlinkStable"}
           /\ op'.pc \notin {"idle", "unlinkExperiment", "unlinkStable"}
  <1>1. RepositoryTypeOK
    BY UnderWay
  <1>2. CASE Migrate
    <2>1. op'.pc \in {"list", "failed"}
      BY <1>1, <1>2, SetExperimentLinkDoes, ZenonT(40) DEF Migrate, Goto, RepositoryTypeOK
    <2>. QED
      BY <1>2, <2>1 DEF Migrate, Running
  <1>3. CASE SetExperiment \/ SetExperimentToStable
    <2>1. op'.pc \in {"done", "migrate", "failed"}
      BY <1>1, <1>3, SetExperimentLinkDoes DEF SetExperiment, SetExperimentToStable
    <2>. QED
      BY <1>3, <2>1 DEF SetExperiment, SetExperimentToStable, Running
  <1>7. CASE CreateSetStable \/ PromoteExperiment
    <2>1. op'.pc \in {"unset", "migrate", "failed"}
      BY <1>1, <1>7, SetStableLinkDoes DEF CreateSetStable, PromoteExperiment
    <2>. QED
      BY <1>7, <2>1 DEF CreateSetStable, PromoteExperiment, Running
  <1>4. CASE List \/ MovePackage \/ RemoveRoot
    BY <1>1, <1>4 DEF List, MovePackage, RemoveRoot, Running, Fails, Refuses, Goto, RepositoryTypeOK
  <1>5. CASE CleanupDone
    BY <1>1, <1>5 DEF CleanupDone, Running, RepositoryTypeOK
  <1>6. ASSUME NEW f \in Names, Remove(f)
        PROVE  op.pc = "remove" /\ op'.pc = "remove"
    BY <1>1, <1>6 DEF Remove, Running, RepositoryTypeOK
  <1>. QED
    BY <1>2, <1>3, <1>4, <1>5, <1>6, <1>7 DEF OtherStep, Step

LEMMA OtherStepOperation ==
    ASSUME Inv, call.pc = "repository", OtherStep
    PROVE  /\ Operation = [kind |-> op.kind, version |-> op.name]
           /\ Operation' \in {Operation, NoOperation}
           /\ op'.pc = "done" => Operation' = NoOperation
  <1>1. op'.kind = op.kind /\ op'.name = op.name
    BY StepKeeps DEF OtherStep
  <1>. QED
    BY <1>1, OtherStepStages DEF Operation, NoOperation

\* The experiment operations and the end of Create change GetState in one
\* step, which is a step of the abstract repository.
LEMMA LinkChangeRefines ==
    ASSUME Inv, call.pc = "repository", OtherStep, LinkChange, ~wreck, ~wreck'
    PROVE  Refines
  <1>. DEFINE May == Operation' \in {Operation, NoOperation}
  <1>1. /\ stable \in Versions \cup {None} /\ experiment \in Versions \cup {None, ToStable}
        /\ op.name \in Versions /\ None \notin Versions /\ ToStable \notin Versions /\ None # ToStable
        /\ StageKinds /\ StageLinks
    BY UnderWay, NamesAssumption DEF RepositoryTypeOK
  <1>2. /\ Operation.kind = op.kind /\ Operation.version = op.name /\ May
        /\ op.pc \notin {"unlinkExperiment", "unlinkStable"}
    BY OtherStepOperation, OtherStepStages
  <1>3. /\ StableVersion = stable /\ StableVersion' = stable'
        /\ ExperimentVersion = IF experiment \in {ToStable, stable} THEN None ELSE experiment
        /\ ExperimentVersion' = IF experiment' \in {ToStable, stable'} THEN None ELSE experiment'
    BY DEF StableVersion, ExperimentVersion, StateStable, StateExperiment
  <1>4. CASE experiment = None /\ experiment' = ToStable /\ stable # None /\ stable' = stable
    BY <1>1, <1>2, <1>3, <1>4, EndRefines
  <1>5. CASE /\ op.pc = "setStable" /\ stable = None /\ experiment = None /\ experiment' = None
             /\ stable' = op.name
    <2>1. /\ Operation.kind = "create" /\ StableVersion = None /\ ExperimentVersion = None
          /\ StableVersion' = Operation.version /\ ExperimentVersion' = ExperimentVersion
      BY <1>1, <1>2, <1>3, <1>5 DEF StageKinds
    <2>2. Repository!InstallStable
      BY <1>2, <2>1 DEF Repository!InstallStable, Repository!GetState, Repository!MayEnd,
                        Repository!Idle, NoOperation, StableVersion, ExperimentVersion
    <2>. QED
      BY <2>2 DEF Refines, Repository!RepositoryNext
  <1>6. CASE /\ op.pc = "setExperiment" /\ experiment' = op.name
             /\ stable # None /\ op.name # stable /\ stable' = stable
    <2>1. /\ Operation.kind = "setExperiment" /\ StableVersion \notin {None, Operation.version}
          /\ StableVersion' = StableVersion /\ ExperimentVersion' = Operation.version
      BY <1>1, <1>2, <1>3, <1>6 DEF StageKinds
    <2>2. Repository!SetExperiment
      BY <1>2, <2>1 DEF Repository!SetExperiment, Repository!MayEnd,
                        Repository!Idle, NoOperation, StableVersion, ExperimentVersion
    <2>. QED
      BY <2>2 DEF Refines, Repository!RepositoryNext
  <1>7. CASE /\ op.pc = "promote" /\ experiment \in Versions /\ experiment # stable
             /\ stable' = experiment /\ experiment' = experiment
    <2>1. /\ Operation.kind = "promote" /\ ExperimentVersion # None
          /\ StableVersion' = ExperimentVersion /\ ExperimentVersion' = None
      BY <1>1, <1>2, <1>3, <1>7 DEF StageKinds
    <2>2. Repository!PromoteExperiment
      BY <1>2, <2>1 DEF Repository!PromoteExperiment, Repository!MayEnd,
                        Repository!Idle, NoOperation, StableVersion, ExperimentVersion
    <2>. QED
      BY <2>2 DEF Refines, Repository!RepositoryNext
  <1>8. CASE op.pc = "unset" /\ stable # None /\ stable' = stable /\ experiment' = ToStable
    <2>1. CASE op.kind = "create"
      BY <1>1, <1>2, <1>3, <1>8, <2>1, EndRefines DEF StageLinks
    <2>2. CASE op.kind # "create"
      <3>1. /\ Operation.kind = "deleteExperiment"
            /\ StableVersion' = StableVersion /\ ExperimentVersion' = None
        BY <1>1, <1>2, <1>3, <1>8, <2>2 DEF StageKinds
      <3>2. Repository!DeleteExperiment
        BY <1>2, <3>1 DEF Repository!DeleteExperiment, Repository!MayEnd,
                          Repository!Idle, NoOperation, StableVersion, ExperimentVersion
      <3>. QED
        BY <3>2 DEF Refines, Repository!RepositoryNext
    <2>. QED
      BY <2>1, <2>2
  <1>. QED
    BY <1>2, <1>4, <1>5, <1>6, <1>7, <1>8 DEF LinkChange

\* A Create that ends after a purge was cut short installs its version.
LEMMA CreateRefines ==
    ASSUME Inv, RepositoryStep, OtherStep, wreck, ~wreck'
    PROVE  Refines
  <1>1. call.pc = "repository" /\ Step /\ op.kind = "create" /\ op'.pc = "done"
    BY DEF RepositoryStep
  <1>2. StageLinks'
    BY <1>1, StepStages DEF Stages
  <1>3. op'.kind = "create" /\ op'.name = op.name /\ op.name \in Versions
    BY <1>1, StepKeeps, UnderWay
  <1>4. stable' = op.name /\ experiment' = ToStable
    BY <1>1, <1>2, <1>3 DEF StageLinks
  <1>5. /\ Operation.kind = "create" /\ Operation.version = op.name /\ Operation' = NoOperation
    BY <1>1, OtherStepOperation
  <1>6. Repository!InstallStable
    BY <1>4, <1>5 DEF Repository!InstallStable, Repository!GetState, Repository!MayEnd,
                      Repository!Idle, NoOperation, StateStable, StateExperiment
  <1>. QED
    BY <1>6 DEF Refines, Repository!RepositoryNext

\* Every step of the repository is a step of the abstract one, or none.
LEMMA RepositoryStepRefines ==
    ASSUME Inv, RepositoryStep
    PROVE  Refines
  <1>1. /\ call.pc = "repository" /\ Step /\ wreck \in BOOLEAN /\ wreck' \in BOOLEAN
        /\ wreck' => wreck
        /\ wreck /\ ~wreck' => op.kind = "create" /\ op'.pc = "done"
    BY DEF RepositoryStep, Inv, TypeOK
  <1>2. CASE UnlinkExperiment \/ UnlinkStable
    <2>1. op'.pc # "done" /\ RepositoryTypeOK
      BY <1>1, <1>2, UnderWay DEF UnlinkExperiment, UnlinkStable, Fails, RepositoryTypeOK
    <2>2. wreck' = wreck
      BY <1>1, <2>1
    <2>. QED
      BY <1>1, <1>2, <2>2, UnlinkExperimentRefines, UnlinkStableRefines
  <1>3. CASE OtherStep
    <2>1. CASE wreck /\ ~wreck'
      BY <1>3, <2>1, CreateRefines
    <2>2. CASE wreck /\ wreck'
      <3>1. UNCHANGED <<StableVersion, ExperimentVersion>>
        BY <2>2 DEF StableVersion, ExperimentVersion
      <3>. QED
        BY <1>1, <1>3, <3>1, OtherStepOperation, EndRefines
    <2>3. CASE ~wreck /\ ~wreck'
      <3>1. CASE LinkChange
        BY <1>1, <1>3, <2>3, <3>1, LinkChangeRefines
      <3>2. CASE UNCHANGED <<stable, experiment>>
        <4>1. UNCHANGED <<StableVersion, ExperimentVersion>>
          BY <2>3, <3>2 DEF StableVersion, ExperimentVersion, StateStable, StateExperiment
        <4>. QED
          BY <1>1, <1>3, <4>1, OtherStepOperation, EndRefines
      <3>. QED
        BY <1>1, <3>1, <3>2, StepMoves DEF LinksMove
    <2>. QED
      BY <1>1, <2>1, <2>2, <2>3
  <1>. QED
    BY <1>1, <1>2, <1>3 DEF OtherStep

\* No operation of the repository is under way outside its calls.
LEMMA NoOpIsNone == op = NoOp => Operation = NoOperation
  BY DEF NoOp, Operation, NoOperation

\* An operation begins, and the abstract one with it unless it cannot even
\* read the links.
LEMMA BeginRefines ==
    ASSUME Inv, RepositoryBegins
    PROVE  Refines
  <1>1. UNCHANGED <<StableVersion, ExperimentVersion>>
    BY DEF RepositoryBegins, Begin, StableVersion, ExperimentVersion, StateStable, StateExperiment
  <1>2. /\ op = NoOp /\ call.version \in Versions
        /\ RepositoryCall(call.name) \in Operations
    BY DEF RepositoryBegins, At, Inv, CallMatchesOp, RepositoryCall, Operations, Installing
  <1>3. Operation = NoOperation
    BY <1>2, NoOpIsNone
  <1>4. /\ op'.kind = RepositoryCall(call.name) /\ op'.name = call.version
        /\ op'.pc \in {"failed", IF RepositoryCall(call.name) \in {"create", "delete"}
                                   THEN "unlinkExperiment" ELSE "migrate"}
    BY DEF RepositoryBegins, Begin, NoOp
  <1>5. CASE op'.pc = "failed"
    <2>1. Operation' = NoOperation
      BY <1>5 DEF Operation, NoOperation
    <2>. QED
      BY <1>1, <2>1, EndRefines
  <1>6. CASE op'.pc # "failed"
    <2>. DEFINE kind == IF RepositoryCall(call.name) = "create" THEN "replace" ELSE RepositoryCall(call.name)
    <2>1. Operation' = [kind |-> kind, version |-> call.version]
      BY <1>4, <1>6 DEF Operation
    <2>2. kind \in Repository!Beginnings
      BY <1>2 DEF Operations, Repository!Beginnings
    <2>. HIDE DEF kind
    <2>3. Repository!Begins(kind, call.version)
      BY <1>1, <1>3, <2>1 DEF Repository!Begins, Repository!Idle, Repository!GetState, NoOperation,
                              StableVersion, ExperimentVersion
    <2>. QED
      BY <1>2, <2>2, <2>3 DEF Refines, Repository!RepositoryNext
  <1>. QED
    BY <1>5, <1>6

\* Every step is a step of the abstract repository, or none.
LEMMA StepRefines ==
    ASSUME Inv, [Next]_vars
    PROVE  Refines
  <1>1. CASE UNCHANGED <<stable, experiment, wreck>> /\ Operation' \in {Operation, NoOperation}
    <2>1. UNCHANGED <<StableVersion, ExperimentVersion>>
      BY <1>1 DEF StableVersion, ExperimentVersion, StateStable, StateExperiment
    <2>. QED
      BY <1>1, <2>1, EndRefines
  <1>2. CASE AsideStep
    <2>1. op' = NoOp /\ UNCHANGED <<stable, experiment, wreck>>
      BY <1>2, AsideDoes DEF diskVars
    <2>2. Operation' = NoOperation
      BY <2>1 DEF NoOp, Operation, NoOperation
    <2>. QED
      BY <1>1, <2>1, <2>2
  <1>3. CASE RepositoryBegins
    BY <1>3, BeginRefines
  <1>4. CASE RepositoryStep
    BY <1>4, RepositoryStepRefines
  <1>5. ASSUME PurgeEntry \/ PurgeRemoves \/ PurgeEnds
        PROVE  op = NoOp /\ Operation = NoOperation /\ Operation' = Operation
    <2>1. op = NoOp /\ op' = op
      BY <1>5 DEF PurgeEntry, PurgeRemoves, PurgeEnds, At, Inv, CallMatchesOp, repositoryVars
    <2>. QED
      BY <2>1, NoOpIsNone DEF Operation
  <1>6. CASE PurgeEntry
    <2>1. StableVersion' = None /\ ExperimentVersion' = None
      BY <1>6 DEF PurgeEntry, StableVersion, ExperimentVersion
    <2>2. Repository!PurgeAll
      BY <1>5, <1>6, <2>1 DEF Repository!PurgeAll, Repository!GetState, Repository!Idle, NoOperation,
                              StableVersion, ExperimentVersion
    <2>. QED
      BY <2>2 DEF Refines, Repository!RepositoryNext
  <1>7. CASE PurgeRemoves
    <2>1. wreck /\ wreck'
      BY <1>7 DEF PurgeRemoves, At, Inv, CallMatchesOp
    <2>2. UNCHANGED <<StableVersion, ExperimentVersion>>
      BY <2>1 DEF StableVersion, ExperimentVersion
    <2>. QED
      BY <1>5, <1>7, <2>2, EndRefines
  <1>8. CASE PurgeEnds
    <2>1. wreck /\ UNCHANGED <<stable, experiment>>
      BY <1>8 DEF PurgeEnds, At, Inv, CallMatchesOp
    <2>2. ~wreck' => stable' = None /\ experiment' = None
      BY <1>8 DEF PurgeEnds
    <2>3. UNCHANGED <<StableVersion, ExperimentVersion>>
      BY <2>1, <2>2 DEF StableVersion, ExperimentVersion, StateStable, StateExperiment
    <2>. QED
      BY <1>5, <1>8, <2>3, EndRefines
  <1>9. CASE UNCHANGED vars
    BY <1>1, <1>9 DEF vars, repositoryVars, diskVars, Operation
  <1>. QED
    BY <1>2, <1>3, <1>4, <1>6, <1>7, <1>8, <1>9 DEF Next, AsideStep

\* The installer implements the abstract repository, through failures and
\* crashes: GetState shows the experiment operations done or not done, and
\* Create and Delete in the order of PackageRepository.
THEOREM Refinement == Spec => ImplementsRepository
  <1>1. Init => Repository!RepositoryInit
    BY NoOpIsNone DEF Init, RepositoryInit, Repository!RepositoryInit, Repository!GetState,
                      Repository!Idle, NoOperation, StateStable, StateExperiment
  <1>2. Inv /\ [Next]_vars => [Repository!RepositoryNext]_(Repository!repositoryVars)
    BY StepRefines DEF Refines, Abstract, Repository!repositoryVars, StableVersion, ExperimentVersion
  <1>. QED
    BY <1>1, <1>2, Recoverable, PTL DEF Spec, ImplementsRepository, Repository!RepositorySpec

=============================================================================
