-------------------------- MODULE FleetRepository --------------------------
(***************************************************************************)
(* The repository of one package of the fleet installer                    *)
(* (pkg/fleet/installer/repository, on Unix): a directory with one         *)
(* directory per version and two symbolic links, stable and experiment.    *)
(*                                                                         *)
(* Callers run one operation at a time (the installer's mutex, and the     *)
(* lock on packages.db between processes).  An operation keeps nothing in  *)
(* memory but the links it read when it began.  One action is one call     *)
(* that changes the file system: each may fail, and the process may be     *)
(* killed between any two.  A removal that is cut short leaves a           *)
(* directory with part of its files.                                       *)
(***************************************************************************)
EXTENDS Naturals, FiniteSets

CONSTANTS
    Versions,
    None,           \* no version; a link that does not exist
    ToStable,       \* the experiment link names the stable link
    Temporary,      \* the directory atomicSymlink makes in the repository
    HasHook         \* the package has a PreRemoveHook, which may refuse

ASSUME NamesAssumption ==
    /\ {None, ToStable, Temporary} \cap Versions = {}
    /\ None # ToStable /\ None # Temporary /\ ToStable # Temporary
ASSUME HookAssumption == HasHook \in BOOLEAN

VARIABLES
    root,           \* the repository's directory exists
    dir,            \* "absent", "whole" or "partial", for every entry
    stable,         \* the links on disk
    experiment,
    op              \* the operation under way

diskVars == <<root, dir, stable, experiment>>
repositoryVars == <<diskVars, op>>

Names == Versions \cup {Temporary}
Operations == {"create", "delete", "setExperiment", "promote", "deleteExperiment", "cleanup"}

\* kind and name: the call; pc: where it is; round: the cleanup it is in;
\* stable and experiment: repositoryFiles; todo: the entries cleanup has still
\* to remove; clean: no call failed and no hook refused so far.
NoOp == [kind |-> "none", name |-> None, pc |-> "idle", round |-> 1,
         stable |-> None, experiment |-> None, todo |-> {}, clean |-> TRUE]

RepositoryInit ==
    /\ root = FALSE
    /\ dir = [f \in Names |-> "absent"]
    /\ stable = None
    /\ experiment = None
    /\ op = NoOp

----------------------------------------------------------------------------
Present == {f \in Names : dir[f] # "absent"}

\* readRepository: os.Stat follows a link that exists to its package.
Readable ==
    /\ stable # None => dir[stable] # "absent"
    /\ experiment \in Versions => dir[experiment] # "absent"
    /\ experiment = ToStable => stable # None

Running(pc) == op.pc = pc
Goto(pc) == [op EXCEPT !.pc = pc]

\* An error ends the operation; one of the system's is noted in clean.
Fails == op' = [op EXCEPT !.pc = "failed", !.clean = FALSE] /\ UNCHANGED diskVars
Refuses == op' = Goto("failed") /\ UNCHANGED diskVars

\* Mutant: SetExperiment does not clean up first.
BeginWithoutCleanup(kind, name) ==
    /\ root' = (root \/ kind = "create")
    /\ op' = [NoOp EXCEPT !.kind = kind, !.name = name,
                          !.stable = stable, !.experiment = experiment,
                          !.pc = IF ~Readable THEN "failed"
                                 ELSE IF kind \in {"create", "delete"} THEN "unlinkExperiment"
                                 ELSE IF kind = "setExperiment" /\ stable # None /\ stable # name
                                 THEN "move"
                                 ELSE "migrate"]
    /\ UNCHANGED <<dir, stable, experiment>>

\* An operation begins: Create makes the directory, and all read the links.
Begin(kind, name) ==
    /\ root' = (root \/ kind = "create")
    /\ op' = [NoOp EXCEPT !.kind = kind, !.name = name,
                          !.stable = stable, !.experiment = experiment,
                          !.pc = IF ~Readable THEN "failed"
                                 ELSE IF kind \in {"create", "delete"} THEN "unlinkExperiment"
                                 ELSE "migrate"]
    /\ UNCHANGED <<dir, stable, experiment>>

----------------------------------------------------------------------------
(* The links.                                                              *)

\* atomicSymlink of the experiment link: it fails before the rename, succeeds,
\* or fails after it, when the temporary directory cannot be removed.
SetExperimentLink(target, pc) ==
    \/ Fails
    \/ /\ experiment' = target
       /\ op' = [op EXCEPT !.pc = pc, !.experiment = target]
       /\ UNCHANGED <<root, dir, stable>>
    \/ \E done \in BOOLEAN :
         /\ experiment # None
         /\ experiment' = IF done THEN target ELSE experiment
         /\ dir' = [dir EXCEPT ![Temporary] = "partial"]
         /\ op' = [op EXCEPT !.pc = "failed", !.clean = FALSE]
         /\ UNCHANGED <<root, stable>>

SetStableLink(target, pc) ==
    \/ Fails
    \/ /\ stable' = target
       /\ op' = [op EXCEPT !.pc = pc, !.stable = target]
       /\ UNCHANGED <<root, dir, experiment>>
    \/ \E done \in BOOLEAN :
         /\ stable # None
         /\ stable' = IF done THEN target ELSE stable
         /\ dir' = [dir EXCEPT ![Temporary] = "partial"]
         /\ op' = [op EXCEPT !.pc = "failed", !.clean = FALSE]
         /\ UNCHANGED <<root, experiment>>

\* Mutant: the stable link goes first.
UnlinkExperimentLast ==
    /\ Running("unlinkExperiment")
    /\ stable' = None
    /\ op' = [op EXCEPT !.pc = "unlinkStable", !.stable = None]
    /\ UNCHANGED <<root, dir, experiment>>

\* Create and Delete: experiment.Delete, then stable.Delete.
UnlinkExperiment ==
    /\ Running("unlinkExperiment")
    /\ \/ /\ experiment' = None
          /\ op' = [op EXCEPT !.pc = "unlinkStable", !.experiment = None]
          /\ UNCHANGED <<root, dir, stable>>
       \/ op.experiment # None /\ Fails

UnlinkStable ==
    /\ Running("unlinkStable")
    /\ \/ /\ stable' = None
          /\ op' = [op EXCEPT !.pc = "migrate", !.stable = None]
          /\ UNCHANGED <<root, dir, experiment>>
       \/ op.stable # None /\ Fails

----------------------------------------------------------------------------
(* cleanup.                                                                *)

\* Mutant: the migration sets the other link.
MigrateSetsStable ==
    /\ Running("migrate")
    /\ IF op.stable # None /\ op.experiment = None
         THEN SetStableLink(ToStable, "list")
         ELSE op' = Goto("list") /\ UNCHANGED diskVars

\* A repository without the experiment link is migrated.
Migrate ==
    /\ Running("migrate")
    /\ IF op.stable # None /\ op.experiment = None
         THEN SetExperimentLink(ToStable, "list")
         ELSE op' = Goto("list") /\ UNCHANGED diskVars

\* The entries that are neither a link nor the target of one.
List ==
    /\ Running("list")
    /\ \/ ~root /\ Refuses
       \/ root /\ Fails
       \/ /\ root
          /\ op' = [op EXCEPT !.pc = "remove", !.todo = Present \ {op.stable, op.experiment}]
          /\ UNCHANGED diskVars

\* One entry: the hook refuses, or RemoveAll removes it or some of it.
Remove(f) ==
    /\ Running("remove")
    /\ f \in op.todo
    /\ \/ /\ dir' = [dir EXCEPT ![f] = "absent"]
          /\ op' = [op EXCEPT !.todo = @ \ {f}]
       \/ /\ HasHook
          /\ dir' = dir
          /\ op' = [op EXCEPT !.todo = @ \ {f}, !.clean = FALSE]
       \/ /\ dir' = [dir EXCEPT ![f] = "partial"]
          /\ op' = [op EXCEPT !.todo = @ \ {f}, !.clean = FALSE]
    /\ UNCHANGED <<root, stable, experiment>>

\* What the operation does after its cleanup, with its early returns.
CleanupDone ==
    LET Continue(pc) == op' = [op EXCEPT !.pc = pc, !.round = 2]
        both == op.stable # None /\ op.experiment # None
        first(kind) == op.kind = kind /\ op.round = 1
        same == op.name \in {op.stable, op.experiment}
        nothing == op.experiment \in {ToStable, op.stable}
    IN /\ Running("remove")
       /\ op.todo = {}
       /\ \/ op.kind = "create" /\ Continue("move")
          \/ op.kind = "delete" /\ Continue("removeRoot")
          \/ op.kind \notin {"create", "delete"} /\ (op.kind = "cleanup" \/ op.round = 2) /\ Continue("done")
          \/ first("setExperiment") /\ Continue(IF both /\ ~same THEN "move" ELSE "failed")
          \/ first("promote") /\ Continue(IF both /\ ~nothing THEN "promote" ELSE "failed")
          \/ first("deleteExperiment") /\ Continue(IF both THEN "unset" ELSE "failed")
       /\ UNCHANGED diskVars

----------------------------------------------------------------------------
(* The operations after their cleanup.                                     *)

\* movePackageFromSource: the version must not be there; os.Rename may fail.
MovePackage ==
    /\ Running("move")
    /\ \/ dir[op.name] # "absent" /\ Refuses
       \/ dir[op.name] = "absent" /\ Fails
       \/ /\ dir[op.name] = "absent"
          /\ dir' = [dir EXCEPT ![op.name] = "whole"]
          /\ op' = Goto(IF op.kind = "create" THEN "setStable" ELSE "setExperiment")
          /\ UNCHANGED <<root, stable, experiment>>

\* Create: setStable, then setExperimentToStable.
CreateSetStable == Running("setStable") /\ SetStableLink(op.name, "unset")

\* SetExperiment: setExperiment.
SetExperiment == Running("setExperiment") /\ SetExperimentLink(op.name, "done")

\* Mutant: the experiment is promoted by way of its removal.
PromoteRemovesFirst ==
    /\ Running("promote")
    /\ \/ stable = op.stable /\ stable' = None /\ op' = op /\ UNCHANGED <<root, dir, experiment>>
       \/ stable = None /\ SetStableLink(op.experiment, "migrate")

\* PromoteExperiment: the stable link is set to the experiment's package; the
\* experiment link stays in place.
PromoteExperiment == Running("promote") /\ SetStableLink(op.experiment, "migrate")

\* Mutant: DeleteExperiment does not clean up again.
SetExperimentToStableOnly == Running("unset") /\ SetExperimentLink(ToStable, "done")

\* DeleteExperiment, and the end of Create: setExperimentToStable.
SetExperimentToStable ==
    /\ Running("unset")
    /\ SetExperimentLink(ToStable, IF op.kind = "create" THEN "done" ELSE "migrate")

\* Delete: the directory is removed when it is empty.
RemoveRoot ==
    /\ Running("removeRoot")
    /\ \/ Present # {} /\ Refuses
       \/ Present = {} /\ Fails
       \/ /\ Present = {}
          /\ root' = FALSE
          /\ op' = Goto("done")
          /\ UNCHANGED <<dir, stable, experiment>>

Step ==
    \/ UnlinkExperiment \/ UnlinkStable
    \/ Migrate \/ List \/ CleanupDone \/ \E f \in Names : Remove(f)
    \/ MovePackage \/ CreateSetStable \/ SetExperiment \/ PromoteExperiment
    \/ SetExperimentToStable \/ RemoveRoot

\* Every variable of the repository has its type.
RepositoryTypeOK ==
    /\ root \in BOOLEAN
    /\ dir \in [Names -> {"absent", "whole", "partial"}]
    /\ stable \in Versions \cup {None}
    /\ experiment \in Versions \cup {None, ToStable}
    /\ op \in [kind : Operations \cup {"none"}, name : Versions \cup {None},
               pc : {"idle", "failed", "done", "unlinkExperiment", "unlinkStable", "migrate", "list",
                     "remove", "move", "setStable", "setExperiment", "promote", "unset", "removeRoot"},
               round : {1, 2}, stable : Versions \cup {None},
               experiment : Versions \cup {None, ToStable}, todo : SUBSET Names, clean : BOOLEAN]

\* GetState.
StateStable == stable
StateExperiment == IF experiment \in {ToStable, stable} THEN None ELSE experiment
============================================================================
