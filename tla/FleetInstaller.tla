-------------------------- MODULE FleetInstaller ---------------------------
(***************************************************************************)
(* The package operations of the fleet installer (pkg/fleet/installer,     *)
(* installer.go) over the repository of one package and its entry in       *)
(* packages.db: install, experiment, promotion, removal, garbage           *)
(* collection and purge, each a sequence of steps that may fail or be cut  *)
(* short by a crash (the hooks of the agent's own package stop the process *)
(* that runs them).  Hooks, downloads and extraction are external: they    *)
(* succeed or fail.                                                        *)
(***************************************************************************)
EXTENDS FleetRepository

VARIABLES
    db,             \* the version packages.db holds
    call,           \* the installer's operation under way
    unsettled,      \* history: a Promote, Remove or Purge has begun its operation on
                    \* the repository (its first change of a link comes a little
                    \* later) and the entry in packages.db was not written since
    wreck           \* history: a Purge has begun to remove the repository, and
                    \* neither it nor a later install has ended

vars == <<repositoryVars, db, call, unsettled, wreck>>

NoCall == [name |-> "none", pc |-> "idle", version |-> None]
Calls == {"install", "forceInstall", "installExperiment", "removeExperiment",
          "promoteExperiment", "installConfigExperiment", "remove", "garbageCollect", "purge"}

Init ==
    /\ RepositoryInit
    /\ db = None
    /\ call = NoCall
    /\ unsettled = FALSE
    /\ wreck = FALSE

----------------------------------------------------------------------------
At(name, pc) == call.name \in name /\ call.pc = pc
To(pc) == call' = [call EXCEPT !.pc = pc]
Return == call' = NoCall
Installing == {"install", "forceInstall"}

\* The operation of the repository that a call makes.
RepositoryCall(name) ==
    CASE name \in Installing -> "create"
      [] name = "installExperiment" -> "setExperiment"
      [] name \in {"removeExperiment", "installConfigExperiment"} -> "deleteExperiment"
      [] name = "promoteExperiment" -> "promote"
      [] name = "remove" -> "delete"
      [] name = "garbageCollect" -> "cleanup"

\* A call begins; what it does before it changes anything (the download, the
\* pre hooks, the disk space) may end it.
CallBegins(name, v) ==
    /\ call = NoCall
    /\ call' = [name |-> name, pc |-> "before", version |-> v]
    /\ UNCHANGED <<repositoryVars, db, unsettled, wreck>>

CallAbandoned ==
    /\ call.pc = "before"
    /\ Return
    /\ UNCHANGED <<repositoryVars, db, unsettled, wreck>>

\* Install: a version packages.db holds is not installed again.
InstallSkipped ==
    /\ At({"install"}, "before")
    /\ db = call.version
    /\ Return
    /\ UNCHANGED <<repositoryVars, db, unsettled, wreck>>

\* Mutant: the entry stays until it is overwritten.
InstallKeepsEntry ==
    /\ At(Installing, "before")
    /\ call.name = "install" => db # call.version
    /\ To("extracted")
    /\ UNCHANGED <<repositoryVars, db, unsettled, wreck>>

\* doInstall: the entry is deleted before the package is extracted.
InstallDeletesEntry ==
    /\ At(Installing, "before")
    /\ call.name = "install" => db # call.version
    /\ db' = None
    /\ unsettled' = FALSE
    /\ To("extracted")
    /\ UNCHANGED <<repositoryVars, wreck>>

\* ExtractLayers fails.
ExtractFails ==
    /\ At(Installing, "extracted")
    /\ Return
    /\ UNCHANGED <<repositoryVars, db, unsettled, wreck>>

\* RemoveExperiment and PromoteExperiment read the state first.
NoExperiment ==
    /\ At({"removeExperiment", "promoteExperiment"}, "before")
    /\ ~Readable \/ StateExperiment = None
    /\ Return
    /\ UNCHANGED <<repositoryVars, db, unsettled, wreck>>

\* The repository's operation begins.
RepositoryBegins ==
    /\ \/ At(Installing, "extracted")
       \/ At({"removeExperiment", "promoteExperiment"}, "before") /\ Readable /\ StateExperiment # None
       \/ At({"installExperiment", "installConfigExperiment", "remove", "garbageCollect"}, "before")
    /\ Begin(RepositoryCall(call.name), call.version)
    /\ To("repository")
    /\ unsettled' = (unsettled \/ call.name \in {"promoteExperiment", "remove"})
    /\ UNCHANGED <<db, wreck>>

RepositoryStep ==
    /\ call.pc = "repository"
    /\ Step
    /\ wreck' = (wreck /\ ~(op.kind = "create" /\ op'.pc = "done"))
    /\ UNCHANGED <<db, call, unsettled>>

RepositoryFailed ==
    /\ call.pc = "repository" /\ op.pc = "failed"
    /\ op' = NoOp
    /\ Return
    /\ UNCHANGED <<diskVars, db, unsettled, wreck>>

\* The calls that go on after the repository's operation: a hook of
\* PromoteExperiment or of the installation, the extensions of a removal.
RepositoryDone ==
    /\ call.pc = "repository" /\ op.pc = "done"
    /\ op' = NoOp
    /\ IF call.name \in Installing \cup {"promoteExperiment", "remove"} THEN To("after") ELSE Return
    /\ UNCHANGED <<diskVars, db, unsettled, wreck>>

HookFails ==
    /\ call.pc = "after"
    /\ Return
    /\ UNCHANGED <<repositoryVars, db, unsettled, wreck>>

\* The entry is written: the version installed, the state's stable version
\* after a promotion, or its removal.
EntryWritten ==
    /\ call.pc = "after"
    /\ db' = IF call.name \in Installing THEN call.version
             ELSE IF call.name = "remove" THEN None
             ELSE StateStable
    /\ unsettled' = FALSE
    /\ Return
    /\ UNCHANGED <<repositoryVars, wreck>>

----------------------------------------------------------------------------
(* Purge: packages.db is removed, or a warning is logged, and then         *)
(* everything in the packages directory, in no particular order.           *)

PurgeEntry ==
    /\ At({"purge"}, "before")
    /\ \E removed \in BOOLEAN :
         /\ db' = IF removed THEN None ELSE db
         /\ unsettled' = (~removed /\ db # None)
    /\ To("purging")
    /\ wreck' = TRUE
    /\ UNCHANGED repositoryVars

\* RemoveAll: one link, or one directory or some of its files.
PurgeRemoves ==
    /\ At({"purge"}, "purging")
    /\ \/ experiment' = None /\ UNCHANGED <<dir, stable>>
       \/ stable' = None /\ UNCHANGED <<dir, experiment>>
       \/ \E f \in Present, left \in {"absent", "partial"} :
            dir' = [dir EXCEPT ![f] = left] /\ UNCHANGED <<stable, experiment>>
    /\ UNCHANGED <<root, op, db, call, unsettled, wreck>>

\* RemoveAll ends: everything is gone, or an error is logged.
PurgeEnds ==
    LET gone == Present = {} /\ stable = None /\ experiment = None
    IN /\ At({"purge"}, "purging")
       /\ root' = (root /\ ~gone)
       /\ wreck' = ~gone
       /\ Return
       /\ UNCHANGED <<dir, stable, experiment, op, db, unsettled>>

----------------------------------------------------------------------------
\* The process is killed.
Crash ==
    /\ call # NoCall
    /\ call' = NoCall
    /\ op' = NoOp
    /\ UNCHANGED <<diskVars, db, unsettled, wreck>>

Next ==
    \/ \E name \in Calls, v \in Versions : CallBegins(name, v)
    \/ CallAbandoned \/ InstallSkipped \/ InstallDeletesEntry \/ ExtractFails \/ NoExperiment
    \/ RepositoryBegins \/ RepositoryStep \/ RepositoryFailed \/ RepositoryDone
    \/ HookFails \/ EntryWritten
    \/ PurgeEntry \/ PurgeRemoves \/ PurgeEnds
    \/ Crash

Spec == Init /\ [][Next]_vars

----------------------------------------------------------------------------
(* Properties.                                                             *)

\* Every variable has its type.
TypeOK ==
    /\ RepositoryTypeOK
    /\ db \in Versions \cup {None}
    /\ call \in [name : Calls \cup {"none"}, version : Versions \cup {None},
                 pc : {"idle", "before", "extracted", "repository", "after", "purging"}]
    /\ unsettled \in BOOLEAN /\ wreck \in BOOLEAN

\* A link that exists leads to a package with all its files.
LinksWhole ==
    /\ stable # None => dir[stable] = "whole"
    /\ experiment \in Versions => dir[experiment] = "whole"
    /\ experiment = ToStable => stable # None

\* repository.go: "All the functions of the repository are "atomic" and ensure
\* no invalid state can be reached even if an error happens during their
\* execution."  Whatever fails and wherever the process is killed, a link on
\* disk leads to a package with all its files; a link that does not makes
\* every later operation fail, Create and Delete too.
LinksResolve == ~wreck => LinksWhole

\* Recovery: an operation that meets no error of the system and no refusal of
\* a hook succeeds whatever an earlier operation left behind, unless what it
\* asks is impossible: an experiment without a stable version or of the same
\* version, or a repository that does not exist.  "It is possible to end up
\* with garbage left on disk [...].  This is cleaned up during the next
\* operation."
FailsForCause ==
    op.pc = "failed" /\ op.clean /\ ~wreck =>
        \/ op.kind \in {"delete", "cleanup"} /\ ~root
        \/ op.kind \in {"setExperiment", "promote", "deleteExperiment"} /\ stable = None
        \/ op.kind = "setExperiment" /\ op.name \in {stable, experiment}
        \/ op.kind = "promote" /\ StateExperiment = None

\* Garbage: an operation that ends without an error or refusal leaves only
\* the packages the links name; SetExperiment also the experiment it replaced.
NoGarbage ==
    op.pc = "done" /\ op.clean =>
        \/ Present \subseteq {stable, experiment}
        \/ op.kind = "setExperiment" /\ Cardinality(Present \ {stable, experiment}) = 1

\* packages.db is the installer's "source of truth" of what is installed: a
\* version it holds is the stable version, except from the moment a promotion
\* or a removal begins its operation on the repository, or a purge starts, to
\* the next write of the entry.
EntryIsStable == db # None /\ ~unsettled => stable = db

\* Purge: "Any stale repository files will simply be removed by the next
\* Install": no Create fails because it cannot read what is left.
InstallAfterPurge == ~(op.kind = "create" /\ op.pc = "failed" /\ op.clean /\ op.round = 1)

\* The operation of the abstract repository: none once it has failed or is
\* done, and Create is a replacement until it has removed both links.
Operation ==
    IF op.pc \in {"idle", "failed", "done"} THEN [kind |-> "none", version |-> None]
    ELSE [kind |-> IF op.kind = "create" /\ op.pc \in {"unlinkExperiment", "unlinkStable"}
                     THEN "replace" ELSE op.kind,
          version |-> op.name]

\* Every file system call, also one that fails or is the last before the
\* process is killed, is one step of the abstract repository or none.  So
\* GetState shows SetExperiment, PromoteExperiment and DeleteExperiment done or
\* not done, never in between.  Create over an installed package and Delete it
\* shows in between, without experiment and then without any version, and when
\* they fail or are killed there it stays so; Create then installs its version
\* in one step, with nothing of the old package left.  A cleanup changes
\* nothing, and nothing changes between operations but by a purge.
Repository == INSTANCE PackageRepository WITH
    stableVersion <- IF wreck THEN None ELSE StateStable,
    experimentVersion <- IF wreck THEN None ELSE StateExperiment,
    operation <- Operation
ImplementsRepository == Repository!RepositorySpec
============================================================================
