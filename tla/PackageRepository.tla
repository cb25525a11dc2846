------------------------- MODULE PackageRepository -------------------------
(***************************************************************************)
(* What the repository of one package promises to a caller of GetState     *)
(* while an operation is under way, when it fails and when it is killed.   *)
(*                                                                         *)
(* SetExperiment, PromoteExperiment and DeleteExperiment are atomic: each  *)
(* has one state it may lead to, reached in one step, so that GetState     *)
(* shows the state before the operation or the state after it.  Create     *)
(* over an installed package and Delete are not: they take the experiment  *)
(* away, then the stable version, and an operation that ends there leaves  *)
(* the package without the one or without both.  What they promise is the  *)
(* order: no experiment without a stable version on the way, and a version *)
(* is installed only where nothing is left, in one step.                   *)
(***************************************************************************)
CONSTANTS Versions, None

VARIABLES
    stableVersion, experimentVersion,   \* GetState
    operation                           \* the operation under way, and its version

repositoryVars == <<stableVersion, experimentVersion, operation>>
GetState == <<stableVersion, experimentVersion>>

Idle == [kind |-> "none", version |-> None]

\* Create begins as "replace" and goes on as "create" when nothing is left.
Beginnings == {"replace", "delete", "setExperiment", "promote", "deleteExperiment", "cleanup"}

RepositoryInit == GetState = <<None, None>> /\ operation = Idle

\* The step that changes the state may be the operation's last one.
MayEnd == operation' \in {operation, Idle}

Begins(kind, v) ==
    /\ operation = Idle
    /\ operation' = [kind |-> kind, version |-> v]
    /\ UNCHANGED GetState

\* The operation is done, fails or is killed: the state stays as it is.
Ends == operation' = Idle /\ UNCHANGED GetState

\* Another version becomes the experiment, in place of an earlier one.
SetExperiment ==
    /\ operation.kind = "setExperiment"
    /\ stableVersion \notin {None, operation.version}
    /\ experimentVersion' = operation.version
    /\ MayEnd /\ UNCHANGED stableVersion

DeleteExperiment ==
    /\ operation.kind = "deleteExperiment"
    /\ experimentVersion' = None
    /\ MayEnd /\ UNCHANGED stableVersion

\* The experiment becomes stable.
PromoteExperiment ==
    /\ operation.kind = "promote"
    /\ experimentVersion # None
    /\ stableVersion' = experimentVersion
    /\ experimentVersion' = None
    /\ MayEnd

\* Create and Delete remove the experiment and then the stable version.
RemoveExperiment ==
    /\ operation.kind \in {"replace", "delete"}
    /\ experimentVersion' = None
    /\ UNCHANGED <<stableVersion, operation>>

RemoveStable ==
    /\ operation.kind \in {"replace", "delete"}
    /\ experimentVersion = None
    /\ stableVersion' = None
    /\ operation' = IF operation.kind = "replace" THEN [operation EXCEPT !.kind = "create"] ELSE operation
    /\ UNCHANGED experimentVersion

\* Create: its version becomes stable where nothing is installed.
InstallStable ==
    /\ operation.kind = "create"
    /\ GetState = <<None, None>>
    /\ stableVersion' = operation.version
    /\ MayEnd /\ UNCHANGED experimentVersion

\* Purge, from its first step on.
PurgeAll == GetState' = <<None, None>> /\ operation = Idle /\ UNCHANGED operation

RepositoryNext ==
    \/ \E kind \in Beginnings, v \in Versions : Begins(kind, v)
    \/ Ends
    \/ SetExperiment \/ DeleteExperiment \/ PromoteExperiment
    \/ RemoveExperiment \/ RemoveStable \/ InstallStable
    \/ PurgeAll

RepositorySpec == RepositoryInit /\ [][RepositoryNext]_repositoryVars
============================================================================
