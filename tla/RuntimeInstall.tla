--------------------------- MODULE RuntimeInstall ---------------------------
(***************************************************************************)
(* The directories of one Runtime: <version>, .<version>.fabdev-backup,    *)
(* .staging/<name>-<version>, the current link and the .removed markers,   *)
(* and the operations of the Agent and the Desktop that change them, one   *)
(* file-system call per action.  A call may fail, and the process may die  *)
(* between two calls; directories survive, the job at hand does not.       *)
(*                                                                         *)
(* The Agent's lifecycle lock serialises its operations, so one job at a   *)
(* time is at hand.  The Desktop's installation of what it brings along is *)
(* a job here too; it does not hold that lock, and its overlap with those  *)
(* of the Agent is in BundledRuntimes.  Reading the archive, the health    *)
(* checks and the service configuration are outcomes (ok or not), not data.*)
(***************************************************************************)
EXTENDS Naturals, FiniteSets

CONSTANTS
  Versions,      \* versions of the Runtime
  Catalog,       \* contents of an online install: a package with its receipt
  Local,         \* contents of a manual or built-in install, without a receipt
  Bundled,       \* versions the Desktop brings along
  BundledPackage,
  AtomicSwitch,  \* TRUE: a rename replaces the link (Unix); FALSE: it is removed first
  Absent, Torn, Scraps, NoVersion, NoJob

Packages == Catalog \cup Local

ASSUME PackageAssumption ==
  /\ {Absent, Torn, Scraps} \cap Packages = {}
  /\ Torn # Absent /\ Scraps # Absent
  /\ BundledPackage \in Local
ASSUME VersionAssumption == NoVersion \notin Versions /\ Bundled \subseteq Versions
ASSUME SwitchAssumption == AtomicSwitch \in BOOLEAN

VARIABLES
  runtime,   \* which Runtime this is: it decides on activation and markers
  root,      \* root[v]: what <runtimes>/<name>/<v> holds
  backup,    \* backup[v]: what .<v>.fabdev-backup holds
  staging,   \* staging[v]: what .staging/<name>-<v> holds
  current,   \* target of the active link
  removed,   \* versions with a .removed marker
  step,      \* the next call of the job at hand
  job,       \* the job's arguments and what it read before it began
  owned,     \* history: versions installed and not removed since
  wounded    \* history: a crash hit a job, a recovery failed, or an install
             \* that is never rolled back failed after its move

disk == <<root, backup, staging, current, removed>>
history == <<owned, wounded>>
vars == <<runtime, disk, step, job, history>>

RollbackSteps == {"rollback", "emptying", "emptied", "tidying", "relinking", "remarking"}
InstallSteps == {"staging", "staged", "moving", "moved", "switch", "clear",
                 "installed", "commit", "committing"}
Steps == {"idle", "undo", "remove", "removing"} \cup InstallSteps \cup RollbackSteps
Kinds == {"online", "manual", "bundled", "select", "remove"}
Jobs == [kind : Kinds, version : Versions, package : Packages, activate : BOOLEAN,
         replacing : BOOLEAN, activeBefore : Versions \cup {NoVersion}, marked : BOOLEAN]

ASSUME JobAssumption == NoJob \notin Jobs

Whole(contents) == contents \in Packages
Present(v) == root[v] # Absent

\* active_version() succeeds: no link, or one to a version directory.
LinkReadable == current \in {v \in Versions : Present(v)} \cup {NoVersion}

Begin(kind, v, p, activate) ==
  /\ step = "idle"
  /\ job' = [kind |-> kind, version |-> v, package |-> p, activate |-> activate,
             replacing |-> Present(v), activeBefore |-> current, marked |-> v \in removed]

End == step' = "idle" /\ job' = NoJob

Go(next) == step' = next /\ job' = job

Init ==
  /\ runtime \in {"php", "node", "mariadb"}
  /\ root \in [Versions -> {Absent, BundledPackage}]
  /\ current \in {v \in Versions : root[v] # Absent} \cup {NoVersion}
  /\ backup = [v \in Versions |-> Absent]
  /\ staging = [v \in Versions |-> Absent]
  /\ removed = {}
  /\ step = "idle"
  /\ job = NoJob
  /\ owned = {v \in Versions : root[v] # Absent}
  /\ wounded = FALSE

-----------------------------------------------------------------------------
(* Beginning an install.  A refused request changes nothing.               *)

\* The receipt tells whether the version is already this package.
BeginOnline(v, p) ==
  /\ LinkReadable
  /\ backup[v] = Absent
  /\ root[v] # p
  /\ Begin("online", v, p, runtime = "mariadb")
  /\ staging' = [staging EXCEPT ![v] = Scraps]
  /\ step' = "staging"
  /\ UNCHANGED <<runtime, root, backup, current, removed, history>>

\* Import from a local file: PHP activates the first version only.
BeginManual(v, p) ==
  /\ runtime = "php" => LinkReadable
  /\ ~Present(v)
  /\ Begin("manual", v, p,
           runtime = "mariadb" \/ (runtime = "php" /\ current = NoVersion))
  /\ staging' = [staging EXCEPT ![v] = Scraps]
  /\ step' = "staging"
  /\ UNCHANGED <<runtime, root, backup, current, removed, history>>

\* should_install_bundled_runtime, when the Desktop starts.
BeginBundled(v) ==
  /\ v \in Bundled \ removed
  /\ ~Present(v)
  /\ Begin("bundled", v, BundledPackage, FALSE)
  /\ staging' = [staging EXCEPT ![v] = Scraps]
  /\ step' = "staging"
  /\ UNCHANGED <<runtime, root, backup, current, removed, history>>

-----------------------------------------------------------------------------
(* Installing: extract, move the old version aside, move the new one in.   *)

Stage ==
  /\ step = "staging"
  /\ staging' = [staging EXCEPT ![job.version] = job.package]
  /\ Go("staged")
  /\ UNCHANGED <<runtime, root, backup, current, removed, history>>

\* Fault: a failed health check does not end the job.
StageFailsOpen(cleaned) ==
  /\ step = "staging"
  /\ staging' = [staging EXCEPT ![job.version] = IF cleaned THEN Absent ELSE Scraps]
  /\ wounded' = (wounded \/ ~cleaned)
  /\ step' = "idle"
  /\ UNCHANGED <<runtime, root, backup, current, removed, job, owned>>

\* A bad archive or a failed health check: the staging directory is removed.
StageFails(cleaned) ==
  /\ step = "staging"
  /\ staging' = [staging EXCEPT ![job.version] = IF cleaned THEN Absent ELSE Scraps]
  /\ wounded' = (wounded \/ ~cleaned)
  /\ End
  /\ UNCHANGED <<runtime, root, backup, current, removed, owned>>

\* Fault: the old version is deleted, not moved aside.
DeleteOld ==
  /\ step = "staged"
  /\ job.replacing
  /\ root' = [root EXCEPT ![job.version] = Absent]
  /\ Go("moving")
  /\ UNCHANGED <<runtime, backup, staging, current, removed, history>>

MoveOldAside ==
  /\ step = "staged"
  /\ job.replacing
  /\ backup' = [backup EXCEPT ![job.version] = root[job.version]]
  /\ root' = [root EXCEPT ![job.version] = Absent]
  /\ Go("moving")
  /\ UNCHANGED <<runtime, staging, current, removed, history>>

\* The error is returned at once; the staged package stays where it is.
MoveOldAsideFails ==
  /\ step = "staged"
  /\ job.replacing
  /\ End
  /\ UNCHANGED <<runtime, disk, history>>

ReadyToMoveIn == step = "moving" \/ (step = "staged" /\ ~job.replacing)

MoveNewIn ==
  /\ ReadyToMoveIn
  /\ root' = [root EXCEPT ![job.version] = job.package]
  /\ staging' = [staging EXCEPT ![job.version] = Scraps]
  /\ Go("moved")
  /\ UNCHANGED <<runtime, backup, current, removed, history>>

\* An online install moves the old version back and removes the staging
\* directory; both may fail too.  The other installs leave the staged package.
MoveNewInFails(movedBack, cleaned) ==
  /\ ReadyToMoveIn
  /\ LET v == job.version
         online == job.kind = "online"
         restore == job.replacing /\ movedBack
     IN
       /\ root' = IF restore THEN [root EXCEPT ![v] = backup[v]] ELSE root
       /\ backup' = IF restore THEN [backup EXCEPT ![v] = Absent] ELSE backup
       /\ staging' = IF online THEN [staging EXCEPT ![v] = IF cleaned THEN Absent ELSE Scraps]
                               ELSE staging
       /\ wounded' = (wounded \/ (online /\ ~cleaned) \/ (job.replacing /\ ~movedBack))
  /\ End
  /\ UNCHANGED <<runtime, current, removed, owned>>

Tidy ==
  /\ step = "moved"
  /\ staging' = [staging EXCEPT ![job.version] = Absent]
  /\ Go(IF job.activate THEN "switch" ELSE "clear")
  /\ UNCHANGED <<runtime, root, backup, current, removed, history>>

\* Windows removes the link before it renames the pending one over it.
Unlink ==
  /\ ~AtomicSwitch
  /\ step \in {"switch", "relinking"}
  /\ current # NoVersion
  /\ current' = NoVersion
  /\ UNCHANGED <<runtime, root, backup, staging, removed, step, job, history>>

SwitchCurrent ==
  /\ step = "switch"
  /\ job.kind # "select"
  /\ current' = job.version
  /\ Go("clear")
  /\ UNCHANGED <<runtime, root, backup, staging, removed, history>>

\* An online install is complete but not yet accepted by its caller; the
\* other installs are done.
ClearMarker ==
  /\ step = "clear"
  /\ removed' = removed \ {job.version}
  /\ IF job.kind = "online"
       THEN /\ Go("installed")
            /\ UNCHANGED owned
       ELSE /\ End
            /\ owned' = owned \cup {job.version}
  /\ UNCHANGED <<runtime, root, backup, staging, current, wounded>>

\* A call after the move fails: an online install is rolled back, another
\* one stays installed and is reported as failed.
FinishFails ==
  /\ step \in {"moved", "switch", "clear"}
  /\ job.kind # "select"
  /\ IF job.kind = "online" THEN Go("rollback") ELSE End
  /\ wounded' = (wounded \/ job.kind # "online")
  /\ UNCHANGED <<runtime, disk, owned>>

-----------------------------------------------------------------------------
(* The caller of an online install decides: commit or roll back.           *)

\* Fault: the backup of the replaced version is not removed.
AcceptOnly ==
  /\ step = "installed"
  /\ owned' = owned \cup {job.version}
  /\ End
  /\ UNCHANGED <<runtime, disk, wounded>>

Accept ==
  /\ step = "installed"
  /\ owned' = owned \cup {job.version}
  /\ IF job.replacing THEN Go("commit") ELSE End
  /\ UNCHANGED <<runtime, disk, wounded>>

\* The service check, the active version check or the restart failed.
Reject ==
  /\ step = "installed"
  /\ Go("rollback")
  /\ UNCHANGED <<runtime, disk, history>>

\* The updated MariaDB could not be stopped again: neither commit nor rollback.
Abandon ==
  /\ step = "installed"
  /\ runtime = "mariadb"
  /\ owned' = owned \cup {job.version}
  /\ wounded' = TRUE
  /\ End
  /\ UNCHANGED <<runtime, disk>>

\* remove_dir_all deletes file by file.
CommitBegins ==
  /\ step = "commit"
  /\ backup' = [backup EXCEPT ![job.version] = Torn]
  /\ Go("committing")
  /\ UNCHANGED <<runtime, root, staging, current, removed, history>>

CommitEnds ==
  /\ step = "committing"
  /\ backup' = [backup EXCEPT ![job.version] = Absent]
  /\ End
  /\ UNCHANGED <<runtime, root, staging, current, removed, history>>

CommitFails ==
  /\ step \in {"commit", "committing"}
  /\ wounded' = TRUE
  /\ End
  /\ UNCHANGED <<runtime, disk, owned>>

RollbackTearsRoot ==
  /\ step = "rollback"
  /\ root' = [root EXCEPT ![job.version] = Torn]
  /\ Go("emptying")
  /\ UNCHANGED <<runtime, backup, staging, current, removed, history>>

RollbackEmptiesRoot ==
  /\ step = "emptying"
  /\ root' = [root EXCEPT ![job.version] = Absent]
  /\ Go("emptied")
  /\ UNCHANGED <<runtime, backup, staging, current, removed, history>>

RollbackRestoresRoot ==
  /\ step = "emptied"
  /\ IF job.replacing
       THEN /\ root' = [root EXCEPT ![job.version] = backup[job.version]]
            /\ backup' = [backup EXCEPT ![job.version] = Absent]
       ELSE UNCHANGED <<root, backup>>
  /\ Go("tidying")
  /\ UNCHANGED <<runtime, staging, current, removed, history>>

RollbackTidies ==
  /\ step = "tidying"
  /\ staging' = [staging EXCEPT ![job.version] = Absent]
  /\ Go("relinking")
  /\ UNCHANGED <<runtime, root, backup, current, removed, history>>

\* Fault: a Runtime without an active version keeps the new link.
RollbackRelinksSome ==
  /\ step = "relinking"
  /\ current' = IF job.activeBefore = NoVersion THEN current ELSE job.activeBefore
  /\ Go("remarking")
  /\ UNCHANGED <<runtime, root, backup, staging, removed, history>>

\* Once in the transaction, and once more by the caller's restore_active_runtime.
RollbackRelinks ==
  /\ step = "relinking"
  /\ current' = job.activeBefore
  /\ Go("remarking")
  /\ UNCHANGED <<runtime, root, backup, staging, removed, history>>

\* Fault: the removal marker the install cleared is not written again.
RollbackForgetsMarker ==
  /\ step = "remarking"
  /\ End
  /\ UNCHANGED <<runtime, disk, history>>

RollbackRemarks ==
  /\ step = "remarking"
  /\ removed' = IF job.marked THEN removed \cup {job.version} ELSE removed
  /\ End
  /\ UNCHANGED <<runtime, root, backup, staging, current, history>>

RollbackFails ==
  /\ step \in RollbackSteps
  /\ wounded' = TRUE
  /\ End
  /\ UNCHANGED <<runtime, disk, owned>>

-----------------------------------------------------------------------------
(* Selecting and removing a version.                                       *)

\* SetGlobalPhp and SetGlobalNode; the Desktop selects a built-in version of
\* a Runtime that has no active one.
BeginSelect(v) ==
  /\ runtime # "php" => LinkReadable
  /\ runtime = "mariadb" => current = NoVersion
  /\ Present(v)
  /\ Begin("select", v, BundledPackage, TRUE)
  /\ step' = "switch"
  /\ UNCHANGED <<runtime, disk, history>>

\* For Node.js the terminal integration follows, and may undo the selection.
Selected ==
  /\ step = "switch"
  /\ job.kind = "select"
  /\ current' = job.version
  /\ IF runtime = "node" THEN Go("undo") ELSE End
  /\ UNCHANGED <<runtime, root, backup, staging, removed, history>>

SelectFails ==
  /\ step = "switch"
  /\ job.kind = "select"
  /\ End
  /\ UNCHANGED <<runtime, disk, history>>

TerminalEnabled(ok) ==
  /\ step = "undo"
  /\ current' = IF ok THEN current ELSE job.activeBefore
  /\ End
  /\ UNCHANGED <<runtime, root, backup, staging, removed, history>>

\* PHP writes the marker first; Node.js and MariaDB unlink an active version
\* first, and MariaDB removes no other version.
BeginRemove(v) ==
  /\ runtime # "php" => LinkReadable /\ Present(v)
  /\ runtime = "mariadb" => current = v
  /\ Begin("remove", v, BundledPackage, current = v)
  /\ removed' = IF runtime = "php" THEN removed \cup {v} ELSE removed
  /\ current' = IF runtime # "php" /\ current = v THEN NoVersion ELSE current
  /\ step' = "remove"
  /\ UNCHANGED <<runtime, root, backup, staging, history>>

Removable == LinkReadable /\ current # job.version /\ Present(job.version)

RemovalTearsRoot ==
  /\ step = "remove"
  /\ Removable
  /\ root' = [root EXCEPT ![job.version] = Torn]
  /\ owned' = owned \ {job.version}
  /\ Go("removing")
  /\ UNCHANGED <<runtime, backup, staging, current, removed, wounded>>

RemovalEnds ==
  /\ step = "removing"
  /\ root' = [root EXCEPT ![job.version] = Absent]
  /\ End
  /\ UNCHANGED <<runtime, backup, staging, current, removed, owned, wounded>>

\* The removal is refused or fails: PHP drops the marker again, the others
\* select the version again.
RemovalFails ==
  /\ step \in {"remove", "removing"}
  /\ removed' = IF runtime = "php" THEN removed \ {job.version} ELSE removed
  /\ current' = IF runtime # "php" /\ job.activate THEN job.version ELSE current
  /\ wounded' = (wounded \/ step = "removing")
  /\ End
  /\ UNCHANGED <<runtime, root, backup, staging, owned>>

\* The Agent or the Desktop dies in the middle of a job.
Crash ==
  /\ step # "idle"
  /\ wounded' = TRUE
  /\ End
  /\ UNCHANGED <<runtime, disk, owned>>

-----------------------------------------------------------------------------
Request ==
  \E v \in Versions :
    \/ BeginBundled(v) \/ BeginSelect(v) \/ BeginRemove(v)
    \/ \E p \in Catalog : BeginOnline(v, p)
    \/ \E p \in Local : BeginManual(v, p)

Installing ==
  \/ Stage \/ MoveOldAside \/ MoveOldAsideFails \/ MoveNewIn
  \/ \E cleaned \in BOOLEAN :
       \/ StageFails(cleaned)
       \/ \E movedBack \in BOOLEAN : MoveNewInFails(movedBack, cleaned)
  \/ Tidy \/ Unlink \/ SwitchCurrent \/ ClearMarker \/ FinishFails

Concluding ==
  \/ Accept \/ Reject \/ Abandon
  \/ CommitBegins \/ CommitEnds \/ CommitFails
  \/ RollbackTearsRoot \/ RollbackEmptiesRoot \/ RollbackRestoresRoot
  \/ RollbackTidies \/ RollbackRelinks \/ RollbackRemarks \/ RollbackFails

Managing ==
  \/ Selected \/ SelectFails
  \/ \E ok \in BOOLEAN : TerminalEnabled(ok)
  \/ RemovalTearsRoot \/ RemovalEnds \/ RemovalFails

Next == Request \/ Installing \/ Concluding \/ Managing \/ Crash

Spec == Init /\ [][Next]_vars
-----------------------------------------------------------------------------
(* Properties.                                                             *)

\* Every directory, link and job has one of the forms the code gives it.
TypeOK ==
  /\ runtime \in {"php", "node", "mariadb"}
  /\ root \in [Versions -> Packages \cup {Absent, Torn}]
  /\ backup \in [Versions -> Packages \cup {Absent, Torn}]
  /\ staging \in [Versions -> Packages \cup {Absent, Scraps}]
  /\ current \in Versions \cup {NoVersion}
  /\ removed \subseteq Versions
  /\ step \in Steps
  /\ IF step = "idle" THEN job = NoJob ELSE job \in Jobs
  /\ owned \subseteq Versions
  /\ wounded \in BOOLEAN

\* No crash and no failing call ever costs the user an installed version: a
\* whole copy of it, old or new, is in its directory or in its backup.
NothingLost == \A v \in owned : Whole(root[v]) \/ Whole(backup[v])

\* Between jobs no backup stands in the way of the next update of a version
\* (ReplacementBackupExists), unless a crash or a failed recovery left it.
UpdatesNotBlocked ==
  step = "idle" /\ ~wounded => \A v \in Versions : backup[v] = Absent

\* Between jobs the active link names a whole version or is absent, whatever
\* installs, rollbacks, selections and removals came before.
ActiveLinkValid ==
  step = "idle" /\ ~wounded =>
    current \in {v \in Versions : Whole(root[v])} \cup {NoVersion}

\* The request to remove a version that is not there: its marker is cleared
\* with the failure, also one that an earlier removal has left.
RemovesNothing == job # NoJob /\ job.kind = "remove" /\ ~job.replacing

\* The online install in progress has changed directories and is not accepted.
Undecided ==
  /\ step \in {"moving", "moved", "switch", "clear", "installed"} \cup RollbackSteps
  /\ job.kind = "online"

\* The version's directory is out of its place, or is the new one that may have
\* to make room for the old one again.
Displaced(v) ==
  /\ step \in {"moving", "moved", "switch", "clear", "installed",
               "rollback", "emptying", "emptied"}
  /\ job.kind = "online" /\ v = job.version

\* What the job can still put back of a version.
Kept(v) == IF ~Displaced(v) THEN root[v] ELSE IF job.replacing THEN backup[v] ELSE Absent

\* What the user has of each version, which version is selected and which
\* removals are remembered: an undecided install has not happened yet.
Shown == [v \in Versions |-> IF Whole(Kept(v)) THEN Kept(v) ELSE Absent]
Chosen == IF Undecided THEN job.activeBefore ELSE current
Forgotten == IF Undecided /\ job.marked THEN removed \cup {job.version} ELSE removed

\* Until a crash or a failed recovery wounds them, the directories implement
\* RuntimeStore: an online install is one atomic change of package, selection
\* and marker, and a rejected one leaves all three as before.
Store == INSTANCE RuntimeStore WITH
  installed <- Shown, selected <- Chosen, forgotten <- Forgotten
StoreSpec ==
  Store!Init /\ [][Store!Next \/ wounded' \/ RemovesNothing \/ RemovesNothing']_(Store!svars)
-----------------------------------------------------------------------------
(* The inductive invariant behind NothingLost and UpdatesNotBlocked.       *)

Installs == {"online", "manual", "bundled"}

\* Each step belongs to the kinds of job that take it; only an online install
\* replaces a version.
StepFitsJob ==
  /\ step \in {"moving", "installed", "commit", "committing"} \cup RollbackSteps =>
       job.kind = "online"
  /\ step \in {"staging", "staged", "moved", "clear"} => job.kind \in Installs
  /\ step = "switch" => job.kind \in Installs \cup {"select"}
  /\ step = "undo" => job.kind = "select"
  /\ step \in {"remove", "removing"} => job.kind = "remove"
  /\ step \in {"moving", "commit", "committing"} => job.replacing
  /\ step # "idle" /\ job.kind \in {"manual", "bundled"} => ~job.replacing

\* The package was moved in and is not being rolled back.
MovedIn ==
  /\ step \in {"moved", "switch", "clear", "installed", "commit", "committing"}
  /\ job.kind # "select"

\* What an online install may take back: its version is either not the
\* user's, or whole in the backup.
Revocable ==
  /\ step \in {"moved", "switch", "clear", "installed",
                "rollback", "emptying", "emptied"}
  /\ job.kind = "online"

CopiesHeld ==
  /\ step \in {"staging", "staged"} /\ job.kind = "online" => backup[job.version] = Absent
  /\ step \in {"staging", "staged"} /\ ~job.replacing => root[job.version] = Absent
  /\ step = "moving" => root[job.version] = Absent
  /\ MovedIn => Whole(root[job.version])
  /\ Revocable /\ job.version \in owned => job.replacing /\ Whole(backup[job.version])
  /\ step = "removing" => job.version \notin owned

\* Only the online install in progress holds a backup.
BackupOnlyOfJob ==
  ~wounded => \A v \in Versions : backup[v] # Absent =>
    /\ step \in {"moving", "moved", "switch", "clear", "installed", "commit",
                  "committing", "rollback", "emptying", "emptied"}
    /\ v = job.version
    /\ job.kind = "online"
    /\ job.replacing

Inv == TypeOK /\ NothingLost /\ StepFitsJob /\ CopiesHeld /\ BackupOnlyOfJob

-----------------------------------------------------------------------------
(* The inductive invariant behind ActiveLinkValid and StoreSpec.           *)

\* A directory is torn only while the job at hand deletes it.
TornOnlyByJob ==
  \A v \in Versions :
    root[v] = Torn => step \in {"emptying", "removing"} /\ v = job.version

\* The version that was active before the job is whole or can be put back; a
\* removal that has begun puts nothing back.
BeforeHeld ==
  step \notin {"idle", "removing"} =>
    job.activeBefore \in {v \in Versions : Whole(Kept(v))} \cup {NoVersion}

\* Where the link points while a job is at hand.
LinkOfJob ==
  /\ step \in {"staging", "staged", "moving", "moved", "remarking"} => current = job.activeBefore
  /\ step \in {"clear", "installed"} =>
       current = IF job.activate THEN job.version ELSE job.activeBefore
  /\ step = "switch" => job.activate /\ current \in {job.activeBefore, NoVersion}
  /\ step = "undo" => current = job.version
  /\ step \in {"commit", "committing"} \cup RollbackSteps =>
       current \in {job.activeBefore, job.version, NoVersion}
  /\ step \in {"remove", "removing"} => current \in {job.activeBefore, NoVersion}
  /\ step = "remove" /\ job.activate => job.activeBefore = job.version
  /\ step = "removing" => current # job.version

\* A link that the job does not move names a whole version.
LinkWhole ==
  step \in {"idle", "commit", "committing", "removing"} =>
    current \in {v \in Versions : Whole(root[v])} \cup {NoVersion}

\* What else the job found when it began, and what it did to the version since.
FoundByJob ==
  /\ step \in {"undo", "switch"} /\ job.kind = "select" => Whole(root[job.version])
  /\ step = "remove" => (job.replacing <=> Whole(root[job.version]))
  /\ step \in {"staging", "staged"} /\ job.kind = "online" =>
       (job.replacing <=> Whole(root[job.version])) /\ root[job.version] # job.package
  /\ step \in {"moving", "moved", "switch", "clear", "installed", "rollback",
               "emptying", "emptied"} /\ job.kind = "online" /\ job.replacing =>
       Whole(backup[job.version]) /\ backup[job.version] # job.package
  /\ step \in {"staging", "staged", "moving", "moved", "switch", "clear"}
       /\ job.kind = "online" => (job.marked <=> job.version \in removed)
  /\ step = "installed" => job.version \notin removed
  /\ step \in {"moved", "switch", "clear", "installed"} /\ job.kind \in Installs =>
       root[job.version] = job.package
  /\ step = "emptied" => root[job.version] = Absent
  /\ step = "removing" => root[job.version] = Torn
  /\ job # NoJob /\ job.kind = "online" => job.package \in Catalog
  /\ job # NoJob /\ job.kind \in {"manual", "bundled"} => job.package \in Local

\* Nothing of this is promised once the directories are wounded.
LinkInv ==
  ~wounded => TornOnlyByJob /\ BeforeHeld /\ LinkOfJob /\ LinkWhole /\ FoundByJob
=============================================================================
