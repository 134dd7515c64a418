-------------------------- MODULE RuntimeDownloads --------------------------
(***************************************************************************)
(* The Agent's RuntimeUpdateManager: the registry of Runtime download      *)
(* operations, the callers that ask for one, the background workers, and   *)
(* the cancel, install and shutdown requests that race with them.          *)
(*                                                                         *)
(* An operation has three actors.  Its caller runs start(): it takes the   *)
(* registry mutex, scans the registry, and either waits for the cleanup of *)
(* a cancelled operation of the same Runtime, is refused, or inserts the   *)
(* operation and spawns its worker.  The worker downloads and publishes    *)
(* the result.  A cancel request looks the operation up under the registry *)
(* mutex but cancels it after the mutex is released, holding only the      *)
(* operation's own snapshot mutex.                                         *)
(***************************************************************************)
EXTENDS Naturals, FiniteSets

CONSTANTS
  Ops,            \* operation ids; start() draws a fresh one per call
  Keys,           \* Runtime identities: (name, version, platform, architecture)
  Identity,       \* the Runtime operation op was requested for
  MaxOperations,  \* MAX_RUNTIME_UPDATE_OPERATIONS
  NoOp

ASSUME OpsAssumption == IsFiniteSet(Ops) /\ NoOp \notin Ops
ASSUME IdentityAssumption == Identity \in [Ops -> Keys]
ASSUME MaxAssumption == MaxOperations \in Nat \ {0}

VARIABLES
  operations,   \* ids in the registry map
  holder,       \* the caller that holds the registry mutex between two scans
  caller,       \* control state of the start() call that drew the id
  waitsOn,      \* the cancelled operation a caller in "waiting" waits for
  status,       \* the published RuntimeUpdateOperationStatus
  cancelled,    \* RuntimeDownloadTask.cancelled
  finished,     \* RuntimeDownloadTask.download_finished
  worker,       \* control state of the background download
  cancelling,   \* operations a cancel request has looked up and not yet cancelled
  shuttingDown  \* RuntimeUpdateManager.shutting_down

registryVars == <<operations, holder, shuttingDown>>
callerVars   == <<caller, waitsOn>>
taskVars     == <<status, cancelled, finished>>
vars == <<registryVars, callerVars, taskVars, worker, cancelling>>

CallerStates == {"idle", "admitting", "waiting", "scanned", "accepted", "rejected"}
Statuses == {"None", "Queued", "Downloading", "Verified", "Installing",
             "Completed", "Failed", "Cancelled"}
WorkerStates == {"none", "spawned", "downloading", "removing", "exiting", "done"}

Active == {"Queued", "Downloading"}
SameRuntime(a, b) == Identity[a] = Identity[b]

\* The worker has entered the downloader and can still touch the cached
\* package or its partial file.
Working(op) == worker[op] \in {"downloading", "removing"}

\* existing.is_cancelled() && !*existing.download_finished.borrow()
PendingCleanup(op) == {x \in operations : SameRuntime(x, op) /\ cancelled[x] /\ ~finished[x]}

\* Fault: an operation that is still queued is not seen as a duplicate.
DuplicateDownloading(op) ==
  \E x \in operations : SameRuntime(x, op) /\ status[x] = "Downloading"

DuplicateActive(op) == \E x \in operations : SameRuntime(x, op) /\ status[x] \in Active

\* Fault: the history cleanup keeps only what is queued or downloading.
RetainedActive == {x \in operations : status[x] \in Active}

\* What operations.retain keeps when the registry is full.
Retained ==
  {x \in operations : \/ ~finished[x]
                      \/ status[x] \in Active \cup {"Verified", "Installing"}}

RegistryFree == holder = NoOp

Init ==
  /\ operations = {}
  /\ holder = NoOp
  /\ caller = [op \in Ops |-> "idle"]
  /\ waitsOn = [op \in Ops |-> NoOp]
  /\ status = [op \in Ops |-> "None"]
  /\ cancelled = [op \in Ops |-> FALSE]
  /\ finished = [op \in Ops |-> FALSE]
  /\ worker = [op \in Ops |-> "none"]
  /\ cancelling = {}
  /\ shuttingDown = FALSE

-----------------------------------------------------------------------------
(* The caller: RuntimeUpdateManager::start.                                *)

Request(op) ==
  /\ caller[op] = "idle"
  /\ caller' = [caller EXCEPT ![op] = "admitting"]
  /\ UNCHANGED <<registryVars, waitsOn, taskVars, worker, cancelling>>

RefuseShuttingDown(op) ==
  /\ caller[op] = "admitting"
  /\ RegistryFree
  /\ shuttingDown
  /\ caller' = [caller EXCEPT ![op] = "rejected"]
  /\ UNCHANGED <<registryVars, waitsOn, taskVars, worker, cancelling>>

WaitForCleanup(op) ==
  /\ caller[op] = "admitting"
  /\ RegistryFree
  /\ ~shuttingDown
  /\ \E x \in PendingCleanup(op) : waitsOn' = [waitsOn EXCEPT ![op] = x]
  /\ caller' = [caller EXCEPT ![op] = "waiting"]
  /\ UNCHANGED <<registryVars, taskVars, worker, cancelling>>

\* Fault: the admission loop does not look at the shutdown flag.
PassCleanupScanClosed(op) ==
  /\ caller[op] = "admitting"
  /\ RegistryFree
  /\ PendingCleanup(op) = {}
  /\ holder' = op
  /\ caller' = [caller EXCEPT ![op] = "scanned"]
  /\ UNCHANGED <<operations, shuttingDown, waitsOn, taskVars, worker, cancelling>>

\* The first scan found nothing to wait for; the caller keeps the mutex.
PassCleanupScan(op) ==
  /\ caller[op] = "admitting"
  /\ RegistryFree
  /\ ~shuttingDown
  /\ PendingCleanup(op) = {}
  /\ holder' = op
  /\ caller' = [caller EXCEPT ![op] = "scanned"]
  /\ UNCHANGED <<operations, shuttingDown, waitsOn, taskVars, worker, cancelling>>

RefuseDuplicate(op) ==
  /\ caller[op] = "scanned"
  /\ DuplicateActive(op)
  /\ holder' = NoOp
  /\ caller' = [caller EXCEPT ![op] = "rejected"]
  /\ UNCHANGED <<operations, shuttingDown, waitsOn, taskVars, worker, cancelling>>

\* The registry as the caller leaves it to the last length check.
Pruned == IF Cardinality(operations) >= MaxOperations THEN Retained ELSE operations

RefuseFull(op) ==
  /\ caller[op] = "scanned"
  /\ ~DuplicateActive(op)
  /\ Cardinality(Pruned) >= MaxOperations
  /\ operations' = Pruned
  /\ holder' = NoOp
  /\ caller' = [caller EXCEPT ![op] = "rejected"]
  /\ UNCHANGED <<shuttingDown, waitsOn, taskVars, worker, cancelling>>

\* Fault: the length of the registry is compared with > instead of >=.
AdmitOneMore(op) ==
  /\ caller[op] = "scanned"
  /\ ~DuplicateActive(op)
  /\ Cardinality(Pruned) <= MaxOperations
  /\ operations' = Pruned \cup {op}
  /\ holder' = NoOp
  /\ caller' = [caller EXCEPT ![op] = "accepted"]
  /\ status' = [status EXCEPT ![op] = "Queued"]
  /\ worker' = [worker EXCEPT ![op] = "spawned"]
  /\ UNCHANGED <<shuttingDown, waitsOn, cancelled, finished, cancelling>>

\* Fault: the map entry is keyed by the operation the caller waited for.
AdmitUnderOldId(op) ==
  /\ caller[op] = "scanned"
  /\ ~DuplicateActive(op)
  /\ Cardinality(Pruned) < MaxOperations
  /\ operations' = Pruned \cup {waitsOn[op]}
  /\ holder' = NoOp
  /\ caller' = [caller EXCEPT ![op] = "accepted"]
  /\ status' = [status EXCEPT ![op] = "Queued"]
  /\ worker' = [worker EXCEPT ![op] = "spawned"]
  /\ UNCHANGED <<shuttingDown, waitsOn, cancelled, finished, cancelling>>

Admit(op) ==
  /\ caller[op] = "scanned"
  /\ ~DuplicateActive(op)
  /\ Cardinality(Pruned) < MaxOperations
  /\ operations' = Pruned \cup {op}
  /\ holder' = NoOp
  /\ caller' = [caller EXCEPT ![op] = "accepted"]
  /\ status' = [status EXCEPT ![op] = "Queued"]
  /\ worker' = [worker EXCEPT ![op] = "spawned"]
  /\ UNCHANGED <<shuttingDown, waitsOn, cancelled, finished, cancelling>>

\* finished.wait_for resolves and the loop starts over.
WakeFinished(op) ==
  /\ caller[op] = "waiting"
  /\ finished[waitsOn[op]]
  /\ caller' = [caller EXCEPT ![op] = "admitting"]
  /\ waitsOn' = [waitsOn EXCEPT ![op] = NoOp]
  /\ UNCHANGED <<registryVars, taskVars, worker, cancelling>>

WakeShutdown(op) ==
  /\ caller[op] = "waiting"
  /\ shuttingDown
  /\ caller' = [caller EXCEPT ![op] = "rejected"]
  /\ waitsOn' = [waitsOn EXCEPT ![op] = NoOp]
  /\ UNCHANGED <<registryVars, taskVars, worker, cancelling>>

-----------------------------------------------------------------------------
(* The worker spawned by start().                                          *)

\* Fault: a worker cancelled before it began returns without signalling its end.
BeginDownloadSilent(op) ==
  /\ worker[op] = "spawned"
  /\ IF cancelled[op]
       THEN /\ worker' = [worker EXCEPT ![op] = "done"]
            /\ UNCHANGED status
       ELSE /\ worker' = [worker EXCEPT ![op] = "downloading"]
            /\ status' = [status EXCEPT ![op] = "Downloading"]
  /\ UNCHANGED <<registryVars, callerVars, cancelled, finished, cancelling>>

BeginDownload(op) ==
  /\ worker[op] = "spawned"
  /\ IF cancelled[op]
       THEN /\ worker' = [worker EXCEPT ![op] = "exiting"]
            /\ UNCHANGED status
       ELSE /\ worker' = [worker EXCEPT ![op] = "downloading"]
            /\ status' = [status EXCEPT ![op] = "Downloading"]
  /\ UNCHANGED <<registryVars, callerVars, cancelled, finished, cancelling>>

\* Fault: the result is published without looking at the cancellation.
FinishDownloadBlindly(op, ok) ==
  /\ worker[op] = "downloading"
  /\ status' = [status EXCEPT ![op] = IF ok THEN "Verified" ELSE "Failed"]
  /\ worker' = [worker EXCEPT ![op] = "exiting"]
  /\ UNCHANGED <<registryVars, callerVars, cancelled, finished, cancelling>>

\* ok: the download succeeded and its package is the requested one.  A
\* cancelled operation that got its package removes it again.
FinishDownload(op, ok) ==
  /\ worker[op] = "downloading"
  /\ status' = [status EXCEPT ![op] =
                  IF cancelled[op] THEN "Cancelled"
                  ELSE IF ok THEN "Verified" ELSE "Failed"]
  /\ worker' = [worker EXCEPT ![op] =
                  IF cancelled[op] /\ ok THEN "removing" ELSE "exiting"]
  /\ UNCHANGED <<registryVars, callerVars, cancelled, finished, cancelling>>

RemovePackage(op) ==
  /\ worker[op] = "removing"
  /\ worker' = [worker EXCEPT ![op] = "exiting"]
  /\ UNCHANGED <<registryVars, callerVars, taskVars, cancelling>>

\* RuntimeDownloadCompletion is dropped with the worker's future.
WorkerExits(op) ==
  /\ worker[op] = "exiting"
  /\ worker' = [worker EXCEPT ![op] = "done"]
  /\ finished' = [finished EXCEPT ![op] = TRUE]
  /\ UNCHANGED <<registryVars, callerVars, status, cancelled, cancelling>>

-----------------------------------------------------------------------------
(* Cancel, install and shutdown requests.                                  *)

LookUpForCancel(op) ==
  /\ RegistryFree
  /\ op \in operations
  /\ cancelling' = cancelling \cup {op}
  /\ UNCHANGED <<registryVars, callerVars, taskVars, worker>>

\* RuntimeDownloadTask::cancel, under the operation's snapshot mutex only.
CancelTask(op) ==
  /\ op \in cancelling
  /\ cancelling' = cancelling \ {op}
  /\ IF status[op] \in Active
       THEN /\ cancelled' = [cancelled EXCEPT ![op] = TRUE]
            /\ status' = [status EXCEPT ![op] = "Cancelled"]
       ELSE UNCHANGED <<cancelled, status>>
  /\ UNCHANGED <<registryVars, callerVars, finished, worker>>

\* Fault: only the operation's own status is checked.
BeginInstallAlone(op) ==
  /\ RegistryFree
  /\ op \in operations
  /\ status[op] = "Verified"
  /\ status' = [status EXCEPT ![op] = "Installing"]
  /\ UNCHANGED <<registryVars, callerVars, cancelled, finished, worker, cancelling>>

BeginInstall(op) ==
  /\ RegistryFree
  /\ op \in operations
  /\ \A x \in operations : status[x] # "Installing"
  /\ status[op] = "Verified"
  /\ status' = [status EXCEPT ![op] = "Installing"]
  /\ UNCHANGED <<registryVars, callerVars, cancelled, finished, worker, cancelling>>

\* The installer reports its result; an operation that is no longer listed
\* keeps the status "Installing" for ever.
FinishInstall(op) ==
  /\ RegistryFree
  /\ op \in operations
  /\ status[op] = "Installing"
  /\ \E outcome \in {"Completed", "Failed"} :
       status' = [status EXCEPT ![op] = outcome]
  /\ UNCHANGED <<registryVars, callerVars, cancelled, finished, worker, cancelling>>

\* Fault: shutdown sets the flag and leaves the registered downloads alone.
ShutdownFlagOnly ==
  /\ RegistryFree
  /\ ~shuttingDown
  /\ shuttingDown' = TRUE
  /\ UNCHANGED <<operations, holder, callerVars, taskVars, worker, cancelling>>

Shutdown ==
  /\ RegistryFree
  /\ ~shuttingDown
  /\ shuttingDown' = TRUE
  /\ LET stopped == {x \in operations : status[x] \in Active} IN
       /\ cancelled' = [x \in Ops |-> cancelled[x] \/ x \in stopped]
       /\ status' = [x \in Ops |-> IF x \in stopped THEN "Cancelled" ELSE status[x]]
  /\ UNCHANGED <<operations, holder, callerVars, finished, worker, cancelling>>

-----------------------------------------------------------------------------
CallerSteps(op) ==
  \/ RefuseShuttingDown(op) \/ WaitForCleanup(op) \/ PassCleanupScan(op)
  \/ RefuseDuplicate(op) \/ RefuseFull(op) \/ Admit(op)
  \/ WakeFinished(op) \/ WakeShutdown(op)

WorkerSteps(op) ==
  \/ BeginDownload(op)
  \/ \E ok \in BOOLEAN : FinishDownload(op, ok)
  \/ RemovePackage(op)
  \/ WorkerExits(op)

Next ==
  \/ Shutdown
  \/ \E op \in Ops :
       \/ Request(op) \/ CallerSteps(op) \/ WorkerSteps(op)
       \/ LookUpForCancel(op) \/ CancelTask(op)
       \/ BeginInstall(op) \/ FinishInstall(op)

\* Tokio polls every ready task: a caller that can proceed and a worker with
\* a next step are eventually run.  A download ends because the HTTP client
\* has a total timeout of 30 minutes.  No user request is ever promised.
Fairness == \A op \in Ops : WF_vars(CallerSteps(op)) /\ WF_vars(WorkerSteps(op))

Spec == Init /\ [][Next]_vars /\ Fairness

\* The same program with the window closed: no cancel request takes effect
\* while a caller is between its two scans of the registry.
NextUndisturbed == Next /\ (holder # NoOp => cancelled' = cancelled)
SpecUndisturbed == Init /\ [][NextUndisturbed]_vars
-----------------------------------------------------------------------------
(* Properties.                                                             *)

\* Every variable keeps the shape the Rust types give it (the one type
\* invariant of this module).
TypeOK ==
  /\ operations \subseteq Ops
  /\ holder \in Ops \cup {NoOp}
  /\ caller \in [Ops -> CallerStates]
  /\ waitsOn \in [Ops -> Ops \cup {NoOp}]
  /\ status \in [Ops -> Statuses]
  /\ cancelled \in [Ops -> BOOLEAN]
  /\ finished \in [Ops -> BOOLEAN]
  /\ worker \in [Ops -> WorkerStates]
  /\ cancelling \subseteq Ops
  /\ shuttingDown \in BOOLEAN

\* Two operations never install at the same time, whoever calls begin_install
\* and however the installs, downloads and history cleanups interleave.
SingleInstaller ==
  \A a, b \in Ops : status[a] = "Installing" /\ status[b] = "Installing" => a = b

\* History cleanup forgets no operation that still has something to do: one
\* whose worker has not ended, one that waits to be installed, and one being
\* installed (finish_install would not find it).
NothingLiveForgotten ==
  \A op \in Ops :
    \/ worker[op] \in WorkerStates \ {"none", "done"}
    \/ status[op] \in {"Verified", "Installing"}
    => op \in operations

\* The registry never holds more than MAX_RUNTIME_UPDATE_OPERATIONS entries.
RegistryBounded == Cardinality(operations) <= MaxOperations

\* Once shutdown has closed admission nothing is queued or downloading any
\* more, although callers were scanning or waiting and workers were about to
\* publish "Downloading" when it came.
ShutdownQuiesces == shuttingDown => \A op \in Ops : status[op] \notin Active

\* Two workers of one Runtime overlap only while one of them is the worker of
\* a cancelled operation that has not ended: two live downloads never write
\* the same partial file.
OverlapOnlyInCleanup ==
  \A a, b \in Ops :
    a # b /\ SameRuntime(a, b) /\ Working(a) /\ Working(b) => cancelled[a] \/ cancelled[b]

\* Workers of one Runtime never overlap at all: a retry waits for the worker
\* of the cancelled operation to end (the comment and test of the retry say
\* so).  The code keeps this only when no cancel lands between the two scans.
OneWorkerPerRuntime ==
  \A a, b \in Ops : a # b /\ SameRuntime(a, b) /\ Working(a) => ~Working(b)

\* A cancellation that was confirmed to the user is final: no worker publishes
\* another status over it, and no installation starts from it.
CancelIsFinal == [][\A op \in Ops : cancelled[op] => status'[op] = "Cancelled"]_vars

\* A cancelled operation's worker ends, whatever it was doing, and a caller that
\* waits for it to clean up is answered.
CancellationsEnd ==
  \A op \in Ops :
    /\ cancelled[op] ~> finished[op]
    /\ caller[op] = "waiting" ~> caller[op] \in {"accepted", "rejected"}

\* The published statuses follow RuntimeOperations.
Published == INSTANCE RuntimeOperations WITH closed <- shuttingDown
PublishedSpec == Published!Spec
-----------------------------------------------------------------------------
(* The inductive invariant behind the properties above.                    *)

\* Who is where: the mutex belongs to the one caller between its scans, an
\* operation has a worker exactly from its admission on, a waiting caller
\* knows what it waits for.
CallersConsistent ==
  \A op \in Ops :
    /\ caller[op] = "scanned" <=> holder = op
    /\ worker[op] # "none" <=> caller[op] = "accepted"
    /\ caller[op] = "waiting" => waitsOn[op] \in Ops

\* The published status agrees with the worker that is to change it.
TasksConsistent ==
  \A op \in Ops :
    /\ status[op] = "None" <=> worker[op] = "none"
    /\ status[op] = "Queued" => worker[op] = "spawned"
    /\ status[op] = "Downloading" => worker[op] = "downloading"
    /\ cancelled[op] => status[op] = "Cancelled"
    /\ worker[op] \in {"spawned", "downloading"} /\ ~cancelled[op] => status[op] \in Active
    /\ worker[op] = "removing" => cancelled[op]
    /\ finished[op] <=> worker[op] = "done"

\* At most one operation of a Runtime is queued or downloading.
ActiveUnique ==
  \A a, b \in Ops :
    SameRuntime(a, b) /\ status[a] \in Active /\ status[b] \in Active => a = b

ClosedRegistry == shuttingDown => RegistryFree

Inv ==
  /\ TypeOK
  /\ CallersConsistent
  /\ TasksConsistent
  /\ NothingLiveForgotten
  /\ ActiveUnique
  /\ SingleInstaller
  /\ ClosedRegistry
  /\ ShutdownQuiesces

\* What the scan for pending cleanups establishes, and a cancel in the window
\* would take away.
ScanStillTrue ==
  \A op, x \in Ops : holder = op /\ SameRuntime(x, op) /\ cancelled[x] => finished[x]

\* Also the worker that has not begun counts.
WorkersExclusive ==
  LET Pending(op) == worker[op] = "spawned" \/ Working(op) IN
  \A a, b \in Ops : SameRuntime(a, b) /\ Pending(a) /\ Pending(b) => a = b

InvUndisturbed == Inv /\ ScanStillTrue /\ WorkersExclusive
=============================================================================
