----------------------- MODULE RuntimeDownloadsProofs -----------------------
(* Theorems about RuntimeDownloads, for any finite set of operations and    *)
(* any registry bound; and about BundledRuntimes, the PHP that needs no      *)
(* download, for any versions and any number of starts and requests.        *)
EXTENDS RuntimeDownloads, Sequences, FiniteSetTheorems, SequenceTheorems, TLAPS

\* BundledRuntimes' own.
CONSTANTS
  Windows, Versions, Bundled, Default, DemoPhp, None, MaxLaunches, MaxRequests, MaxFaults
VARIABLES
  dirs, staging, removed, receipts, active, used, procs, asGone, shaky, confused,
  launches, requests, faults

Bundles == INSTANCE BundledRuntimes

-----------------------------------------------------------------------------
(* Types.                                                                   *)

\* The initial registry is well-typed.
LEMMA TypeInit == Init => TypeOK
  <1> SUFFICES ASSUME Init PROVE TypeOK
    OBVIOUS
  <1> USE DEF Init, CallerStates, Statuses, WorkerStates
  <1>1. operations \subseteq Ops /\ cancelling \subseteq Ops /\ shuttingDown \in BOOLEAN
    OBVIOUS
  <1>2. holder \in Ops \cup {NoOp} /\ waitsOn \in [Ops -> Ops \cup {NoOp}]
    OBVIOUS
  <1>3. caller \in [Ops -> CallerStates] /\ worker \in [Ops -> WorkerStates]
    OBVIOUS
  <1>4. /\ status \in [Ops -> Statuses]
        /\ cancelled \in [Ops -> BOOLEAN]
        /\ finished \in [Ops -> BOOLEAN]
    OBVIOUS
  <1> QED
    BY <1>1, <1>2, <1>3, <1>4 DEF TypeOK

\* Every step of the registry, its callers and its workers keeps the types.
LEMMA TypeStep == TypeOK /\ [Next]_vars => TypeOK'
  <1> SUFFICES ASSUME TypeOK, [Next]_vars PROVE TypeOK'
    OBVIOUS
  <1> USE DEF TypeOK, CallerStates, Statuses, WorkerStates, registryVars,
              callerVars, taskVars
  <1>1. CASE Shutdown
    BY <1>1 DEF Shutdown
  <1>2. ASSUME NEW op \in Ops, Request(op) PROVE TypeOK'
    BY <1>2 DEF Request
  <1>3. ASSUME NEW op \in Ops, CallerSteps(op) PROVE TypeOK'
    <2>1. CASE RefuseShuttingDown(op)
      BY <2>1 DEF RefuseShuttingDown
    <2>2. CASE WaitForCleanup(op)
      BY <2>2 DEF WaitForCleanup, PendingCleanup
    <2>3. CASE PassCleanupScan(op)
      BY <2>3 DEF PassCleanupScan
    <2>4. CASE RefuseDuplicate(op)
      BY <2>4 DEF RefuseDuplicate
    <2>5. CASE RefuseFull(op)
      BY <2>5 DEF RefuseFull, Pruned, Retained
    <2>6. CASE Admit(op)
      BY <2>6 DEF Admit, Pruned, Retained
    <2>7. CASE WakeFinished(op)
      BY <2>7 DEF WakeFinished
    <2>8. CASE WakeShutdown(op)
      BY <2>8 DEF WakeShutdown
    <2> QED
      BY <1>3, <2>1, <2>2, <2>3, <2>4, <2>5, <2>6, <2>7, <2>8 DEF CallerSteps
  <1>4. ASSUME NEW op \in Ops, WorkerSteps(op) PROVE TypeOK'
    <2>1. CASE BeginDownload(op)
      BY <2>1 DEF BeginDownload
    <2>2. ASSUME NEW ok \in BOOLEAN, FinishDownload(op, ok) PROVE TypeOK'
      BY <2>2 DEF FinishDownload
    <2>3. CASE RemovePackage(op)
      BY <2>3 DEF RemovePackage
    <2>4. CASE WorkerExits(op)
      BY <2>4 DEF WorkerExits
    <2> QED
      BY <1>4, <2>1, <2>2, <2>3, <2>4 DEF WorkerSteps
  <1>5. ASSUME NEW op \in Ops, LookUpForCancel(op) PROVE TypeOK'
    BY <1>5 DEF LookUpForCancel
  <1>6. ASSUME NEW op \in Ops, CancelTask(op) PROVE TypeOK'
    BY <1>6 DEF CancelTask
  <1>7. ASSUME NEW op \in Ops, BeginInstall(op) PROVE TypeOK'
    BY <1>7 DEF BeginInstall
  <1>8. ASSUME NEW op \in Ops, FinishInstall(op) PROVE TypeOK'
    BY <1>8 DEF FinishInstall
  <1>9. CASE UNCHANGED vars
    BY <1>9 DEF vars
  <1> QED
    BY <1>1, <1>2, <1>3, <1>4, <1>5, <1>6, <1>7, <1>8, <1>9 DEF Next

\* Type correctness of every reachable state.
THEOREM TypeCorrect == Spec => []TypeOK
  BY TypeInit, TypeStep, PTL DEF Spec

-----------------------------------------------------------------------------
(* The inductive invariant.  The conjuncts hold each other up: a worker's   *)
(* status decides whether history cleanup keeps it, and what is kept is     *)
(* what the scans of the registry see.                                      *)

\* The empty registry satisfies the invariant.
LEMMA InvInit == Init => Inv
  BY TypeInit, OpsAssumption
     DEF Init, Inv, CallersConsistent, TasksConsistent, NothingLiveForgotten, ActiveUnique,
         SingleInstaller, ClosedRegistry, ShutdownQuiesces, Active, WorkerStates

\* Every step keeps the invariant.
LEMMA InvStep == Inv /\ [Next]_vars => Inv'
  <1> SUFFICES ASSUME Inv, [Next]_vars PROVE Inv'
    OBVIOUS
  <1>0. TypeOK'
    BY TypeStep DEF Inv
  <1> USE <1>0, OpsAssumption
      DEF Inv, TypeOK, CallersConsistent, TasksConsistent, NothingLiveForgotten,
          ActiveUnique, SingleInstaller, ClosedRegistry, ShutdownQuiesces,
          CallerStates, Statuses, WorkerStates, Active, SameRuntime, RegistryFree,
          registryVars, callerVars, taskVars
  <1>1. CASE Shutdown
    <2> DEFINE stopped(x) == x \in operations /\ status[x] \in Active
    <2>1. /\ \A x \in Ops : status'[x] = IF stopped(x) THEN "Cancelled" ELSE status[x]
          /\ \A x \in Ops : cancelled'[x] <=> cancelled[x] \/ stopped(x)
          /\ UNCHANGED <<operations, holder, caller, waitsOn, finished, worker>>
          /\ RegistryFree
      BY <1>1 DEF Shutdown
    <2>2. CallersConsistent' /\ ClosedRegistry'
      BY <2>1
    <2>3. \A x \in Ops : status[x] \in Active => x \in operations
      OBVIOUS
    <2>4. TasksConsistent'
      BY <2>1, <2>3
    <2>5. NothingLiveForgotten' /\ ShutdownQuiesces'
      BY <2>1, <2>3
    <2>6. ActiveUnique' /\ SingleInstaller'
      BY <2>1
    <2> QED
      BY <1>0, <2>2, <2>4, <2>5, <2>6
  <1>2. ASSUME NEW op \in Ops, Request(op) PROVE Inv'
    BY <1>2 DEF Request
  <1>3. ASSUME NEW op \in Ops, CallerSteps(op) PROVE Inv'
    <2>1. CASE RefuseShuttingDown(op)
      BY <2>1 DEF RefuseShuttingDown
    <2>2. CASE WaitForCleanup(op)
      BY <2>2 DEF WaitForCleanup, PendingCleanup
    <2>3. CASE PassCleanupScan(op)
      BY <2>3 DEF PassCleanupScan
    <2>4. CASE RefuseDuplicate(op)
      BY <2>4 DEF RefuseDuplicate
    <2>5. CASE RefuseFull(op)
      BY <2>5 DEF RefuseFull, Pruned, Retained
    <2>6. CASE Admit(op)
      BY <2>6 DEF Admit, Pruned, Retained, DuplicateActive
    <2>7. CASE WakeFinished(op)
      BY <2>7 DEF WakeFinished
    <2>8. CASE WakeShutdown(op)
      BY <2>8 DEF WakeShutdown
    <2> QED
      BY <1>3, <2>1, <2>2, <2>3, <2>4, <2>5, <2>6, <2>7, <2>8 DEF CallerSteps
  <1>4. ASSUME NEW op \in Ops, WorkerSteps(op) PROVE Inv'
    <2>1. CASE BeginDownload(op)
      BY <2>1 DEF BeginDownload
    <2>2. ASSUME NEW ok \in BOOLEAN, FinishDownload(op, ok) PROVE Inv'
      BY <2>2 DEF FinishDownload
    <2>3. CASE RemovePackage(op)
      BY <2>3 DEF RemovePackage
    <2>4. CASE WorkerExits(op)
      BY <2>4 DEF WorkerExits
    <2> QED
      BY <1>4, <2>1, <2>2, <2>3, <2>4 DEF WorkerSteps
  <1>5. ASSUME NEW op \in Ops, LookUpForCancel(op) PROVE Inv'
    BY <1>5 DEF LookUpForCancel
  <1>6. ASSUME NEW op \in Ops, CancelTask(op) PROVE Inv'
    BY <1>6 DEF CancelTask
  <1>7. ASSUME NEW op \in Ops, BeginInstall(op) PROVE Inv'
    BY <1>7 DEF BeginInstall
  <1>8. ASSUME NEW op \in Ops, FinishInstall(op) PROVE Inv'
    BY <1>8 DEF FinishInstall
  <1>9. CASE UNCHANGED vars
    BY <1>9 DEF vars
  <1> QED
    BY <1>1, <1>2, <1>3, <1>4, <1>5, <1>6, <1>7, <1>8, <1>9 DEF Next

LEMMA Invariance == Spec => []Inv
  BY InvInit, InvStep, PTL DEF Spec


-----------------------------------------------------------------------------
(* What follows from it.                                                    *)

\* begin_install admits one installation at a time, for any number of
\* operations and whatever else happens to the registry.
THEOREM InstallationsSerialised == Spec => []SingleInstaller
  BY Invariance, PTL DEF Inv

\* History cleanup drops no operation with a running worker, a verified
\* package or an installation in progress.
THEOREM HistoryKeepsLive == Spec => []NothingLiveForgotten
  BY Invariance, PTL DEF Inv

\* Nothing is queued or downloading once shutdown has closed the registry.
THEOREM Quiescence == Spec => []ShutdownQuiesces
  BY Invariance, PTL DEF Inv

\* Two downloads of one Runtime run side by side only if one is cancelled.
THEOREM OverlapBounded == Spec => []OverlapOnlyInCleanup
  <1>1. Inv => OverlapOnlyInCleanup
    BY DEF Inv, OverlapOnlyInCleanup, Working, TasksConsistent, ActiveUnique
  <1> QED
    BY <1>1, Invariance, PTL

\* A cancelled operation stays cancelled.
THEOREM CancellationFinal == Spec => CancelIsFinal
  <1>1. ASSUME Inv, [Next]_vars, NEW op \in Ops, cancelled[op]
        PROVE  status'[op] = "Cancelled"
    <2>1. cancelled'[op]
      BY <1>1 DEF Inv, TypeOK, Next, CallerSteps, WorkerSteps, Shutdown, Request,
           RefuseShuttingDown, WaitForCleanup, PassCleanupScan, RefuseDuplicate,
           RefuseFull, Admit, WakeFinished, WakeShutdown, BeginDownload,
           FinishDownload, RemovePackage, WorkerExits, LookUpForCancel, CancelTask,
           BeginInstall, FinishInstall, vars, registryVars, callerVars, taskVars
    <2> QED
      BY <1>1, <2>1, InvStep DEF Inv, TasksConsistent
  <1>2. Inv /\ [Next]_vars => [\A op \in Ops : cancelled[op] => status'[op] = "Cancelled"]_vars
    BY <1>1
  <1> QED
    BY <1>2, Invariance, PTL DEF Spec, CancelIsFinal

-----------------------------------------------------------------------------
(* The registry bound.                                                      *)

\* Pruning leaves a finite registry that is no larger.
LEMMA PrunedSmaller ==
  ASSUME TypeOK
  PROVE  /\ IsFiniteSet(operations) /\ IsFiniteSet(Pruned)
         /\ Cardinality(operations) \in Nat /\ Cardinality(Pruned) \in Nat
         /\ Cardinality(Pruned) <= Cardinality(operations)
  <1>1. IsFiniteSet(operations)
    BY FS_Subset, OpsAssumption DEF TypeOK
  <1>2. Pruned \subseteq operations
    BY DEF Pruned, Retained
  <1> QED
    BY <1>1, <1>2, FS_Subset, FS_CardinalityType

\* The registry never exceeds its limit.
THEOREM RegistryLimited == Spec => []RegistryBounded
  <1>1. Init => RegistryBounded
    BY FS_EmptySet, MaxAssumption DEF Init, RegistryBounded
  <1>2. TypeOK /\ RegistryBounded /\ [Next]_vars => RegistryBounded'
    <2> SUFFICES ASSUME TypeOK, RegistryBounded, [Next]_vars PROVE RegistryBounded'
      OBVIOUS
    <2>1. ASSUME NEW op \in Ops, RefuseFull(op) PROVE RegistryBounded'
      BY <2>1, PrunedSmaller, MaxAssumption DEF RefuseFull, RegistryBounded
    <2>2. ASSUME NEW op \in Ops, Admit(op) PROVE RegistryBounded'
      <3>1. \/ Cardinality(Pruned \cup {op}) = Cardinality(Pruned)
            \/ Cardinality(Pruned \cup {op}) = Cardinality(Pruned) + 1
        BY PrunedSmaller, FS_AddElement
      <3>2. Cardinality(Pruned \cup {op}) \in Nat
        BY PrunedSmaller, FS_AddElement, FS_CardinalityType
      <3> QED
        BY <2>2, <3>1, <3>2, PrunedSmaller, MaxAssumption DEF Admit, RegistryBounded
    <2>3. ASSUME operations' = operations PROVE RegistryBounded'
      BY <2>3 DEF RegistryBounded
    <2>4. \/ operations' = operations
          \/ \E op \in Ops : RefuseFull(op) \/ Admit(op)
      BY DEF Next, CallerSteps, WorkerSteps, Shutdown, Request, RefuseShuttingDown,
           WaitForCleanup, PassCleanupScan, RefuseDuplicate, WakeFinished, WakeShutdown,
           BeginDownload, FinishDownload, RemovePackage, WorkerExits, LookUpForCancel,
           CancelTask, BeginInstall, FinishInstall, vars, registryVars
    <2> QED
      BY <2>1, <2>2, <2>3, <2>4
  <1> QED
    BY <1>1, <1>2, TypeCorrect, PTL DEF Spec

-----------------------------------------------------------------------------
(* Without a cancel in the window between the two scans.                    *)

\* The scan for pending cleanups stays true until the caller inserts its
\* operation, so no new worker starts beside an old one.
LEMMA UndisturbedStep == InvUndisturbed /\ [NextUndisturbed]_vars => InvUndisturbed'
  <1> SUFFICES ASSUME InvUndisturbed, [NextUndisturbed]_vars PROVE InvUndisturbed'
    OBVIOUS
  <1>1. Inv /\ Inv'
    BY InvStep DEF InvUndisturbed, NextUndisturbed
  <1> USE <1>1, OpsAssumption
      DEF InvUndisturbed, ScanStillTrue, WorkersExclusive, Working, SameRuntime, Inv,
          TypeOK, CallersConsistent, TasksConsistent, NothingLiveForgotten, WorkerStates,
          RegistryFree, registryVars, callerVars, taskVars
  <1>2. ASSUME NEW op \in Ops, PassCleanupScan(op) PROVE InvUndisturbed'
    BY <1>2 DEF PassCleanupScan, PendingCleanup
  <1>3. ASSUME NEW op \in Ops, Admit(op) PROVE InvUndisturbed'
    BY <1>3 DEF Admit, DuplicateActive, Active, Pruned, Retained
  <1>4. ASSUME NEW op \in Ops, Request(op) \/ RefuseShuttingDown(op) \/ WaitForCleanup(op)
                 \/ RefuseDuplicate(op) \/ RefuseFull(op) \/ WakeFinished(op) \/ WakeShutdown(op)
        PROVE  InvUndisturbed'
    BY <1>4 DEF Request, RefuseShuttingDown, WaitForCleanup, RefuseDuplicate, RefuseFull,
         WakeFinished, WakeShutdown
  <1>5. ASSUME NEW op \in Ops, WorkerSteps(op) PROVE InvUndisturbed'
    BY <1>5 DEF WorkerSteps, BeginDownload, FinishDownload, RemovePackage, WorkerExits
  <1>6. ASSUME NEW op \in Ops, LookUpForCancel(op) \/ BeginInstall(op) \/ FinishInstall(op)
        PROVE  InvUndisturbed'
    BY <1>6 DEF LookUpForCancel, BeginInstall, FinishInstall
  <1>7. ASSUME NEW op \in Ops, CancelTask(op), NextUndisturbed PROVE InvUndisturbed'
    BY <1>7 DEF CancelTask, NextUndisturbed
  <1>8. CASE Shutdown
    BY <1>8 DEF Shutdown
  <1>9. CASE UNCHANGED vars
    BY <1>9 DEF vars
  <1> QED
    BY <1>2, <1>3, <1>4, <1>5, <1>6, <1>7, <1>8, <1>9 DEF NextUndisturbed, Next, CallerSteps

\* With the window closed, a retry never runs beside the worker it waits for.
THEOREM RetriesWait == SpecUndisturbed => []OneWorkerPerRuntime
  <1>1. Init => InvUndisturbed
    BY InvInit, OpsAssumption DEF Init, InvUndisturbed, ScanStillTrue, WorkersExclusive, Working
  <1>2. InvUndisturbed => OneWorkerPerRuntime
    BY DEF InvUndisturbed, WorkersExclusive, OneWorkerPerRuntime
  <1> QED
    BY <1>1, <1>2, UndisturbedStep, PTL DEF SpecUndisturbed

-----------------------------------------------------------------------------
(* The detailed registry implements the published operations.               *)

\* Every step of the registry is a step of RuntimeOperations or invisible.
LEMMA PublishedStep == Inv /\ [Next]_vars => [Published!Next]_Published!avars
  <1> SUFFICES ASSUME Inv, [Next]_vars PROVE [Published!Next]_Published!avars
    OBVIOUS
  <1> USE DEF Inv, TypeOK, TasksConsistent, NothingLiveForgotten, ShutdownQuiesces,
          SingleInstaller, CallersConsistent, ClosedRegistry, SameRuntime, RegistryFree,
          Active, Published!Active, Published!avars, Published!Move, registryVars,
          callerVars, taskVars
  <1>1. CASE Shutdown
    <2>1. Published!Close
      BY <1>1 DEF Shutdown, Published!Close
    <2> QED
      BY <2>1 DEF Published!Next
  <1>2. ASSUME NEW op \in Ops, Admit(op) PROVE Published!Next
    <2>1. Published!Enlist(op)
      BY <1>2, OpsAssumption DEF Admit, DuplicateActive, Published!Enlist
    <2> QED
      BY <2>1 DEF Published!Next
  <1>3. ASSUME NEW op \in Ops, BeginDownload(op) PROVE [Published!Next]_Published!avars
    <2>1. Published!Download(op) \/ UNCHANGED Published!avars
      BY <1>3 DEF BeginDownload, Published!Download
    <2> QED
      BY <2>1 DEF Published!Next
  <1>4. ASSUME NEW op \in Ops, NEW ok \in BOOLEAN, FinishDownload(op, ok)
        PROVE  [Published!Next]_Published!avars
    <2>1. Published!Settle(op) \/ UNCHANGED Published!avars
      BY <1>4 DEF FinishDownload, Published!Settle
    <2> QED
      BY <2>1 DEF Published!Next
  <1>5. ASSUME NEW op \in Ops, CancelTask(op) PROVE [Published!Next]_Published!avars
    <2>1. Published!Cancel(op) \/ UNCHANGED Published!avars
      BY <1>5 DEF CancelTask, Published!Cancel
    <2> QED
      BY <2>1 DEF Published!Next
  <1>6. ASSUME NEW op \in Ops, BeginInstall(op) PROVE Published!Next
    <2>1. Published!Install(op)
      BY <1>6 DEF BeginInstall, Published!Install
    <2> QED
      BY <2>1 DEF Published!Next
  <1>7. ASSUME NEW op \in Ops, FinishInstall(op) PROVE Published!Next
    <2>1. Published!Conclude(op)
      BY <1>7 DEF FinishInstall, Published!Conclude
    <2> QED
      BY <2>1 DEF Published!Next
  <1>8. \/ Shutdown
        \/ \E op \in Ops :
             \/ Admit(op) \/ BeginDownload(op) \/ CancelTask(op)
             \/ \E ok \in BOOLEAN : FinishDownload(op, ok)
             \/ BeginInstall(op) \/ FinishInstall(op)
        \/ UNCHANGED Published!avars
    BY DEF Next, CallerSteps, WorkerSteps, Request, RefuseShuttingDown, WaitForCleanup,
         PassCleanupScan, RefuseDuplicate, RefuseFull, WakeFinished, WakeShutdown,
         RemovePackage, WorkerExits, LookUpForCancel, vars
  <1> QED
    BY <1>1, <1>2, <1>3, <1>4, <1>5, <1>6, <1>7, <1>8

\* RuntimeDownloads implements RuntimeOperations.
THEOREM ImplementsPublished == Spec => PublishedSpec
  <1>1. Init => Published!Init
    BY DEF Init, Published!Init
  <1> QED
    BY <1>1, PublishedStep, Invariance, PTL DEF Spec, PublishedSpec, Published!Spec


-----------------------------------------------------------------------------
(* BundledRuntimes.                                                         *)

\* The App brings Versions, the default one among them.
BundledAssumption == Bundled \in Seq(Versions) /\ Default \in Versions

\* The steps of the two processes; those at which a version is at hand.
PhpSteps == {"idle", "package", "unpack", "place", "placed", "activate", "receipt", "link",
             "demo", "mark", "remove", "removing"}
Versioned == PhpSteps \ {"idle", "package", "demo"}

Proc == [step : PhpSteps, version : Versions \cup {None}, left : Seq(Versions),
         activate : BOOLEAN]

\* A staging directory.
Stage == [owner : Bundles!Procs \cup {None}, whole : BOOLEAN]

\* Shapes; a package receipt has its directory.
PhpTyped ==
  /\ dirs \in [Versions -> {"none", "part", "whole"}]
  /\ active \in Versions \cup {None}
  /\ removed \subseteq Versions /\ receipts \subseteq Bundles!InstalledVersions
  /\ confused \in BOOLEAN
  /\ staging \in [Bundles!Procs -> [Versions -> Stage]]
  /\ procs \in [Bundles!Procs -> Proc]
  /\ \A p \in Bundles!Procs : procs[p].step \in Versioned => procs[p].version \in Versions

\* Which steps are whose.
OwnSteps ==
  /\ procs["desktop"].step \notin {"activate", "mark", "remove", "removing"}
  /\ procs["desktop"].activate = FALSE
  /\ procs["agent"].step \notin {"package", "receipt", "link", "demo"}

\* p has a staging directory for v.
Staging(p, v) == procs[p].version = v /\ procs[p].step \in {"unpack", "place"}

\* What is staged for a version nobody spoiled is the installer's own, and whole
\* when it is to be placed.
StagedAlone ==
  \A p \in Bundles!Procs, v \in Versions \ shaky : Staging(p, v) =>
    /\ \A o \in Bundles!Procs \ {p} : Bundles!Area(o) = Bundles!Area(p) => ~Staging(o, v)
    /\ staging[Bundles!Area(p)][v].owner = p
    /\ procs[p].step = "place" => staging[Bundles!Area(p)][v].whole

\* A version that was removed has its marker, and nobody is past the look at it.
GoneMarked ==
  /\ asGone \subseteq removed
  /\ \A v \in asGone : ~Bundles!Arriving(v)
  /\ procs["agent"].step \in {"activate", "placed"} => procs["agent"].version \notin asGone

\* What is about to become the global PHP is there, and what is being deleted is not it.
LinkedThere ==
  /\ procs["agent"].step = "activate" => Bundles!Installed(procs["agent"].version)
  /\ ~confused =>
       /\ procs["desktop"].step = "link" => Bundles!Installed(procs["desktop"].version)
       /\ procs["agent"].step = "removing" => active # procs["agent"].version

\* The inductive invariant.
PhpInv ==
  /\ PhpTyped /\ OwnSteps /\ StagedAlone /\ GoneMarked /\ LinkedThere
  /\ Bundles!PhpIsThere

\* A process that does nothing has the shape of one.
LEMMA IdleProc == Bundles!Idle \in Proc
  BY DEF Bundles!Idle, Proc, PhpSteps

\* The next step of a process changes nothing else about it.
LEMMA Stepped ==
  ASSUME procs \in [Bundles!Procs -> Proc], NEW p \in Bundles!Procs, NEW s \in PhpSteps,
         Bundles!Step(p, s)
  PROVE  /\ procs' \in [Bundles!Procs -> Proc]
         /\ procs'[p].step = s /\ procs'[p].version = procs[p].version
         /\ procs'[p].activate = procs[p].activate
         /\ \A o \in Bundles!Procs \ {p} : procs'[o] = procs[o]
<1> DEFINE new == [procs[p] EXCEPT !.step = s]
<1>1. procs' = [procs EXCEPT ![p] = new]
  BY DEF Bundles!Step, Proc
<1>2. new \in Proc
  BY DEF Proc
<1>3. new.step = s /\ new.version = procs[p].version
  BY DEF Proc
<1>4. new.activate = procs[p].activate
  BY Zenon DEF Proc
<1> QED
  BY <1>1, <1>2, <1>3, <1>4

\* A process ends.
LEMMA Ended ==
  ASSUME procs \in [Bundles!Procs -> Proc], NEW p \in Bundles!Procs, Bundles!End(p)
  PROVE  /\ procs' \in [Bundles!Procs -> Proc]
         /\ procs'[p] = Bundles!Idle
         /\ \A o \in Bundles!Procs \ {p} : procs'[o] = procs[o]
  BY IdleProc DEF Bundles!End


\* Whoever clears a staging directory has it alone, or the version counts as spoiled.
LEMMA Unpacked ==
  ASSUME PhpTyped, NEW p \in Bundles!Procs, NEW v \in Versions, Bundles!Unpacking(p, v)
  PROVE  /\ staging' \in [Bundles!Procs -> [Versions -> Stage]]
         /\ staging'[Bundles!Area(p)][v].owner = p
         /\ \A q \in Bundles!Procs, w \in Versions :
              q # Bundles!Area(p) \/ w # v => staging'[q][w] = staging[q][w]
         /\ shaky \subseteq shaky'
         /\ v \notin shaky' =>
              \A o \in Bundles!Procs \ {p} : Bundles!Area(o) = Bundles!Area(p) => ~Staging(o, v)
  BY DEF PhpTyped, Stage, Bundles!Unpacking, Staging, Bundles!Area, Bundles!Procs

\* The Desktop looks at the next package: it passes over one that has a marker.
LEMMA PhpNextPackage ==
  ASSUME BundledAssumption, PhpInv, Bundles!NextPackage
  PROVE  PhpInv'
<1> DEFINE d == procs'["desktop"]
<1> USE DEF PhpInv, Bundles!PhpIsThere
<1>1. PICK v \in Versions : /\ v = Head(procs["desktop"].left)
                            /\ Tail(procs["desktop"].left) \in Seq(Versions)
  BY HeadTailProperties DEF Bundles!NextPackage, PhpTyped, Stage, Proc, Bundles!Procs
<1>2. /\ procs' \in [Bundles!Procs -> Proc]
      /\ d.step \in {"unpack", "receipt"} /\ d.version = v /\ d.activate = FALSE
      /\ \A o \in Bundles!Procs \ {"desktop"} : procs'[o] = procs[o]
  <2> DEFINE old == procs["desktop"]
             base == [old EXCEPT !.version = v, !.left = Tail(@)]
             new == IF Bundles!ShouldInstall(v) THEN [base EXCEPT !.step = "unpack"]
                                        ELSE [base EXCEPT !.step = "receipt"]
  <2>1. old \in Proc /\ old.activate = FALSE
    BY DEF PhpTyped, Stage, Bundles!Procs, OwnSteps
  <2>2. base \in Proc /\ base.version = v /\ base.activate = FALSE
    BY <1>1, <2>1 DEF Proc
  <2>3. /\ new \in Proc /\ new.version = v /\ new.activate = FALSE
        /\ new.step \in {"unpack", "receipt"}
    <3> HIDE DEF base
    <3>1. CASE Bundles!ShouldInstall(v)
      BY <2>2, <3>1 DEF Proc, PhpSteps
    <3>2. CASE ~Bundles!ShouldInstall(v)
      BY <2>2, <3>2 DEF Proc, PhpSteps
    <3> QED
      BY <3>1, <3>2
  <2>4. procs' = [procs EXCEPT !["desktop"] = new]
    BY <1>1 DEF Bundles!NextPackage
  <2> HIDE DEF new
  <2> QED
    BY <2>3, <2>4 DEF PhpTyped, Stage, Bundles!Procs
<1>3. UNCHANGED <<dirs, removed, receipts, active, used, asGone, confused>>
  BY DEF Bundles!NextPackage
<1>6. \/ d.step = "unpack" /\ Bundles!Unpacking("desktop", v) /\ Bundles!ShouldInstall(v)
      \/ d.step = "receipt" /\ UNCHANGED <<staging, shaky>>
  <2>1. procs["desktop"] \in Proc /\ procs \in [Bundles!Procs -> Proc]
        /\ "desktop" \in Bundles!Procs
    BY DEF PhpTyped, Stage, Bundles!Procs
  <2> DEFINE next == [procs["desktop"] EXCEPT !.version = v, !.left = Tail(@)]
  <2>2. next \in Proc
    BY <1>1, <2>1 DEF Proc
  <2>3. \/ /\ procs' = [procs EXCEPT !["desktop"] = [next EXCEPT !.step = "unpack"]]
           /\ Bundles!Unpacking("desktop", v) /\ Bundles!ShouldInstall(v)
        \/ /\ procs' = [procs EXCEPT !["desktop"] = [next EXCEPT !.step = "receipt"]]
           /\ UNCHANGED <<staging, shaky>>
    BY <1>1 DEF Bundles!NextPackage
  <2> HIDE DEF next
  <2>4. [next EXCEPT !.step = "unpack"].step = "unpack"
        /\ [next EXCEPT !.step = "receipt"].step = "receipt"
    BY <2>2 DEF Proc
  <2> QED
    BY <2>1, <2>3, <2>4
<1>4. CASE d.step = "receipt"
  <2>1. UNCHANGED <<staging, shaky>>
    BY <1>4, <1>6
  <2>2. PhpTyped'
    BY <1>1, <1>2, <1>3, <1>4, <2>1 DEF PhpTyped, Stage, Bundles!Procs, Versioned,
       Bundles!InstalledVersions, Bundles!Installed
  <2>3. OwnSteps' /\ LinkedThere' /\ Bundles!PhpIsThere'
    BY <1>2, <1>3, <1>4, <2>1 DEF OwnSteps, Bundles!Procs, LinkedThere,
       Bundles!RemovedStays, Bundles!InstalledIsWhole, Bundles!ActiveIsInstalled,
       Bundles!Installed
  <2>4. StagedAlone'
    BY <1>2, <1>4, <2>1 DEF StagedAlone, Staging, Bundles!Area
  <2>5. GoneMarked'
    BY <1>2, <1>3, <1>4 DEF GoneMarked, Bundles!Arriving, Bundles!Procs
  <2> QED
    BY <2>2, <2>3, <2>4, <2>5
<1>5. CASE d.step = "unpack"
  <2>1. Bundles!Unpacking("desktop", v) /\ Bundles!ShouldInstall(v)
    BY <1>5, <1>6
  <2>2. /\ staging' \in [Bundles!Procs -> [Versions -> Stage]]
        /\ staging'[Bundles!Area("desktop")][v].owner = "desktop"
        /\ \A q \in Bundles!Procs, w \in Versions :
             q # Bundles!Area("desktop") \/ w # v => staging'[q][w] = staging[q][w]
        /\ shaky \subseteq shaky'
        /\ v \notin shaky' =>
             \A o \in Bundles!Procs \ {"desktop"} :
               Bundles!Area(o) = Bundles!Area("desktop") => ~Staging(o, v)
    <3>1. "desktop" \in Bundles!Procs
      BY DEF Bundles!Procs
    <3> QED
      BY <1>1, <2>1, <3>1, Unpacked
  <2>3. PhpTyped'
    BY <1>1, <1>2, <1>3, <1>5, <2>2 DEF PhpTyped, Stage, Bundles!Procs, Versioned,
       Bundles!InstalledVersions, Bundles!Installed
  <2>4. OwnSteps' /\ LinkedThere' /\ Bundles!RemovedStays' /\ Bundles!ActiveIsInstalled'
    BY <1>2, <1>3, <1>5 DEF OwnSteps, Bundles!Procs, LinkedThere, Bundles!RemovedStays,
       Bundles!ActiveIsInstalled, Bundles!Installed
  <2>5. StagedAlone'
    BY <1>1, <1>2, <1>5, <2>2 DEF StagedAlone, Staging, Bundles!Area, Bundles!Procs,
       OwnSteps
  <2>6. GoneMarked'
    BY <1>2, <1>3, <1>5, <2>1 DEF GoneMarked, Bundles!Arriving, Bundles!Procs,
       Bundles!ShouldInstall
  <2>7. Bundles!InstalledIsWhole'
    BY <1>1, <1>3, <2>2 DEF Bundles!InstalledIsWhole, Bundles!Procs
  <2> QED
    BY <2>3, <2>4, <2>5, <2>6, <2>7
<1> QED
  BY <1>2, <1>4, <1>5

\* All packages are there: the Desktop chooses a global PHP that is.
LEMMA PhpActivate ==
  ASSUME BundledAssumption, PhpInv, Bundles!Activate
  PROVE  PhpInv'
<1> USE DEF PhpInv, Bundles!PhpIsThere
<1>1. UNCHANGED <<dirs, staging, removed, receipts, active, used, asGone, shaky, confused>>
  BY DEF Bundles!Activate
<1>2. /\ procs' \in [Bundles!Procs -> Proc]
      /\ procs'["desktop"].step \in {"idle", "demo", "link"} /\ procs'["desktop"].activate = FALSE
      /\ procs'["desktop"].step = "link" => /\ procs'["desktop"].version \in Versions
                                            /\ Bundles!Installed(procs'["desktop"].version)
      /\ \A o \in Bundles!Procs \ {"desktop"} : procs'[o] = procs[o]
  <2>1. CASE Bundles!Step("desktop", "demo") \/ Bundles!End("desktop")
    BY <2>1, Stepped, Ended DEF PhpTyped, Stage, OwnSteps, Bundles!Procs, PhpSteps,
       Bundles!Idle, Proc
  <2>2. ASSUME
               NEW v \in IF Bundles!Installed(Default) THEN {Default}
                                              ELSE Bundles!InstalledVersions,
               procs' = [procs EXCEPT !["desktop"].step = "link", !["desktop"].version = v]
        PROVE  <1>2!:
    <3>1. v \in Versions /\ Bundles!Installed(v)
      BY DEF BundledAssumption, Bundles!InstalledVersions
    <3> QED
      BY <2>2, <3>1 DEF PhpTyped, Stage, OwnSteps, Bundles!Procs, PhpSteps, Proc
  <2> QED
    BY <2>1, <2>2 DEF Bundles!Activate
<1>3. PhpTyped'
  BY <1>1, <1>2 DEF PhpTyped, Stage, Bundles!Procs, Versioned, Bundles!InstalledVersions,
     Bundles!Installed
<1>4. OwnSteps' /\ LinkedThere' /\ Bundles!PhpIsThere'
  BY <1>1, <1>2 DEF OwnSteps, Bundles!Procs, LinkedThere, Bundles!RemovedStays,
     Bundles!InstalledIsWhole, Bundles!ActiveIsInstalled, Bundles!Installed
<1>5. StagedAlone' /\ GoneMarked'
  BY <1>1, <1>2 DEF StagedAlone, Staging, Bundles!Area, GoneMarked, Bundles!Arriving,
     Bundles!Procs
<1> QED
  BY <1>3, <1>4, <1>5


\* What a record that is marked whole looks like.
LEMMA Marked ==
  ASSUME NEW O, NEW r \in [owner : O, whole : BOOLEAN], NEW x \in BOOLEAN
  PROVE  /\ [r EXCEPT !.whole = x] \in [owner : O, whole : BOOLEAN]
         /\ [r EXCEPT !.whole = x].whole = x
         /\ [r EXCEPT !.whole = x].owner = r.owner
<1> DEFINE m == [r EXCEPT !.whole = x]
<1>1. m.owner = r.owner
  OBVIOUS
<1>2. m.whole = x
  BY Zenon
<1>3. m = [owner |-> r.owner, whole |-> x]
  OBVIOUS
<1>4. m \in [owner : O, whole : BOOLEAN]
  BY <1>3
<1> QED
  BY <1>1, <1>2, <1>4

\* Only its owner makes a staging directory whole.
LEMMA PhpUnpack ==
  ASSUME BundledAssumption, PhpInv, NEW p \in Bundles!Procs, Bundles!Unpack(p)
  PROVE  PhpInv'
<1> DEFINE q == Bundles!Area(p)
           v == procs[p].version
<1> USE DEF PhpInv, Bundles!PhpIsThere
<1>1. /\ procs' \in [Bundles!Procs -> Proc]
      /\ procs'[p].step = "place" /\ procs'[p].version = v
      /\ procs'[p].activate = procs[p].activate
      /\ \A o \in Bundles!Procs \ {p} : procs'[o] = procs[o]
  <2>1. procs \in [Bundles!Procs -> Proc] /\ "place" \in PhpSteps /\ Bundles!Step(p, "place")
    BY DEF Bundles!Unpack, PhpTyped, Stage, PhpSteps
  <2> QED
    BY <2>1, Stepped DEF Proc
<1>2. v \in Versions /\ q \in Bundles!Procs /\ Staging(p, v)
  BY DEF Bundles!Unpack, PhpTyped, Stage, Versioned, PhpSteps, Bundles!Area, Bundles!Procs,
     Staging
<1>3. /\ UNCHANGED <<dirs, removed, receipts, active, used, asGone, shaky, confused>>
      /\ staging' = [staging EXCEPT ![q][v].whole = (@ \/ staging[q][v].owner = p)]
  BY DEF Bundles!Unpack
<1>4. staging[q][v] \in Stage
  BY <1>2 DEF PhpTyped, Stage, Stage
<1>5. /\ staging' \in [Bundles!Procs -> [Versions -> Stage]]
      /\ \A r \in Bundles!Procs, w \in Versions :
             r # q \/ w # v => staging'[r][w] = staging[r][w]
      /\ staging'[q][v].owner = staging[q][v].owner
      /\ staging[q][v].owner = p => staging'[q][v].whole
  <2> DEFINE b == staging[q][v].whole \/ staging[q][v].owner = p
             new == [staging[q][v] EXCEPT !.whole = b]
  <2>1. b \in BOOLEAN /\ (staging[q][v].owner = p => b)
    OBVIOUS
  <2>2. staging' = [staging EXCEPT ![q][v] = new]
    BY <1>2, <1>3 DEF PhpTyped, Stage, Stage
  <2> HIDE DEF b
  <2>3. /\ new \in Stage
        /\ new.whole = b /\ new.owner = staging[q][v].owner
    BY <1>4, <2>1, Marked DEF Stage
  <2> HIDE DEF new
  <2> QED
    BY <1>2, <2>1, <2>2, <2>3 DEF PhpTyped, Stage, Stage
<1>6. PhpTyped'
  BY <1>1, <1>2, <1>3, <1>5 DEF PhpTyped, Stage, Versioned, Bundles!InstalledVersions,
     Bundles!Installed
<1>7. OwnSteps' /\ LinkedThere' /\ Bundles!PhpIsThere'
  BY <1>1, <1>3 DEF Bundles!Unpack, OwnSteps, Bundles!Procs, LinkedThere,
     Bundles!RemovedStays, Bundles!InstalledIsWhole, Bundles!ActiveIsInstalled,
     Bundles!Installed
<1>8. StagedAlone'
  <2> SUFFICES ASSUME NEW o \in Bundles!Procs, NEW w \in Versions \ shaky, Staging(o, w)'
               PROVE  /\ \A r \in Bundles!Procs \ {o} :
                            Bundles!Area(r) = Bundles!Area(o) => ~Staging(r, w)'
                      /\ staging'[Bundles!Area(o)][w].owner = o
                      /\ procs'[o].step = "place" => staging'[Bundles!Area(o)][w].whole
    BY <1>3 DEF StagedAlone, Bundles!Area
  <2>1. /\ Staging(o, w)
        /\ \A r \in Bundles!Procs : Staging(r, w)' => Staging(r, w)
    BY <1>1, <1>2 DEF Staging
  <2>2. /\ \A r \in Bundles!Procs \ {o} : Bundles!Area(r) = Bundles!Area(o) => ~Staging(r, w)
        /\ staging[Bundles!Area(o)][w].owner = o
        /\ procs[o].step = "place" => staging[Bundles!Area(o)][w].whole
        /\ Bundles!Area(o) \in Bundles!Procs
    BY <2>1 DEF StagedAlone, Bundles!Area, Bundles!Procs
  <2>3. CASE o = p
    BY <1>1, <1>2, <1>5, <2>1, <2>2, <2>3 DEF Staging
  <2>4. CASE o # p
    <3>1. Bundles!Area(o) # q \/ w # v
      BY <1>2, <2>2, <2>4
    <3> QED
      BY <1>1, <1>5, <2>1, <2>2, <2>4, <3>1
  <2> QED
    BY <2>3, <2>4
<1>9. GoneMarked'
  BY <1>1, <1>3 DEF Bundles!Unpack, GoneMarked, Bundles!Arriving, Bundles!Procs
<1> QED
  BY <1>6, <1>7, <1>8, <1>9


\* What was staged alone is placed whole, and no removed version is.
LEMMA PhpPlace ==
  ASSUME BundledAssumption, PhpInv, NEW p \in Bundles!Procs, Bundles!Place(p)
  PROVE  PhpInv'
<1> DEFINE q == Bundles!Area(p)
           v == procs[p].version
<1> USE DEF PhpInv, Bundles!PhpIsThere
<1>1. v \in Versions /\ q \in Bundles!Procs /\ Staging(p, v)
  BY DEF Bundles!Place, PhpTyped, Stage, Versioned, PhpSteps, Bundles!Area, Bundles!Procs,
     Staging
<1>2. UNCHANGED <<removed, active, used, shaky, confused>>
  BY DEF Bundles!Place
<1>3. CASE Bundles!Installed(v) \/ staging[q][v].owner = None
  <2>1. Bundles!End(p) /\ UNCHANGED <<dirs, staging, receipts, asGone>>
    BY <1>3 DEF Bundles!Place
  <2>2. /\ procs' \in [Bundles!Procs -> Proc] /\ procs'[p].step = "idle"
        /\ procs'[p].activate = FALSE
        /\ \A o \in Bundles!Procs \ {p} : procs'[o] = procs[o]
    BY <2>1, Ended DEF PhpTyped, Stage, Bundles!Idle
  <2>3. PhpTyped'
    BY <1>2, <2>1, <2>2 DEF PhpTyped, Stage, Versioned, Bundles!InstalledVersions,
       Bundles!Installed
  <2>4. OwnSteps' /\ LinkedThere' /\ Bundles!PhpIsThere'
    BY <1>2, <2>1, <2>2 DEF OwnSteps, Bundles!Procs, LinkedThere, Bundles!RemovedStays,
       Bundles!InstalledIsWhole, Bundles!ActiveIsInstalled, Bundles!Installed
  <2>5. StagedAlone' /\ GoneMarked'
    BY <1>2, <2>1, <2>2 DEF StagedAlone, Staging, Bundles!Area, GoneMarked,
       Bundles!Arriving, Bundles!Procs
  <2> QED
    BY <2>3, <2>4, <2>5
<1>4. CASE ~(Bundles!Installed(v) \/ staging[q][v].owner = None)
  <2> DEFINE s == IF procs[p].activate THEN "activate" ELSE "placed"
  <2>1. /\ dirs' = [dirs EXCEPT ![v] = IF staging[q][v].whole THEN "whole" ELSE "part"]
        /\ staging' = [staging EXCEPT ![q][v] = [owner |-> None, whole |-> FALSE]]
        /\ receipts' = receipts \ {v}
        /\ asGone' = IF p = "agent" THEN asGone \ {v} ELSE asGone
        /\ Bundles!Step(p, s)
    BY <1>4 DEF Bundles!Place
  <2>2. /\ procs' \in [Bundles!Procs -> Proc]
        /\ procs'[p].step = s /\ procs'[p].version = v
        /\ procs'[p].activate = procs[p].activate
        /\ \A o \in Bundles!Procs \ {p} : procs'[o] = procs[o]
    <3>1. procs \in [Bundles!Procs -> Proc] /\ s \in PhpSteps
      BY DEF PhpTyped, Stage, PhpSteps
    <3> HIDE DEF s
    <3> QED
      BY <2>1, <3>1, Stepped DEF Proc
  <2>3. /\ dirs' \in [Versions -> {"none", "part", "whole"}]
        /\ dirs'[v] # "none" /\ \A w \in Versions \ {v} : dirs'[w] = dirs[w]
    BY <1>1, <2>1 DEF PhpTyped, Stage, Stage
  <2>4. /\ staging' \in [Bundles!Procs -> [Versions -> Stage]]
        /\ \A r \in Bundles!Procs, w \in Versions :
             r # q \/ w # v => staging'[r][w] = staging[r][w]
    BY <1>1, <2>1, Z3 DEF PhpTyped, Stage, Stage
  <2>5. PhpTyped'
    BY <1>1, <1>2, <2>1, <2>2, <2>3, <2>4 DEF PhpTyped, Stage, Versioned,
       Bundles!InstalledVersions, Bundles!Installed
  <2>6. OwnSteps' /\ LinkedThere' /\ Bundles!ActiveIsInstalled'
    BY <1>1, <1>2, <2>2, <2>3 DEF OwnSteps, Bundles!Procs, LinkedThere,
       Bundles!ActiveIsInstalled, Bundles!Installed, PhpTyped, Stage, Proc, Versioned,
       PhpSteps
  <2>7. v \notin asGone'
    BY <1>1, <2>1 DEF GoneMarked, Bundles!Arriving, Bundles!Place, Bundles!Procs
  <2>8. GoneMarked'
    BY <1>1, <1>2, <2>1, <2>2, <2>7 DEF GoneMarked, Bundles!Arriving, Bundles!Procs,
       Bundles!Place
  <2>9. Bundles!RemovedStays'
    BY <1>1, <2>1, <2>3, <2>7 DEF Bundles!RemovedStays, Bundles!Installed, GoneMarked,
       PhpTyped
  <2>10. Bundles!InstalledIsWhole'
    BY <1>1, <1>2, <2>1, <2>3 DEF Bundles!InstalledIsWhole, StagedAlone, Bundles!Place
  <2>11. StagedAlone'
    <3> SUFFICES ASSUME NEW o \in Bundles!Procs, NEW w \in Versions \ shaky, Staging(o, w)'
                 PROVE  /\ \A r \in Bundles!Procs \ {o} :
                            Bundles!Area(r) = Bundles!Area(o) => ~Staging(r, w)'
                        /\ staging'[Bundles!Area(o)][w].owner = o
                        /\ procs'[o].step = "place" => staging'[Bundles!Area(o)][w].whole
      BY <1>2 DEF StagedAlone, Bundles!Area
    <3>1. /\ o # p /\ Staging(o, w) /\ procs'[o] = procs[o]
          /\ \A r \in Bundles!Procs : Staging(r, w)' => Staging(r, w)
      BY <2>2 DEF Staging
    <3>2. Bundles!Area(o) \in Bundles!Procs /\ (Bundles!Area(o) # q \/ w # v)
      BY <1>1, <3>1 DEF StagedAlone, Bundles!Area, Bundles!Procs
    <3> QED
      BY <2>4, <3>1, <3>2 DEF StagedAlone
  <2> QED
    BY <2>5, <2>6, <2>8, <2>9, <2>10, <2>11
<1> QED
  BY <1>3, <1>4


\* A start begins with the list of bundled packages.
LEMMA PhpLaunch ==
  ASSUME BundledAssumption, PhpInv, Bundles!Launch
  PROVE  PhpInv'
<1> USE DEF PhpInv, Bundles!PhpIsThere, Bundles!Procs, PhpTyped, Stage, Proc, PhpSteps,
   Versioned, OwnSteps
<1>1. /\ procs' \in [Bundles!Procs -> Proc]
      /\ procs'["desktop"].step = "package"
      /\ procs'["desktop"].activate = FALSE
      /\ \A o \in Bundles!Procs \ {"desktop"} : procs'[o] = procs[o]
  BY Stepped, Ended, IdleProc DEF Bundles!Launch, BundledAssumption, Bundles!Idle,
     Bundles!Request
<1>2. PhpTyped' /\ OwnSteps'
  BY <1>1 DEF Bundles!Launch, Bundles!Installed, Bundles!InstalledVersions,
     Bundles!EnsureReceipt, Bundles!Unpacking, Bundles!Area, Bundles!Request, Bundles!Fault,
     Bundles!bounds
<1>3. StagedAlone' /\ GoneMarked'
  BY <1>1 DEF Bundles!Launch, StagedAlone, Staging, GoneMarked, Bundles!Arriving,
     Bundles!Area, Bundles!Unpacking, Bundles!Request, Bundles!Fault, Bundles!bounds
<1>4. LinkedThere' /\ Bundles!ActiveIsInstalled'
  BY <1>1 DEF Bundles!Launch, LinkedThere, Bundles!ActiveIsInstalled, Bundles!Installed,
     Bundles!Refusing, Bundles!Request, Bundles!Fault, Bundles!bounds
<1>5. Bundles!RemovedStays' /\ Bundles!InstalledIsWhole'
  BY <1>1 DEF Bundles!Launch, Bundles!RemovedStays, GoneMarked, Bundles!InstalledIsWhole,
     Bundles!Installed, Bundles!Unpacking, Bundles!Area, Bundles!Request, Bundles!Fault,
     Bundles!bounds
<1> QED
  BY <1>2, <1>3, <1>4, <1>5

\* A receipt is written for what is there.
LEMMA PhpReceipt ==
  ASSUME BundledAssumption, PhpInv, Bundles!Receipt
  PROVE  PhpInv'
<1> USE DEF PhpInv, Bundles!PhpIsThere, Bundles!Procs, PhpTyped, Stage, Proc, PhpSteps,
   Versioned, OwnSteps
<1>1. /\ procs' \in [Bundles!Procs -> Proc]
      /\ procs'["desktop"].step = "package"
      /\ procs'["desktop"].version = procs["desktop"].version
      /\ procs'["desktop"].activate = procs["desktop"].activate
      /\ \A o \in Bundles!Procs \ {"desktop"} : procs'[o] = procs[o]
  BY Stepped, Ended, IdleProc DEF Bundles!Receipt, BundledAssumption, Bundles!Idle,
     Bundles!Request
<1>2. PhpTyped' /\ OwnSteps'
  BY <1>1 DEF Bundles!Receipt, Bundles!Installed, Bundles!InstalledVersions,
     Bundles!EnsureReceipt, Bundles!Unpacking, Bundles!Area, Bundles!Request, Bundles!Fault,
     Bundles!bounds
<1>3. StagedAlone' /\ GoneMarked'
  BY <1>1 DEF Bundles!Receipt, StagedAlone, Staging, GoneMarked, Bundles!Arriving,
     Bundles!Area, Bundles!Unpacking, Bundles!Request, Bundles!Fault, Bundles!bounds
<1>4. LinkedThere' /\ Bundles!ActiveIsInstalled'
  BY <1>1 DEF Bundles!Receipt, LinkedThere, Bundles!ActiveIsInstalled, Bundles!Installed,
     Bundles!Refusing, Bundles!Request, Bundles!Fault, Bundles!bounds
<1>5. Bundles!RemovedStays' /\ Bundles!InstalledIsWhole'
  BY <1>1 DEF Bundles!Receipt, Bundles!RemovedStays, GoneMarked, Bundles!InstalledIsWhole,
     Bundles!Installed, Bundles!Unpacking, Bundles!Area, Bundles!Request, Bundles!Fault,
     Bundles!bounds
<1> QED
  BY <1>2, <1>3, <1>4, <1>5

\* The Desktop sets the link to what it has chosen.
LEMMA PhpLink ==
  ASSUME BundledAssumption, PhpInv, Bundles!Link
  PROVE  PhpInv'
<1> USE DEF PhpInv, Bundles!PhpIsThere, Bundles!Procs, PhpTyped, Stage, Proc, PhpSteps,
   Versioned, OwnSteps
<1>1. /\ procs' \in [Bundles!Procs -> Proc]
      /\ procs'["desktop"].step = "demo"
      /\ procs'["desktop"].version = procs["desktop"].version
      /\ procs'["desktop"].activate = procs["desktop"].activate
      /\ \A o \in Bundles!Procs \ {"desktop"} : procs'[o] = procs[o]
  BY Stepped, Ended, IdleProc DEF Bundles!Link, BundledAssumption, Bundles!Idle,
     Bundles!Request
<1>2. PhpTyped' /\ OwnSteps'
  BY <1>1 DEF Bundles!Link, Bundles!Installed, Bundles!InstalledVersions,
     Bundles!EnsureReceipt, Bundles!Unpacking, Bundles!Area, Bundles!Request, Bundles!Fault,
     Bundles!bounds
<1>3. StagedAlone' /\ GoneMarked'
  BY <1>1 DEF Bundles!Link, StagedAlone, Staging, GoneMarked, Bundles!Arriving,
     Bundles!Area, Bundles!Unpacking, Bundles!Request, Bundles!Fault, Bundles!bounds
<1>4. ~confused' => ~confused /\ procs["agent"].step # "removing"
  BY Zenon DEF Bundles!Link
<1>5. LinkedThere' /\ Bundles!ActiveIsInstalled'
  BY <1>1, <1>4 DEF Bundles!Link, LinkedThere, Bundles!ActiveIsInstalled, Bundles!Installed,
     Bundles!Request, Bundles!Fault, Bundles!bounds
<1>6. Bundles!RemovedStays' /\ Bundles!InstalledIsWhole'
  BY <1>1 DEF Bundles!Link, Bundles!RemovedStays, GoneMarked, Bundles!InstalledIsWhole,
     Bundles!Installed, Bundles!Unpacking, Bundles!Area, Bundles!Request, Bundles!Fault,
     Bundles!bounds
<1> QED
  BY <1>2, <1>3, <1>4, <1>5, <1>6

\* The demo Site.
LEMMA PhpDemo ==
  ASSUME BundledAssumption, PhpInv, Bundles!Demo
  PROVE  PhpInv'
<1> USE DEF PhpInv, Bundles!PhpIsThere, Bundles!Procs, PhpTyped, Stage, Proc, PhpSteps,
   Versioned, OwnSteps
<1>1. /\ procs' \in [Bundles!Procs -> Proc]
      /\ procs'["desktop"].step = "idle"
      /\ procs'["desktop"].activate = FALSE
      /\ \A o \in Bundles!Procs \ {"desktop"} : procs'[o] = procs[o]
  <2>1. Bundles!End("desktop")
    BY DEF Bundles!Demo
  <2>2. /\ procs' \in [Bundles!Procs -> Proc]
        /\ procs'["desktop"] = Bundles!Idle
        /\ \A o \in Bundles!Procs \ {"desktop"} : procs'[o] = procs[o]
    BY <2>1, Ended
  <2> QED
    BY <2>2 DEF Bundles!Idle
<1>2. PhpTyped' /\ OwnSteps'
  <2>1. \A p \in Bundles!Procs : procs'[p].step \in Versioned => procs'[p].version \in Versions
    BY <1>1
  <2>2. PhpTyped'
    BY <1>1, <2>1 DEF Bundles!Demo, Bundles!Installed, Bundles!InstalledVersions
  <2>3. OwnSteps'
    BY <1>1
  <2> QED
    BY <2>2, <2>3
<1>3. StagedAlone' /\ GoneMarked'
  BY <1>1 DEF Bundles!Demo, StagedAlone, Staging, GoneMarked, Bundles!Arriving,
     Bundles!Area, Bundles!Unpacking, Bundles!Request, Bundles!Fault, Bundles!bounds
<1>4. LinkedThere' /\ Bundles!ActiveIsInstalled'
  BY <1>1 DEF Bundles!Demo, LinkedThere, Bundles!ActiveIsInstalled, Bundles!Installed,
     Bundles!Refusing, Bundles!Request, Bundles!Fault, Bundles!bounds
<1>5. Bundles!RemovedStays' /\ Bundles!InstalledIsWhole'
  BY <1>1 DEF Bundles!Demo, Bundles!RemovedStays, GoneMarked, Bundles!InstalledIsWhole,
     Bundles!Installed, Bundles!Unpacking, Bundles!Area, Bundles!Request, Bundles!Fault,
     Bundles!bounds
<1> QED
  BY <1>2, <1>3, <1>4, <1>5

\* The installer takes the marker of a removal away.
LEMMA PhpPlaced ==
  ASSUME BundledAssumption, PhpInv, NEW p \in Bundles!Procs, Bundles!Placed(p)
  PROVE  PhpInv'
<1> USE DEF PhpInv, Bundles!PhpIsThere, Bundles!Procs, PhpTyped, Stage, Proc, PhpSteps,
   Versioned, OwnSteps
<1>1. /\ procs' \in [Bundles!Procs -> Proc]
      /\ procs'[p].step \in {"idle", "receipt"}
      /\ procs'[p].step = "receipt" => p = "desktop" /\ procs'[p].version = procs[p].version
      /\ procs[p].activate = FALSE => procs'[p].activate = FALSE
      /\ \A o \in Bundles!Procs \ {p} : procs'[o] = procs[o]
  BY Stepped, Ended, IdleProc DEF Bundles!Placed, BundledAssumption, Bundles!Idle,
     Bundles!Request
<1>2. PhpTyped' /\ OwnSteps'
  BY <1>1 DEF Bundles!Placed, Bundles!Installed, Bundles!InstalledVersions,
     Bundles!EnsureReceipt, Bundles!Unpacking, Bundles!Area, Bundles!Request, Bundles!Fault,
     Bundles!bounds
<1>3. StagedAlone' /\ GoneMarked'
  BY <1>1 DEF Bundles!Placed, StagedAlone, Staging, GoneMarked, Bundles!Arriving,
     Bundles!Area, Bundles!Unpacking, Bundles!Request, Bundles!Fault, Bundles!bounds
<1>4. LinkedThere' /\ Bundles!ActiveIsInstalled'
  BY <1>1 DEF Bundles!Placed, LinkedThere, Bundles!ActiveIsInstalled, Bundles!Installed,
     Bundles!Refusing, Bundles!Request, Bundles!Fault, Bundles!bounds
<1>5. Bundles!RemovedStays' /\ Bundles!InstalledIsWhole'
  BY <1>1 DEF Bundles!Placed, Bundles!RemovedStays, GoneMarked, Bundles!InstalledIsWhole,
     Bundles!Installed, Bundles!Unpacking, Bundles!Area, Bundles!Request, Bundles!Fault,
     Bundles!bounds
<1> QED
  BY <1>2, <1>3, <1>4, <1>5

\* A process dies or gives up: what it has staged stays.
LEMMA PhpStop ==
  ASSUME BundledAssumption, PhpInv, NEW p \in Bundles!Procs, Bundles!Stop(p)
  PROVE  PhpInv'
<1> USE DEF PhpInv, Bundles!PhpIsThere, Bundles!Procs, PhpTyped, Stage, Proc, PhpSteps,
   Versioned, OwnSteps
<1>1. /\ procs' \in [Bundles!Procs -> Proc]
      /\ procs'[p].step = "idle"
      /\ procs'[p].activate = FALSE
      /\ \A o \in Bundles!Procs \ {p} : procs'[o] = procs[o]
  BY Stepped, Ended, IdleProc DEF Bundles!Stop, BundledAssumption, Bundles!Idle,
     Bundles!Request
<1>2. PhpTyped' /\ OwnSteps'
  BY <1>1 DEF Bundles!Stop, Bundles!Installed, Bundles!InstalledVersions,
     Bundles!EnsureReceipt, Bundles!Unpacking, Bundles!Area, Bundles!Request, Bundles!Fault,
     Bundles!bounds
<1>3. StagedAlone' /\ GoneMarked'
  BY <1>1 DEF Bundles!Stop, StagedAlone, Staging, GoneMarked, Bundles!Arriving,
     Bundles!Area, Bundles!Unpacking, Bundles!Request, Bundles!Fault, Bundles!bounds
<1>4. LinkedThere' /\ Bundles!ActiveIsInstalled'
  BY <1>1 DEF Bundles!Stop, LinkedThere, Bundles!ActiveIsInstalled, Bundles!Installed,
     Bundles!Refusing, Bundles!Request, Bundles!Fault, Bundles!bounds
<1>5. Bundles!RemovedStays' /\ Bundles!InstalledIsWhole'
  BY <1>1 DEF Bundles!Stop, Bundles!RemovedStays, GoneMarked, Bundles!InstalledIsWhole,
     Bundles!Installed, Bundles!Unpacking, Bundles!Area, Bundles!Request, Bundles!Fault,
     Bundles!bounds
<1> QED
  BY <1>2, <1>3, <1>4, <1>5

\* The Agent begins to unpack.
LEMMA PhpInstallPhpRuntime ==
  ASSUME BundledAssumption, PhpInv, NEW v \in Versions, Bundles!InstallPhpRuntime(v)
  PROVE  PhpInv'
<1> USE DEF PhpInv, Bundles!PhpIsThere, Bundles!Procs, PhpTyped, Stage, Proc, PhpSteps,
   Versioned, OwnSteps
<1>1. /\ procs' \in [Bundles!Procs -> Proc]
      /\ procs'["agent"].step = "unpack"
      /\ procs'["agent"].version = v
      /\ \A o \in Bundles!Procs \ {"agent"} : procs'[o] = procs[o]
  BY Stepped, Ended, IdleProc DEF Bundles!InstallPhpRuntime, BundledAssumption,
     Bundles!Idle, Bundles!Request
<1>2. PhpTyped' /\ OwnSteps'
  BY <1>1 DEF Bundles!InstallPhpRuntime, Bundles!Installed, Bundles!InstalledVersions,
     Bundles!EnsureReceipt, Bundles!Unpacking, Bundles!Area, Bundles!Request, Bundles!Fault,
     Bundles!bounds
<1>3. StagedAlone' /\ GoneMarked'
  BY <1>1 DEF Bundles!InstallPhpRuntime, StagedAlone, Staging, GoneMarked, Bundles!Arriving,
     Bundles!Area, Bundles!Unpacking, Bundles!Request, Bundles!Fault, Bundles!bounds
<1>4. LinkedThere' /\ Bundles!ActiveIsInstalled'
  BY <1>1 DEF Bundles!InstallPhpRuntime, LinkedThere, Bundles!ActiveIsInstalled,
     Bundles!Installed, Bundles!Refusing, Bundles!Request, Bundles!Fault, Bundles!bounds
<1>5. Bundles!RemovedStays' /\ Bundles!InstalledIsWhole'
  BY <1>1 DEF Bundles!InstallPhpRuntime, Bundles!RemovedStays, GoneMarked,
     Bundles!InstalledIsWhole, Bundles!Installed, Bundles!Unpacking, Bundles!Area,
     Bundles!Request, Bundles!Fault, Bundles!bounds
<1> QED
  BY <1>2, <1>3, <1>4, <1>5

\* Another version becomes the global one.
LEMMA PhpSetGlobalPhp ==
  ASSUME BundledAssumption, PhpInv, NEW v \in Versions, Bundles!SetGlobalPhp(v)
  PROVE  PhpInv'
<1> USE DEF PhpInv, Bundles!PhpIsThere, Bundles!Procs, PhpTyped, Stage, Proc, PhpSteps,
   Versioned, OwnSteps
<1>1. /\ procs' = procs
      /\ procs["agent"].step = "idle"
  BY Stepped, Ended, IdleProc DEF Bundles!SetGlobalPhp, BundledAssumption, Bundles!Idle,
     Bundles!Request
<1>2. PhpTyped' /\ OwnSteps'
  BY <1>1 DEF Bundles!SetGlobalPhp, Bundles!Installed, Bundles!InstalledVersions,
     Bundles!EnsureReceipt, Bundles!Unpacking, Bundles!Area, Bundles!Request, Bundles!Fault,
     Bundles!bounds
<1>3. StagedAlone' /\ GoneMarked'
  BY <1>1 DEF Bundles!SetGlobalPhp, StagedAlone, Staging, GoneMarked, Bundles!Arriving,
     Bundles!Area, Bundles!Unpacking, Bundles!Request, Bundles!Fault, Bundles!bounds
<1>4. LinkedThere' /\ Bundles!ActiveIsInstalled'
  BY <1>1 DEF Bundles!SetGlobalPhp, LinkedThere, Bundles!ActiveIsInstalled,
     Bundles!Installed, Bundles!Refusing, Bundles!Request, Bundles!Fault, Bundles!bounds
<1>5. Bundles!RemovedStays' /\ Bundles!InstalledIsWhole'
  BY <1>1 DEF Bundles!SetGlobalPhp, Bundles!RemovedStays, GoneMarked,
     Bundles!InstalledIsWhole, Bundles!Installed, Bundles!Unpacking, Bundles!Area,
     Bundles!Request, Bundles!Fault, Bundles!bounds
<1> QED
  BY <1>2, <1>3, <1>4, <1>5

\* A removal that no Site prevents.
LEMMA PhpRemovePhpRuntime ==
  ASSUME BundledAssumption, PhpInv, NEW v \in Versions, Bundles!RemovePhpRuntime(v)
  PROVE  PhpInv'
<1> USE DEF PhpInv, Bundles!PhpIsThere, Bundles!Procs, PhpTyped, Stage, Proc, PhpSteps,
   Versioned, OwnSteps
<1>1. /\ procs' \in [Bundles!Procs -> Proc]
      /\ procs'["agent"].step = "mark"
      /\ procs'["agent"].version = v
      /\ \A o \in Bundles!Procs \ {"agent"} : procs'[o] = procs[o]
  BY Stepped, Ended, IdleProc DEF Bundles!RemovePhpRuntime, BundledAssumption, Bundles!Idle,
     Bundles!Request
<1>2. PhpTyped' /\ OwnSteps'
  BY <1>1 DEF Bundles!RemovePhpRuntime, Bundles!Installed, Bundles!InstalledVersions,
     Bundles!EnsureReceipt, Bundles!Unpacking, Bundles!Area, Bundles!Request, Bundles!Fault,
     Bundles!bounds
<1>3. StagedAlone' /\ GoneMarked'
  BY <1>1 DEF Bundles!RemovePhpRuntime, StagedAlone, Staging, GoneMarked, Bundles!Arriving,
     Bundles!Area, Bundles!Unpacking, Bundles!Request, Bundles!Fault, Bundles!bounds
<1>4. LinkedThere' /\ Bundles!ActiveIsInstalled'
  BY <1>1 DEF Bundles!RemovePhpRuntime, LinkedThere, Bundles!ActiveIsInstalled,
     Bundles!Installed, Bundles!Refusing, Bundles!Request, Bundles!Fault, Bundles!bounds
<1>5. Bundles!RemovedStays' /\ Bundles!InstalledIsWhole'
  BY <1>1 DEF Bundles!RemovePhpRuntime, Bundles!RemovedStays, GoneMarked,
     Bundles!InstalledIsWhole, Bundles!Installed, Bundles!Unpacking, Bundles!Area,
     Bundles!Request, Bundles!Fault, Bundles!bounds
<1> QED
  BY <1>2, <1>3, <1>4, <1>5

\* The first PHP becomes the global one.
LEMMA PhpSwitchInstalled ==
  ASSUME BundledAssumption, PhpInv, Bundles!SwitchInstalled
  PROVE  PhpInv'
<1> USE DEF PhpInv, Bundles!PhpIsThere, Bundles!Procs, PhpTyped, Stage, Proc, PhpSteps,
   Versioned, OwnSteps
<1>1. /\ procs' \in [Bundles!Procs -> Proc]
      /\ procs'["agent"].step = "placed"
      /\ procs'["agent"].version = procs["agent"].version
      /\ procs'["agent"].activate = procs["agent"].activate
      /\ \A o \in Bundles!Procs \ {"agent"} : procs'[o] = procs[o]
  BY Stepped, Ended, IdleProc DEF Bundles!SwitchInstalled, BundledAssumption, Bundles!Idle,
     Bundles!Request
<1>2. PhpTyped' /\ OwnSteps'
  BY <1>1 DEF Bundles!SwitchInstalled, Bundles!Installed, Bundles!InstalledVersions,
     Bundles!EnsureReceipt, Bundles!Unpacking, Bundles!Area, Bundles!Request, Bundles!Fault,
     Bundles!bounds
<1>3. StagedAlone' /\ GoneMarked'
  BY <1>1 DEF Bundles!SwitchInstalled, StagedAlone, Staging, GoneMarked, Bundles!Arriving,
     Bundles!Area, Bundles!Unpacking, Bundles!Request, Bundles!Fault, Bundles!bounds
<1>4. LinkedThere' /\ Bundles!ActiveIsInstalled'
  BY <1>1 DEF Bundles!SwitchInstalled, LinkedThere, Bundles!ActiveIsInstalled,
     Bundles!Installed, Bundles!Refusing, Bundles!Request, Bundles!Fault, Bundles!bounds
<1>5. Bundles!RemovedStays' /\ Bundles!InstalledIsWhole'
  BY <1>1 DEF Bundles!SwitchInstalled, Bundles!RemovedStays, GoneMarked,
     Bundles!InstalledIsWhole, Bundles!Installed, Bundles!Unpacking, Bundles!Area,
     Bundles!Request, Bundles!Fault, Bundles!bounds
<1> QED
  BY <1>2, <1>3, <1>4, <1>5

\* The marker of a removal.
LEMMA PhpMark ==
  ASSUME BundledAssumption, PhpInv, Bundles!Mark
  PROVE  PhpInv'
<1> USE DEF PhpInv, Bundles!PhpIsThere, Bundles!Procs, PhpTyped, Stage, Proc, PhpSteps,
   Versioned, OwnSteps
<1>1. /\ procs' \in [Bundles!Procs -> Proc]
      /\ procs'["agent"].step = "remove"
      /\ procs'["agent"].version = procs["agent"].version
      /\ procs'["agent"].activate = procs["agent"].activate
      /\ \A o \in Bundles!Procs \ {"agent"} : procs'[o] = procs[o]
  BY Stepped, Ended, IdleProc DEF Bundles!Mark, BundledAssumption, Bundles!Idle,
     Bundles!Request
<1>2. PhpTyped' /\ OwnSteps'
  BY <1>1 DEF Bundles!Mark, Bundles!Installed, Bundles!InstalledVersions,
     Bundles!EnsureReceipt, Bundles!Unpacking, Bundles!Area, Bundles!Request, Bundles!Fault,
     Bundles!bounds
<1>3. StagedAlone' /\ GoneMarked'
  BY <1>1 DEF Bundles!Mark, StagedAlone, Staging, GoneMarked, Bundles!Arriving,
     Bundles!Area, Bundles!Unpacking, Bundles!Request, Bundles!Fault, Bundles!bounds
<1>4. LinkedThere' /\ Bundles!ActiveIsInstalled'
  BY <1>1 DEF Bundles!Mark, LinkedThere, Bundles!ActiveIsInstalled, Bundles!Installed,
     Bundles!Refusing, Bundles!Request, Bundles!Fault, Bundles!bounds
<1>5. Bundles!RemovedStays' /\ Bundles!InstalledIsWhole'
  BY <1>1 DEF Bundles!Mark, Bundles!RemovedStays, GoneMarked, Bundles!InstalledIsWhole,
     Bundles!Installed, Bundles!Unpacking, Bundles!Area, Bundles!Request, Bundles!Fault,
     Bundles!bounds
<1> QED
  BY <1>2, <1>3, <1>4, <1>5

\* A removal looks at the link and the directory.
LEMMA PhpCheckRemoval ==
  ASSUME BundledAssumption, PhpInv, Bundles!CheckRemoval
  PROVE  PhpInv'
<1> USE DEF PhpInv, Bundles!PhpIsThere, Bundles!Procs, PhpTyped, Stage, Proc, PhpSteps,
   Versioned, OwnSteps
<1>1. /\ procs' \in [Bundles!Procs -> Proc]
      /\ procs'["agent"].step \in {"idle", "removing"}
      /\ procs'["agent"].step = "removing" =>
           /\ procs'["agent"].version = procs["agent"].version
           /\ ~Bundles!Refusing(procs["agent"].version) /\ UNCHANGED <<removed, asGone>>
      /\ procs'["agent"].step = "idle" =>
           /\ removed' = removed \ {procs["agent"].version}
           /\ asGone' = asGone \ {procs["agent"].version}
      /\ \A o \in Bundles!Procs \ {"agent"} : procs'[o] = procs[o]
  BY Stepped, Ended, IdleProc DEF Bundles!CheckRemoval, BundledAssumption, Bundles!Idle,
     Bundles!Request
<1>2. PhpTyped' /\ OwnSteps'
  BY <1>1 DEF Bundles!CheckRemoval, Bundles!Installed, Bundles!InstalledVersions,
     Bundles!EnsureReceipt, Bundles!Unpacking, Bundles!Area, Bundles!Request, Bundles!Fault,
     Bundles!bounds
<1>3. StagedAlone' /\ GoneMarked'
  BY <1>1 DEF Bundles!CheckRemoval, StagedAlone, Staging, GoneMarked, Bundles!Arriving,
     Bundles!Area, Bundles!Unpacking, Bundles!Request, Bundles!Fault, Bundles!bounds
<1>4. LinkedThere' /\ Bundles!ActiveIsInstalled'
  BY <1>1 DEF Bundles!CheckRemoval, LinkedThere, Bundles!ActiveIsInstalled,
     Bundles!Installed, Bundles!Refusing, Bundles!Request, Bundles!Fault, Bundles!bounds
<1>5. Bundles!RemovedStays' /\ Bundles!InstalledIsWhole'
  BY <1>1 DEF Bundles!CheckRemoval, Bundles!RemovedStays, GoneMarked,
     Bundles!InstalledIsWhole, Bundles!Installed, Bundles!Unpacking, Bundles!Area,
     Bundles!Request, Bundles!Fault, Bundles!bounds
<1> QED
  BY <1>2, <1>3, <1>4, <1>5

\* The directory goes.
LEMMA PhpRemove ==
  ASSUME BundledAssumption, PhpInv, Bundles!Remove
  PROVE  PhpInv'
<1> USE DEF PhpInv, Bundles!PhpIsThere, Bundles!Procs, PhpTyped, Stage, Proc, PhpSteps,
   Versioned, OwnSteps
<1>1. /\ procs' \in [Bundles!Procs -> Proc]
      /\ procs'["agent"].step = "idle"
      /\ procs'["agent"].activate = FALSE
      /\ \A o \in Bundles!Procs \ {"agent"} : procs'[o] = procs[o]
  BY Stepped, Ended, IdleProc DEF Bundles!Remove, BundledAssumption, Bundles!Idle,
     Bundles!Request
<1>2. PhpTyped' /\ OwnSteps'
  BY <1>1 DEF Bundles!Remove, Bundles!Installed, Bundles!InstalledVersions,
     Bundles!EnsureReceipt, Bundles!Unpacking, Bundles!Area, Bundles!Request, Bundles!Fault,
     Bundles!bounds
<1>3. StagedAlone' /\ GoneMarked'
  BY <1>1 DEF Bundles!Remove, StagedAlone, Staging, GoneMarked, Bundles!Arriving,
     Bundles!Area, Bundles!Unpacking, Bundles!Request, Bundles!Fault, Bundles!bounds
<1>4. ~confused' => ~confused /\ procs["desktop"].step # "link"
  BY Zenon DEF Bundles!Remove
<1>5. LinkedThere' /\ Bundles!ActiveIsInstalled'
  BY <1>1, <1>4 DEF Bundles!Remove, LinkedThere, Bundles!ActiveIsInstalled,
     Bundles!Installed, Bundles!Request, Bundles!Fault, Bundles!bounds
<1>6. Bundles!RemovedStays' /\ Bundles!InstalledIsWhole'
  BY <1>1 DEF Bundles!Remove, Bundles!RemovedStays, GoneMarked, Bundles!InstalledIsWhole,
     Bundles!Installed, Bundles!Unpacking, Bundles!Area, Bundles!Request, Bundles!Fault,
     Bundles!bounds
<1> QED
  BY <1>2, <1>3, <1>4, <1>5, <1>6

\* Part of the directory goes.
LEMMA PhpRemoveFails ==
  ASSUME BundledAssumption, PhpInv, Bundles!RemoveFails
  PROVE  PhpInv'
<1> USE DEF PhpInv, Bundles!PhpIsThere, Bundles!Procs, PhpTyped, Stage, Proc, PhpSteps,
   Versioned, OwnSteps
<1>1. /\ procs' \in [Bundles!Procs -> Proc]
      /\ procs'["agent"].step = "idle"
      /\ procs'["agent"].activate = FALSE
      /\ \A o \in Bundles!Procs \ {"agent"} : procs'[o] = procs[o]
  BY Stepped, Ended, IdleProc DEF Bundles!RemoveFails, BundledAssumption, Bundles!Idle,
     Bundles!Request
<1>2. PhpTyped' /\ OwnSteps'
  BY <1>1 DEF Bundles!RemoveFails, Bundles!Installed, Bundles!InstalledVersions,
     Bundles!EnsureReceipt, Bundles!Unpacking, Bundles!Area, Bundles!Request, Bundles!Fault,
     Bundles!bounds
<1>3. StagedAlone' /\ GoneMarked'
  BY <1>1 DEF Bundles!RemoveFails, StagedAlone, Staging, GoneMarked, Bundles!Arriving,
     Bundles!Area, Bundles!Unpacking, Bundles!Request, Bundles!Fault, Bundles!bounds
<1>4. LinkedThere' /\ Bundles!ActiveIsInstalled'
  BY <1>1 DEF Bundles!RemoveFails, LinkedThere, Bundles!ActiveIsInstalled,
     Bundles!Installed, Bundles!Refusing, Bundles!Request, Bundles!Fault, Bundles!bounds
<1>5. Bundles!RemovedStays' /\ Bundles!InstalledIsWhole'
  BY <1>1 DEF Bundles!RemoveFails, Bundles!RemovedStays, GoneMarked,
     Bundles!InstalledIsWhole, Bundles!Installed, Bundles!Unpacking, Bundles!Area,
     Bundles!Request, Bundles!Fault, Bundles!bounds
<1> QED
  BY <1>2, <1>3, <1>4, <1>5

\* The link is gone between its removal and the new one.
LEMMA PhpLinkLost ==
  ASSUME BundledAssumption, PhpInv, Bundles!LinkLost
  PROVE  PhpInv'
<1> USE DEF PhpInv, Bundles!PhpIsThere, Bundles!Procs, PhpTyped, Stage, Proc, PhpSteps,
   Versioned, OwnSteps
<1>1. /\ procs' = procs
      /\ procs["agent"].step = "idle"
  BY Stepped, Ended, IdleProc DEF Bundles!LinkLost, BundledAssumption, Bundles!Idle,
     Bundles!Request
<1>2. PhpTyped' /\ OwnSteps'
  BY <1>1 DEF Bundles!LinkLost, Bundles!Installed, Bundles!InstalledVersions,
     Bundles!EnsureReceipt, Bundles!Unpacking, Bundles!Area, Bundles!Request, Bundles!Fault,
     Bundles!bounds
<1>3. StagedAlone' /\ GoneMarked'
  BY <1>1 DEF Bundles!LinkLost, StagedAlone, Staging, GoneMarked, Bundles!Arriving,
     Bundles!Area, Bundles!Unpacking, Bundles!Request, Bundles!Fault, Bundles!bounds
<1>4. LinkedThere' /\ Bundles!ActiveIsInstalled'
  BY <1>1 DEF Bundles!LinkLost, LinkedThere, Bundles!ActiveIsInstalled, Bundles!Installed,
     Bundles!Refusing, Bundles!Request, Bundles!Fault, Bundles!bounds
<1>5. Bundles!RemovedStays' /\ Bundles!InstalledIsWhole'
  BY <1>1 DEF Bundles!LinkLost, Bundles!RemovedStays, GoneMarked, Bundles!InstalledIsWhole,
     Bundles!Installed, Bundles!Unpacking, Bundles!Area, Bundles!Request, Bundles!Fault,
     Bundles!bounds
<1> QED
  BY <1>2, <1>3, <1>4, <1>5

\* Sites come and go.
LEMMA PhpChangeSites ==
  ASSUME BundledAssumption, PhpInv, NEW vs \in SUBSET Versions, Bundles!ChangeSites(vs)
  PROVE  PhpInv'
<1> USE DEF PhpInv, Bundles!PhpIsThere, Bundles!Procs, PhpTyped, Stage, Proc, PhpSteps,
   Versioned, OwnSteps
<1>1. /\ procs' = procs
  BY Stepped, Ended, IdleProc DEF Bundles!ChangeSites, BundledAssumption, Bundles!Idle,
     Bundles!Request
<1>2. PhpTyped' /\ OwnSteps'
  BY <1>1 DEF Bundles!ChangeSites, Bundles!Installed, Bundles!InstalledVersions,
     Bundles!EnsureReceipt, Bundles!Unpacking, Bundles!Area, Bundles!Request, Bundles!Fault,
     Bundles!bounds
<1>3. StagedAlone' /\ GoneMarked'
  BY <1>1 DEF Bundles!ChangeSites, StagedAlone, Staging, GoneMarked, Bundles!Arriving,
     Bundles!Area, Bundles!Unpacking, Bundles!Request, Bundles!Fault, Bundles!bounds
<1>4. LinkedThere' /\ Bundles!ActiveIsInstalled'
  BY <1>1 DEF Bundles!ChangeSites, LinkedThere, Bundles!ActiveIsInstalled,
     Bundles!Installed, Bundles!Refusing, Bundles!Request, Bundles!Fault, Bundles!bounds
<1>5. Bundles!RemovedStays' /\ Bundles!InstalledIsWhole'
  BY <1>1 DEF Bundles!ChangeSites, Bundles!RemovedStays, GoneMarked,
     Bundles!InstalledIsWhole, Bundles!Installed, Bundles!Unpacking, Bundles!Area,
     Bundles!Request, Bundles!Fault, Bundles!bounds
<1> QED
  BY <1>2, <1>3, <1>4, <1>5

\* Nothing is installed when the App starts for the first time.
LEMMA PhpInit == BundledAssumption /\ Bundles!Init => PhpInv
<1> SUFFICES ASSUME BundledAssumption, Bundles!Init PROVE PhpInv
  OBVIOUS
<1> USE DEF Bundles!Init
<1>1. /\ procs \in [Bundles!Procs -> Proc]
      /\ \A p \in Bundles!Procs : procs[p].step = "idle" /\ procs[p].activate = FALSE
  BY IdleProc DEF Bundles!Idle
<1>2. PhpTyped
  BY <1>1 DEF PhpTyped, Stage, Versioned, Bundles!InstalledVersions, Bundles!Installed
<1>3. OwnSteps /\ StagedAlone /\ GoneMarked /\ LinkedThere
  BY <1>1 DEF OwnSteps, StagedAlone, Staging, GoneMarked, LinkedThere, Bundles!Procs
<1>4. Bundles!PhpIsThere
  BY DEF Bundles!PhpIsThere, Bundles!RemovedStays, Bundles!InstalledIsWhole,
     Bundles!ActiveIsInstalled
<1> QED
  BY <1>2, <1>3, <1>4 DEF PhpInv

\* PhpInv is inductive.
LEMMA PhpStep == BundledAssumption /\ PhpInv /\ [Bundles!Next]_Bundles!vars => PhpInv'
<1> SUFFICES ASSUME BundledAssumption, PhpInv, [Bundles!Next]_Bundles!vars PROVE PhpInv'
  OBVIOUS
<1>1. CASE UNCHANGED Bundles!vars
  BY <1>1 DEF Bundles!vars, Bundles!bounds, PhpInv, Bundles!PhpIsThere, PhpTyped, Stage,
     OwnSteps, StagedAlone, Staging, GoneMarked, Bundles!Arriving, LinkedThere,
     Bundles!RemovedStays, Bundles!InstalledIsWhole, Bundles!ActiveIsInstalled,
     Bundles!Installed, Bundles!InstalledVersions, Bundles!Area
<1>2. CASE Bundles!Launch \/ Bundles!NextPackage \/ Bundles!Receipt \/ Bundles!Activate \/
   Bundles!Link \/ Bundles!Demo
  BY <1>2, PhpLaunch, PhpNextPackage, PhpReceipt, PhpActivate, PhpLink, PhpDemo
<1>3. ASSUME NEW p \in Bundles!Procs,
             Bundles!Unpack(p) \/ Bundles!Place(p) \/ Bundles!Placed(p) \/ Bundles!Stop(p)
      PROVE  PhpInv'
  BY <1>3, PhpUnpack, PhpPlace, PhpPlaced, PhpStop
<1>4. ASSUME NEW v \in Versions,
             Bundles!InstallPhpRuntime(v) \/ Bundles!SetGlobalPhp(v)
             \/ Bundles!RemovePhpRuntime(v)
      PROVE  PhpInv'
  BY <1>4, PhpInstallPhpRuntime, PhpSetGlobalPhp, PhpRemovePhpRuntime
<1>5. CASE Bundles!SwitchInstalled \/ Bundles!Mark \/ Bundles!CheckRemoval \/ Bundles!Remove
   \/ Bundles!RemoveFails \/ Bundles!LinkLost
  BY <1>5, PhpSwitchInstalled, PhpMark, PhpCheckRemoval, PhpRemove, PhpRemoveFails,
     PhpLinkLost
<1>6. ASSUME NEW vs \in SUBSET Versions, Bundles!ChangeSites(vs) PROVE PhpInv'
  BY <1>6, PhpChangeSites
<1> QED
  BY <1>1, <1>2, <1>3, <1>4, <1>5, <1>6 DEF Bundles!Next, Bundles!Done

\* What was removed stays removed, what is installed is whole, and the global PHP is
\* there, through any number of starts, requests and faults (the Desktop's
\* install_bundled_*_runtimes beside the Agent's installs and removals).
THEOREM PhpStaysThere ==
  ASSUME BundledAssumption
  PROVE  Bundles!Spec => []Bundles!PhpIsThere
<1>1. Bundles!Init => PhpInv
  BY PhpInit
<1>2. PhpInv /\ [Bundles!Next]_Bundles!vars => PhpInv'
  BY PhpStep
<1>3. PhpInv => Bundles!PhpIsThere
  BY DEF PhpInv, Bundles!PhpIsThere
<1> QED
  BY <1>1, <1>2, <1>3, PTL DEF Bundles!Spec
=============================================================================
