------------------------ MODULE RuntimeInstallProofs ------------------------
(* Theorems about RuntimeInstall, for any sets of versions and packages and  *)
(* both kinds of link; and about TerminalIntegration, which makes what is    *)
(* installed the user's `php` and `node`, on macOS and on Windows.           *)
EXTENDS RuntimeInstall, Integers, Sequences, SequenceTheorems, FiniteSetTheorems,
  NaturalsInduction, WellFoundedInduction, TLAPS

\* What TerminalIntegration has of its own; Versions and backup stand for one of the two
\* modules at a time.
CONSTANTS Windows, NodeShims, Own, Herd, Bin, None, MaxChanges, MaxFaults
VARIABLES
  profile, rc, path, shims, installed, selected, op, herd, overwritten, torn, changes, faults

Term == INSTANCE TerminalIntegration

-----------------------------------------------------------------------------
(* Types.                                                                    *)

\* The directories a first start finds are well-typed.
LEMMA TypeInit == Init => TypeOK
  BY PackageAssumption, VersionAssumption DEF Init, TypeOK, Packages, Steps

\* Every call keeps the types.
LEMMA TypeStep == TypeOK /\ [Next]_vars => TypeOK'
  <1> SUFFICES ASSUME TypeOK, [Next]_vars PROVE TypeOK'
    OBVIOUS
  <1> USE PackageAssumption, VersionAssumption
      DEF TypeOK, Jobs, Kinds, Steps, InstallSteps, RollbackSteps, Packages, Present,
          Go, End, disk, history
  <1>1. ASSUME NEW v \in Versions, BeginBundled(v) \/ BeginSelect(v) \/ BeginRemove(v)
        PROVE TypeOK'
    <2>1. CASE BeginBundled(v)
      BY <2>1 DEF BeginBundled, Begin
    <2>2. CASE BeginSelect(v)
      BY <2>2 DEF BeginSelect, Begin
    <2>3. CASE BeginRemove(v)
      BY <2>3 DEF BeginRemove, Begin
    <2> QED
      BY <1>1, <2>1, <2>2, <2>3
  <1>2. ASSUME NEW v \in Versions, NEW p \in Catalog, BeginOnline(v, p) PROVE TypeOK'
    BY <1>2 DEF BeginOnline, Begin
  <1>3. ASSUME NEW v \in Versions, NEW p \in Local, BeginManual(v, p) PROVE TypeOK'
    BY <1>3 DEF BeginManual, Begin
  <1>4. CASE Installing
    <2>1. CASE Stage
      BY <2>1 DEF Stage
    <2>2. CASE MoveOldAside
      BY <2>2 DEF MoveOldAside
    <2>3. CASE MoveOldAsideFails
      BY <2>3 DEF MoveOldAsideFails
    <2>4. CASE MoveNewIn
      BY <2>4 DEF MoveNewIn, ReadyToMoveIn
    <2>5. CASE Tidy
      BY <2>5 DEF Tidy
    <2>6. CASE Unlink
      BY <2>6 DEF Unlink
    <2>7. CASE SwitchCurrent
      BY <2>7 DEF SwitchCurrent
    <2>8. CASE ClearMarker
      BY <2>8 DEF ClearMarker
    <2>9. CASE FinishFails
      BY <2>9 DEF FinishFails
    <2>10. ASSUME NEW cleaned \in BOOLEAN, StageFails(cleaned) PROVE TypeOK'
      BY <2>10 DEF StageFails
    <2>11. ASSUME NEW cleaned \in BOOLEAN, NEW movedBack \in BOOLEAN,
                 MoveNewInFails(movedBack, cleaned)
          PROVE TypeOK'
      BY <2>11 DEF MoveNewInFails, ReadyToMoveIn
    <2> QED
      BY <1>4, <2>1, <2>2, <2>3, <2>4, <2>5, <2>6, <2>7, <2>8, <2>9, <2>10, <2>11
         DEF Installing
  <1>5. CASE Concluding
    <2>1. CASE Accept
      BY <2>1 DEF Accept
    <2>2. CASE Reject
      BY <2>2 DEF Reject
    <2>3. CASE Abandon
      BY <2>3 DEF Abandon
    <2>4. CASE CommitBegins
      BY <2>4 DEF CommitBegins
    <2>5. CASE CommitEnds
      BY <2>5 DEF CommitEnds
    <2>6. CASE CommitFails
      BY <2>6 DEF CommitFails
    <2>7. CASE RollbackTearsRoot
      BY <2>7 DEF RollbackTearsRoot
    <2>8. CASE RollbackEmptiesRoot
      BY <2>8 DEF RollbackEmptiesRoot
    <2>9. CASE RollbackRestoresRoot
      BY <2>9 DEF RollbackRestoresRoot
    <2>10. CASE RollbackTidies
      BY <2>10 DEF RollbackTidies
    <2>11. CASE RollbackRelinks
      BY <2>11 DEF RollbackRelinks
    <2>12. CASE RollbackRemarks
      BY <2>12 DEF RollbackRemarks
    <2>13. CASE RollbackFails
      BY <2>13 DEF RollbackFails
    <2> QED
      BY <1>5, <2>1, <2>2, <2>3, <2>4, <2>5, <2>6, <2>7, <2>8, <2>9, <2>10, <2>11,
         <2>12, <2>13
         DEF Concluding
  <1>6. CASE Managing
    <2>1. CASE Selected
      BY <2>1 DEF Selected
    <2>2. CASE SelectFails
      BY <2>2 DEF SelectFails
    <2>3. CASE RemovalTearsRoot
      BY <2>3 DEF RemovalTearsRoot, Removable
    <2>4. CASE RemovalEnds
      BY <2>4 DEF RemovalEnds
    <2>5. CASE RemovalFails
      BY <2>5 DEF RemovalFails
    <2>6. ASSUME NEW ok \in BOOLEAN, TerminalEnabled(ok) PROVE TypeOK'
      BY <2>6 DEF TerminalEnabled
    <2> QED
      BY <1>6, <2>1, <2>2, <2>3, <2>4, <2>5, <2>6
         DEF Managing
  <1>7. CASE Crash
    BY <1>7 DEF Crash
  <1>8. CASE UNCHANGED vars
    BY <1>8 DEF vars
  <1> QED
    BY <1>1, <1>2, <1>3, <1>4, <1>5, <1>6, <1>7, <1>8 DEF Next, Request

\* Type correctness of every reachable state.
THEOREM TypeCorrect == Spec => []TypeOK
  BY TypeInit, TypeStep, PTL DEF Spec

-----------------------------------------------------------------------------
(* The inductive invariant.  Where the only whole copy of an owned version   *)
(* is, depends on the step: CopiesHeld says where, StepFitsJob which jobs    *)
(* can be at that step, BackupOnlyOfJob that the backup of another version   *)
(* is never in the way.                                                      *)

\* A first start satisfies the invariant.
LEMMA InvInit == Init => Inv
  BY TypeInit, PackageAssumption
     DEF Init, Inv, NothingLost, StepFitsJob, CopiesHeld, BackupOnlyOfJob, MovedIn,
         Revocable, Whole, Packages, RollbackSteps

\* Every call, failure and crash keeps the invariant.
LEMMA InvStep == Inv /\ [Next]_vars => Inv'
  <1> SUFFICES ASSUME Inv, [Next]_vars PROVE Inv'
    OBVIOUS
  <1>0. TypeOK'
    BY TypeStep DEF Inv
  <1> USE <1>0, PackageAssumption, VersionAssumption
      DEF Inv, TypeOK, NothingLost, StepFitsJob, CopiesHeld, BackupOnlyOfJob, MovedIn,
          Revocable, Installs, Whole, Jobs, Kinds, Steps, InstallSteps, RollbackSteps,
          Packages, Present, Go, End, disk, history
  <1>1. ASSUME NEW v \in Versions, BeginBundled(v) \/ BeginSelect(v) \/ BeginRemove(v)
        PROVE Inv'
    <2>1. CASE BeginBundled(v)
      BY <2>1 DEF BeginBundled, Begin
    <2>2. CASE BeginSelect(v)
      BY <2>2 DEF BeginSelect, Begin
    <2>3. CASE BeginRemove(v)
      BY <2>3 DEF BeginRemove, Begin
    <2> QED
      BY <1>1, <2>1, <2>2, <2>3
  <1>2. ASSUME NEW v \in Versions, NEW p \in Catalog, BeginOnline(v, p) PROVE Inv'
    BY <1>2 DEF BeginOnline, Begin
  <1>3. ASSUME NEW v \in Versions, NEW p \in Local, BeginManual(v, p) PROVE Inv'
    BY <1>3 DEF BeginManual, Begin
  <1>4. CASE Installing
    <2>1. CASE Stage
      BY <2>1 DEF Stage
    <2>2. CASE MoveOldAside
      BY <2>2 DEF MoveOldAside
    <2>3. CASE MoveOldAsideFails
      BY <2>3 DEF MoveOldAsideFails
    <2>4. CASE MoveNewIn
      BY <2>4 DEF MoveNewIn, ReadyToMoveIn
    <2>5. CASE Tidy
      BY <2>5 DEF Tidy
    <2>6. CASE Unlink
      BY <2>6 DEF Unlink
    <2>7. CASE SwitchCurrent
      BY <2>7 DEF SwitchCurrent
    <2>8. CASE ClearMarker
      BY <2>8 DEF ClearMarker
    <2>9. CASE FinishFails
      BY <2>9 DEF FinishFails
    <2>10. ASSUME NEW cleaned \in BOOLEAN, StageFails(cleaned) PROVE Inv'
      BY <2>10 DEF StageFails
    <2>11. ASSUME NEW cleaned \in BOOLEAN, NEW movedBack \in BOOLEAN,
                 MoveNewInFails(movedBack, cleaned)
          PROVE Inv'
      BY <2>11 DEF MoveNewInFails, ReadyToMoveIn
    <2> QED
      BY <1>4, <2>1, <2>2, <2>3, <2>4, <2>5, <2>6, <2>7, <2>8, <2>9, <2>10, <2>11
         DEF Installing
  <1>5. CASE Concluding
    <2>1. CASE Accept
      BY <2>1 DEF Accept
    <2>2. CASE Reject
      BY <2>2 DEF Reject
    <2>3. CASE Abandon
      BY <2>3 DEF Abandon
    <2>4. CASE CommitBegins
      BY <2>4 DEF CommitBegins
    <2>5. CASE CommitEnds
      BY <2>5 DEF CommitEnds
    <2>6. CASE CommitFails
      BY <2>6 DEF CommitFails
    <2>7. CASE RollbackTearsRoot
      BY <2>7 DEF RollbackTearsRoot
    <2>8. CASE RollbackEmptiesRoot
      BY <2>8 DEF RollbackEmptiesRoot
    <2>9. CASE RollbackRestoresRoot
      BY <2>9 DEF RollbackRestoresRoot
    <2>10. CASE RollbackTidies
      BY <2>10 DEF RollbackTidies
    <2>11. CASE RollbackRelinks
      BY <2>11 DEF RollbackRelinks
    <2>12. CASE RollbackRemarks
      BY <2>12 DEF RollbackRemarks
    <2>13. CASE RollbackFails
      BY <2>13 DEF RollbackFails
    <2> QED
      BY <1>5, <2>1, <2>2, <2>3, <2>4, <2>5, <2>6, <2>7, <2>8, <2>9, <2>10, <2>11,
         <2>12, <2>13
         DEF Concluding
  <1>6. CASE Managing
    <2>1. CASE Selected
      BY <2>1 DEF Selected
    <2>2. CASE SelectFails
      BY <2>2 DEF SelectFails
    <2>3. CASE RemovalTearsRoot
      BY <2>3 DEF RemovalTearsRoot, Removable
    <2>4. CASE RemovalEnds
      BY <2>4 DEF RemovalEnds
    <2>5. CASE RemovalFails
      BY <2>5 DEF RemovalFails
    <2>6. ASSUME NEW ok \in BOOLEAN, TerminalEnabled(ok) PROVE Inv'
      BY <2>6 DEF TerminalEnabled
    <2> QED
      BY <1>6, <2>1, <2>2, <2>3, <2>4, <2>5, <2>6
         DEF Managing
  <1>7. CASE Crash
    BY <1>7 DEF Crash
  <1>8. CASE UNCHANGED vars
    BY <1>8 DEF vars
  <1> QED
    BY <1>1, <1>2, <1>3, <1>4, <1>5, <1>6, <1>7, <1>8 DEF Next, Request

\* The invariant holds in every reachable state.
THEOREM Invariance == Spec => []Inv
  BY InvInit, InvStep, PTL DEF Spec

\* No call, failure or crash ever costs the user an installed version.
THEOREM InstalledNeverLost == Spec => []NothingLost
  BY Invariance, PTL DEF Inv

\* Without a crash or a failed recovery no backup is left to block the next
\* update of a version.
THEOREM BackupsCleared == Spec => []UpdatesNotBlocked
  <1>1. Inv => UpdatesNotBlocked
    BY DEF Inv, TypeOK, BackupOnlyOfJob, UpdatesNotBlocked
  <1> QED
    BY <1>1, Invariance, PTL

-----------------------------------------------------------------------------
(* The active link.                                                         *)

\* A first start finds the link at a version or none.
LEMMA LinkInit == Init => LinkInv
  BY PackageAssumption DEF Init, LinkInv, TornOnlyByJob, BeforeHeld, LinkOfJob, LinkWhole,
     FoundByJob, Whole, Packages, RollbackSteps

\* What a selection finds is whole, and so is what was active before it.
LEMMA LinkBeginSelect == ASSUME Inv, LinkInv, NEW v \in Versions, BeginSelect(v) PROVE LinkInv'
  <1> SUFFICES ASSUME ~wounded
               PROVE TornOnlyByJob' /\ BeforeHeld' /\ LinkOfJob' /\ LinkWhole' /\ FoundByJob'
    BY DEF LinkInv, BeginSelect, history
  <1>1. /\ step = "idle" /\ step' = "switch" /\ UNCHANGED <<root, backup, current>>
        /\ job' = [kind |-> "select", version |-> v, package |-> BundledPackage, activate |-> TRUE,
                   replacing |-> Present(v), activeBefore |-> current, marked |-> v \in removed]
    BY DEF BeginSelect, Begin, disk
  <1>2. \A u \in Versions : root[u] # Torn /\ Kept(u)' = root[u]
    BY <1>1 DEF LinkInv, TornOnlyByJob, Kept, Displaced
  <1>3. Whole(root[v])
    BY <1>2 DEF BeginSelect, Present, Inv, TypeOK, Whole
  <1>4. current \in {u \in Versions : Whole(root[u])} \cup {NoVersion}
    BY <1>1 DEF LinkInv, LinkWhole
  <1>5. TornOnlyByJob' /\ LinkOfJob' /\ LinkWhole'
    BY <1>1, <1>2 DEF TornOnlyByJob, LinkOfJob, LinkWhole, RollbackSteps
  <1>6. BeforeHeld'
    BY <1>1, <1>2, <1>4 DEF BeforeHeld, Whole
  <1>7. FoundByJob'
    BY <1>1, <1>3 DEF FoundByJob, Whole, Installs
  <1> QED
    BY <1>5, <1>6, <1>7

\* Requests begin with a link that is whole, and note it.
LEMMA LinkRequest == Inv /\ LinkInv /\ Request => LinkInv'
  <1> SUFFICES ASSUME Inv, LinkInv, Request PROVE LinkInv'
    OBVIOUS
  <1> USE PackageAssumption, VersionAssumption
      DEF Inv, TypeOK, LinkInv, TornOnlyByJob, Displaced, Kept, BeforeHeld, LinkOfJob,
          LinkWhole, FoundByJob, Whole, Packages, RollbackSteps, Present, LinkReadable,
          disk, history
  <1>1. ASSUME NEW v \in Versions, BeginBundled(v) PROVE LinkInv'
    BY <1>1 DEF BeginBundled, Begin
  <1>2. ASSUME NEW v \in Versions, BeginSelect(v) PROVE LinkInv'
    BY <1>2, LinkBeginSelect
  <1>3. ASSUME NEW v \in Versions, BeginRemove(v) PROVE LinkInv'
    BY <1>3 DEF BeginRemove, Begin
  <1>4. ASSUME NEW v \in Versions, NEW p \in Catalog, BeginOnline(v, p) PROVE LinkInv'
    BY <1>4 DEF BeginOnline, Begin
  <1>5. ASSUME NEW v \in Versions, NEW p \in Local, BeginManual(v, p) PROVE LinkInv'
    BY <1>5 DEF BeginManual, Begin
  <1> QED
    BY <1>1, <1>2, <1>3, <1>4, <1>5 DEF Request

\* Installing moves it only to a version that was moved in.
LEMMA LinkInstalling == Inv /\ LinkInv /\ Installing => LinkInv'
  <1> SUFFICES ASSUME Inv, LinkInv, Installing PROVE LinkInv'
    OBVIOUS
  <1> USE PackageAssumption, VersionAssumption
      DEF Inv, TypeOK, StepFitsJob, CopiesHeld, MovedIn, Revocable, BackupOnlyOfJob,
          Installs, Jobs, Kinds, Steps, InstallSteps, LinkInv, TornOnlyByJob, Displaced,
          Kept, BeforeHeld, LinkOfJob, LinkWhole, FoundByJob, Whole, Packages,
          RollbackSteps, Present, LinkReadable, Go, End, disk, history
  <1>1. CASE Stage
    BY <1>1 DEF Stage
  <1>2. CASE MoveOldAside
    BY <1>2 DEF MoveOldAside
  <1>3. CASE MoveOldAsideFails
    BY <1>3 DEF MoveOldAsideFails
  <1>4. CASE MoveNewIn
    BY <1>4 DEF MoveNewIn, ReadyToMoveIn
  <1>5. CASE Tidy
    BY <1>5 DEF Tidy
  <1>6. CASE Unlink
    BY <1>6 DEF Unlink
  <1>7. CASE SwitchCurrent
    BY <1>7 DEF SwitchCurrent
  <1>8. CASE ClearMarker
    BY <1>8 DEF ClearMarker
  <1>9. CASE FinishFails
    BY <1>9 DEF FinishFails
  <1>10. ASSUME NEW cleaned \in BOOLEAN, StageFails(cleaned) PROVE LinkInv'
    BY <1>10 DEF StageFails
  <1>11. ASSUME NEW cleaned \in BOOLEAN, NEW movedBack \in BOOLEAN, MoveNewInFails(movedBack, cleaned) PROVE LinkInv'
    BY <1>11 DEF MoveNewInFails, ReadyToMoveIn
  <1> QED
    BY <1>1, <1>2, <1>3, <1>4, <1>5, <1>6, <1>7, <1>8, <1>9, <1>10, <1>11 DEF
       Installing

\* A rollback puts it back on a version that was put back before.
LEMMA LinkConcluding == Inv /\ LinkInv /\ Concluding => LinkInv'
  <1> SUFFICES ASSUME Inv, LinkInv, Concluding PROVE LinkInv'
    OBVIOUS
  <1> USE PackageAssumption, VersionAssumption
      DEF Inv, TypeOK, StepFitsJob, CopiesHeld, MovedIn, Revocable, BackupOnlyOfJob,
          Installs, Jobs, Kinds, Steps, InstallSteps, LinkInv, TornOnlyByJob, Displaced,
          Kept, BeforeHeld, LinkOfJob, LinkWhole, FoundByJob, Whole, Packages,
          RollbackSteps, Present, LinkReadable, Go, End, disk, history
  <1>1. CASE Accept
    BY <1>1 DEF Accept
  <1>2. CASE Reject
    BY <1>2 DEF Reject
  <1>3. CASE Abandon
    BY <1>3 DEF Abandon
  <1>4. CASE CommitBegins
    BY <1>4 DEF CommitBegins
  <1>5. CASE CommitEnds
    BY <1>5 DEF CommitEnds
  <1>6. CASE CommitFails
    BY <1>6 DEF CommitFails
  <1>7. CASE RollbackTearsRoot
    BY <1>7 DEF RollbackTearsRoot
  <1>8. CASE RollbackEmptiesRoot
    BY <1>8 DEF RollbackEmptiesRoot
  <1>9. CASE RollbackRestoresRoot
    BY <1>9 DEF RollbackRestoresRoot
  <1>10. CASE RollbackTidies
    BY <1>10 DEF RollbackTidies
  <1>11. CASE RollbackRelinks
    BY <1>11 DEF RollbackRelinks
  <1>12. CASE RollbackRemarks
    BY <1>12 DEF RollbackRemarks
  <1>13. CASE RollbackFails
    BY <1>13 DEF RollbackFails
  <1> QED
    BY <1>1, <1>2, <1>3, <1>4, <1>5, <1>6, <1>7, <1>8, <1>9, <1>10, <1>11, <1>12,
       <1>13 DEF Concluding

\* Selecting and undoing a selection find whole versions; a removal finds no link
\* at its version.
LEMMA LinkManaging == Inv /\ LinkInv /\ Managing => LinkInv'
  <1> SUFFICES ASSUME Inv, LinkInv, Managing PROVE LinkInv'
    OBVIOUS
  <1> USE PackageAssumption, VersionAssumption
      DEF Inv, TypeOK, StepFitsJob, CopiesHeld, MovedIn, Revocable, BackupOnlyOfJob,
          Installs, Jobs, Kinds, Steps, InstallSteps, LinkInv, TornOnlyByJob, Displaced,
          Kept, BeforeHeld, LinkOfJob, LinkWhole, FoundByJob, Whole, Packages,
          RollbackSteps, Present, LinkReadable, Go, End, disk, history
  <1>1. CASE Selected
    BY <1>1 DEF Selected
  <1>2. CASE SelectFails
    BY <1>2 DEF SelectFails
  <1>3. CASE RemovalTearsRoot
    BY <1>3 DEF RemovalTearsRoot, Removable
  <1>4. CASE RemovalEnds
    BY <1>4 DEF RemovalEnds
  <1>5. CASE RemovalFails
    BY <1>5 DEF RemovalFails
  <1>6. ASSUME NEW ok \in BOOLEAN, TerminalEnabled(ok) PROVE LinkInv'
    BY <1>6 DEF TerminalEnabled
  <1> QED
    BY <1>1, <1>2, <1>3, <1>4, <1>5, <1>6 DEF Managing

\* Every step keeps the invariant of the link.
LEMMA LinkStep == Inv /\ LinkInv /\ [Next]_vars => LinkInv'
  <1> SUFFICES ASSUME Inv, LinkInv, [Next]_vars PROVE LinkInv'
    OBVIOUS
  <1>1. CASE Crash
    BY <1>1 DEF Crash, LinkInv
  <1>2. CASE UNCHANGED vars
    BY <1>2 DEF vars, disk, history, LinkInv, TornOnlyByJob, Displaced, Kept, BeforeHeld,
         LinkOfJob, LinkWhole, FoundByJob, Whole
  <1> QED
    BY <1>1, <1>2, LinkRequest, LinkInstalling, LinkConcluding, LinkManaging DEF Next

\* The invariant of the link holds in every reachable state.
THEOREM LinkInvariance == Spec => []LinkInv
  BY LinkInit, LinkStep, Invariance, PTL DEF Spec

\* Between jobs the link names a whole version or is absent, unless the
\* directories were wounded.
THEOREM LinkNeverDangles == Spec => []ActiveLinkValid
  <1>1. LinkInv => ActiveLinkValid
    BY DEF LinkInv, LinkWhole, ActiveLinkValid
  <1> QED
    BY <1>1, LinkInvariance, PTL

-----------------------------------------------------------------------------
(* The directories implement RuntimeStore.                                  *)

\* The step wounds nothing and is not about the removal of what is not there.
Sound == ~wounded' /\ ~RemovesNothing /\ ~RemovesNothing'

\* The steps of the store, for a version and a package of this Runtime.
LEMMA StoreActions ==
  /\ Store!Deselect => Store!Next
  /\ \A v \in Versions : Store!Select(v) \/ Store!Withdraw(v) \/ Store!Mark(v) => Store!Next
  /\ \A v \in Versions, p \in Packages : Store!Update(v, p) \/ Store!Add(v, p) => Store!Next
  BY DEF Store!Next

\* What a job is about.
LEMMA JobTyped ==
  ASSUME Inv, step # "idle"
  PROVE  /\ job.version \in Versions /\ job.package \in Packages
         /\ job.activeBefore \in Versions \cup {NoVersion}
         /\ root[job.version] \in Packages \cup {Absent, Torn}
  BY DEF Inv, TypeOK, Jobs

\* What is shown of the versions that nobody touches stays.
LEMMA ShownOf ==
  /\ Shown = [v \in Versions |-> IF Whole(Kept(v)) THEN Kept(v) ELSE Absent]
  /\ Shown' = [v \in Versions |-> IF Whole(Kept(v)') THEN Kept(v)' ELSE Absent]
  BY DEF Shown, Whole

\* What a first start finds is a store.
LEMMA StoreInit == Init => Store!Init
  BY PackageAssumption
     DEF Init, Store!Init, Shown, Kept, Displaced, Whole, Packages, Chosen, Forgotten, Undecided,
         RollbackSteps

\* A change of what is kept of one version is a change of what is shown of it.
LEMMA ShownChanges ==
  ASSUME NEW v \in Versions, \A u \in Versions \ {v} : Kept(u)' = Kept(u)
  PROVE  Shown' = [Shown EXCEPT ![v] = IF Whole(Kept(v)') THEN Kept(v)' ELSE Absent]
  BY ShownOf

\* Moving in a local package adds its version; an online one is not shown yet.
LEMMA StoreMoveNewIn ==
  ASSUME Inv, LinkInv, Sound, MoveNewIn
  PROVE  Store!Next \/ UNCHANGED Store!svars
  <1> DEFINE v == job.version
             p == job.package
  <1>1. /\ step \in {"moving", "staged"} /\ step' = "moved" /\ UNCHANGED <<backup, current, removed, job>>
        /\ root' = [root EXCEPT ![v] = p] /\ v \in Versions /\ p \in Packages /\ ~wounded
        /\ step = "staged" => ~job.replacing
    BY JobTyped DEF MoveNewIn, ReadyToMoveIn, Go, Sound, history
  <1>2. job.kind \in Installs /\ (step = "moving" => job.kind = "online" /\ job.replacing)
    BY <1>1 DEF Inv, StepFitsJob, Installs
  <1>3. root[v] = Absent /\ current = job.activeBefore
    BY <1>1 DEF Inv, CopiesHeld, LinkInv, LinkOfJob
  <1>4. root \in [Versions -> Packages \cup {Absent, Torn}]
    BY DEF Inv, TypeOK
  <1>5. \A u \in Versions \ {v} : Kept(u)' = Kept(u)
    BY <1>1, <1>4 DEF Kept, Displaced
  <1>6. CASE job.kind = "online"
    <2>1. Kept(v)' = Kept(v)
      BY <1>1, <1>2, <1>3, <1>6 DEF Kept, Displaced
    <2>2. Shown' = Shown
      BY <1>1, <1>5, <2>1, ShownOf
    <2>3. job.marked => v \in removed
      BY <1>1, <1>6 DEF LinkInv, FoundByJob
    <2>4. Chosen' = Chosen /\ Forgotten' = Forgotten
      BY <1>1, <1>3, <2>3 DEF Chosen, Forgotten, Undecided
    <2> QED
      BY <2>2, <2>4 DEF Store!svars
  <1>7. CASE job.kind # "online"
    <2>1. Kept(v) = Absent /\ Kept(v)' = p
      BY <1>1, <1>3, <1>4, <1>7 DEF Kept, Displaced
    <2>2. Shown[v] = Absent /\ Shown' = [Shown EXCEPT ![v] = p]
      BY <1>1, <1>5, <2>1, ShownOf, ShownChanges DEF Whole
    <2>3. Chosen' = Chosen /\ Forgotten' = Forgotten
      BY <1>1, <1>7 DEF Chosen, Forgotten, Undecided
    <2> QED
      BY <1>1, <2>2, <2>3, StoreActions DEF Store!Add
  <1> QED
    BY <1>6, <1>7

\* The first deletion of a removal withdraws a version that is not selected.
LEMMA StoreRemovalTearsRoot ==
  ASSUME Inv, LinkInv, Sound, RemovalTearsRoot
  PROVE  Store!Next \/ UNCHANGED Store!svars
  <1> DEFINE v == job.version
  <1>1. /\ step = "remove" /\ step' = "removing" /\ UNCHANGED <<backup, current, removed, job>>
        /\ root' = [root EXCEPT ![v] = Torn] /\ v \in Versions /\ current # v
    BY JobTyped DEF RemovalTearsRoot, Removable, Go
  <1>2. root \in [Versions -> Packages \cup {Absent, Torn}]
    BY DEF Inv, TypeOK
  <1>3. \A u \in Versions : Kept(u) = root[u] /\ Kept(u)' = root'[u]
    BY <1>1 DEF Kept, Displaced
  <1>4. ~Whole(Kept(v)')
    BY <1>1, <1>2, <1>3, PackageAssumption DEF Whole
  <1>5. Shown' = [Shown EXCEPT ![v] = Absent]
    BY <1>1, <1>2, <1>3, <1>4, ShownChanges
  <1>6. Chosen = current /\ Chosen' = current /\ Forgotten' = Forgotten
    BY <1>1 DEF Chosen, Forgotten, Undecided, RollbackSteps
  <1> QED
    BY <1>1, <1>5, <1>6, StoreActions DEF Store!Withdraw

\* A selection that the terminal refuses is the selection of what was before.
LEMMA StoreTerminalEnabled ==
  ASSUME Inv, LinkInv, Sound, NEW ok \in BOOLEAN, TerminalEnabled(ok)
  PROVE  Store!Next \/ UNCHANGED Store!svars
  <1> DEFINE b == job.activeBefore
  <1>1. /\ step = "undo" /\ step' = "idle" /\ UNCHANGED <<root, backup, removed>> /\ ~wounded
        /\ current' = (IF ok THEN current ELSE b) /\ b \in Versions \cup {NoVersion}
    BY JobTyped DEF TerminalEnabled, End, Sound, history
  <1>2. ~Undecided /\ ~Undecided' /\ \A u \in Versions : Kept(u) = root[u] /\ Kept(u)' = root[u]
    BY <1>1 DEF Undecided, Kept, Displaced, RollbackSteps
  <1>3. Shown' = Shown /\ Chosen = current /\ Chosen' = current' /\ Forgotten' = Forgotten
    BY <1>1, <1>2, ShownOf DEF Chosen, Forgotten
  <1>4. CASE b = NoVersion
    BY <1>1, <1>3, <1>4, StoreActions DEF Store!Deselect, Store!svars
  <1>5. CASE b # NoVersion
    <2>1. b \in Versions /\ Whole(Kept(b))
      BY <1>1, <1>5 DEF LinkInv, BeforeHeld
    <2>2. Shown[b] # Absent
      BY <2>1, ShownOf, PackageAssumption DEF Whole
    <2> QED
      BY <1>1, <1>3, <2>1, <2>2, StoreActions DEF Store!Select, Store!svars
  <1> QED
    BY <1>4, <1>5

\* Accepting an online install changes package, selection and marker at once.
LEMMA StoreAccept ==
  ASSUME Inv, LinkInv, Sound, Accept
  PROVE  Store!Next \/ UNCHANGED Store!svars
  <1>1. /\ step = "installed" /\ job.kind = "online" /\ ~wounded
        /\ UNCHANGED <<root, backup, current, removed>> /\ step' \in {"idle", "commit"}
    BY DEF Accept, Inv, StepFitsJob, Sound, disk, End, Go, RollbackSteps
  <1>2. PICK v \in Versions, p \in Packages : v = job.version /\ p = job.package
    BY <1>1, JobTyped
  <1>3. /\ root[v] = p /\ v \notin removed /\ current \in {job.activeBefore, v}
        /\ job.replacing => backup[v] # p
    BY <1>1, <1>2 DEF LinkInv, FoundByJob, LinkOfJob, Installs
  <1>4. Undecided /\ ~Undecided'
    BY <1>1 DEF Undecided, RollbackSteps
  <1>5. \A u \in Versions \ {v} : Kept(u) = root[u] /\ Kept(u)' = root[u]
    BY <1>1, <1>2 DEF Kept, Displaced
  <1>6. Kept(v) = (IF job.replacing THEN backup[v] ELSE Absent) /\ Kept(v)' = root[v]
    BY <1>1, <1>2 DEF Kept, Displaced
  <1>7. Absent # p /\ Kept(v) # p /\ Kept(v)' = p
    BY <1>2, <1>3, <1>6, PackageAssumption
  <1>8. Shown[v] # p /\ Shown' = [Shown EXCEPT ![v] = p]
    BY <1>5, <1>7, ShownOf, ShownChanges DEF Whole
  <1>9. Chosen' \in {Chosen, v} /\ Forgotten' = Forgotten \ {v}
    BY <1>1, <1>2, <1>3, <1>4 DEF Chosen, Forgotten
  <1> QED
    BY <1>8, <1>9, StoreActions DEF Store!Update

\* A removal marks the version or unlinks it, and deletes nothing yet.
LEMMA StoreBeginRemove ==
  ASSUME Inv, LinkInv, Sound, NEW v \in Versions, BeginRemove(v)
  PROVE  Store!Next \/ UNCHANGED Store!svars
  <1>1. /\ step = "idle" /\ step' = "remove" /\ UNCHANGED <<root, backup>> /\ ~wounded
        /\ job'.kind = "remove" /\ job'.replacing = Present(v) /\ job' # NoJob
    <2>1. /\ step = "idle" /\ step' = "remove" /\ UNCHANGED <<root, backup>>
          /\ wounded' = wounded /\ job'.kind = "remove" /\ job'.replacing = Present(v)
      BY DEF BeginRemove, Begin, history
    <2>2. job' # NoJob
      BY <2>1, TypeStep, JobAssumption DEF Inv, TypeOK, Next, Request
    <2> QED
      BY <2>1, <2>2 DEF Sound
  <1>2. ~Undecided /\ ~Undecided' /\ \A u \in Versions : Kept(u) = root[u] /\ Kept(u)' = root[u]
    BY <1>1 DEF Undecided, Kept, Displaced, RollbackSteps
  <1>3. Shown' = Shown /\ Chosen = current /\ Chosen' = current'
        /\ Forgotten = removed /\ Forgotten' = removed'
    BY <1>2, ShownOf DEF Chosen, Forgotten
  <1>4. Present(v) /\ root[v] # Torn
    BY <1>1 DEF Sound, RemovesNothing, LinkInv, TornOnlyByJob
  <1>5. Shown[v] # Absent
    BY <1>2, <1>4, ShownOf, PackageAssumption DEF Whole, Present, Inv, TypeOK
  <1>6. CASE runtime = "php"
    BY <1>3, <1>5, <1>6, StoreActions DEF BeginRemove, Store!Mark
  <1>7. CASE runtime # "php"
    BY <1>3, <1>7, StoreActions DEF BeginRemove, Store!Deselect, Store!svars
  <1> QED
    BY <1>6, <1>7

\* A removal that failed before its first deletion takes the mark back, or
\* selects the version again.
LEMMA StoreRemovalFails ==
  ASSUME Inv, LinkInv, Sound, RemovalFails
  PROVE  Store!Next \/ UNCHANGED Store!svars
  <1> DEFINE v == job.version
  <1>1. /\ step = "remove" /\ step' = "idle" /\ UNCHANGED <<root, backup>> /\ ~wounded
        /\ v \in Versions
    BY JobTyped DEF RemovalFails, Sound, End, Inv, TypeOK
  <1>2. ~Undecided /\ ~Undecided' /\ \A u \in Versions : Kept(u) = root[u] /\ Kept(u)' = root[u]
    BY <1>1 DEF Undecided, Kept, Displaced, RollbackSteps
  <1>3. Shown' = Shown /\ Chosen = current /\ Chosen' = current'
        /\ Forgotten = removed /\ Forgotten' = removed'
    BY <1>2, ShownOf DEF Chosen, Forgotten
  <1>4. Whole(root[v])
    <2>1. job # NoJob /\ job.kind = "remove"
      BY <1>1, JobAssumption DEF Inv, TypeOK, StepFitsJob
    <2> QED
      BY <1>1, <2>1 DEF Sound, RemovesNothing, LinkInv, FoundByJob
  <1>5. Shown[v] # Absent
    BY <1>1, <1>2, <1>4, ShownOf, PackageAssumption DEF Whole
  <1>6. CASE runtime = "php"
    BY <1>1, <1>3, <1>5, <1>6, StoreActions DEF RemovalFails, Store!Mark
  <1>7. CASE runtime # "php"
    BY <1>1, <1>3, <1>5, <1>7, StoreActions DEF RemovalFails, Store!Select, Store!svars
  <1> QED
    BY <1>6, <1>7

\* A request shows nothing, but for a removal, which unlinks or marks the version.
LEMMA StoreRequest ==
  ASSUME Inv, LinkInv, Sound, Request
  PROVE  Store!Next \/ UNCHANGED Store!svars
  <1> USE PackageAssumption, VersionAssumption
      DEF Inv, TypeOK, StepFitsJob, CopiesHeld, MovedIn, BackupOnlyOfJob, Installs, Jobs,
          Kinds, Steps, InstallSteps, LinkInv, TornOnlyByJob, Displaced, Kept, BeforeHeld,
          LinkOfJob, LinkWhole, FoundByJob, Whole, Packages, RollbackSteps, Present,
          LinkReadable, Go, End, disk, history, Undecided, Shown, Chosen, Forgotten
  <1>1. ASSUME NEW v \in Versions, BeginBundled(v) PROVE UNCHANGED Store!svars
    BY <1>1 DEF BeginBundled, Begin, Sound, Store!svars
  <1>2. ASSUME NEW v \in Versions, BeginSelect(v) PROVE UNCHANGED Store!svars
    BY <1>2 DEF BeginSelect, Begin, Sound, Store!svars
  <1>3. ASSUME NEW v \in Versions, BeginRemove(v) PROVE Store!Next \/ UNCHANGED Store!svars
    BY <1>3, StoreBeginRemove
  <1>4. ASSUME NEW v \in Versions, NEW p \in Catalog, BeginOnline(v, p) PROVE UNCHANGED Store!svars
    BY <1>4 DEF BeginOnline, Begin, Sound, Store!svars
  <1>5. ASSUME NEW v \in Versions, NEW p \in Local, BeginManual(v, p) PROVE UNCHANGED Store!svars
    BY <1>5 DEF BeginManual, Begin, Sound, Store!svars
  <1> QED
    BY <1>1, <1>2, <1>3, <1>4, <1>5 DEF Request, Store!Next

\* An online install shows nothing yet; another one adds its version when it is
\* moved in, and then selects and unmarks it.
LEMMA StoreInstalling ==
  ASSUME Inv, LinkInv, Sound, Installing
  PROVE  Store!Next \/ UNCHANGED Store!svars
  <1> USE PackageAssumption, VersionAssumption
      DEF Inv, TypeOK, StepFitsJob, CopiesHeld, MovedIn, BackupOnlyOfJob, Installs, Jobs,
          Kinds, Steps, InstallSteps, LinkInv, TornOnlyByJob, Displaced, Kept, BeforeHeld,
          LinkOfJob, LinkWhole, FoundByJob, Whole, Packages, RollbackSteps, Present,
          LinkReadable, Go, End, disk, history, Undecided, Shown, Chosen, Forgotten
  <1>1. ASSUME Stage PROVE UNCHANGED Store!svars
    BY <1>1 DEF Stage, Sound, Store!svars
  <1>2. ASSUME MoveOldAside PROVE UNCHANGED Store!svars
    BY <1>2 DEF MoveOldAside, Sound, Store!svars
  <1>3. ASSUME MoveOldAsideFails PROVE UNCHANGED Store!svars
    BY <1>3 DEF MoveOldAsideFails, Sound, Store!svars
  <1>4. ASSUME MoveNewIn PROVE Store!Next \/ UNCHANGED Store!svars
    BY <1>4, StoreMoveNewIn
  <1>5. ASSUME Tidy PROVE UNCHANGED Store!svars
    BY <1>5 DEF Tidy, Sound, Store!svars
  <1>6. ASSUME Unlink PROVE Store!Next \/ UNCHANGED Store!svars
    <2>1. Store!Deselect \/ UNCHANGED Store!svars
      BY <1>6 DEF Unlink, Sound, Store!Deselect, Store!svars
    <2> QED
      BY <2>1 DEF Store!Next
  <1>7. ASSUME SwitchCurrent PROVE Store!Next \/ UNCHANGED Store!svars
    <2>1. Store!Select(job.version) \/ UNCHANGED Store!svars
      BY <1>7 DEF SwitchCurrent, Sound, Store!Select, Store!svars
    <2>2. job.version \in Versions /\ job.package \in Packages
      BY <1>7 DEF SwitchCurrent
    <2> QED
      BY <2>1, <2>2, StoreActions
  <1>8. ASSUME ClearMarker PROVE Store!Next \/ UNCHANGED Store!svars
    <2>1. Store!Mark(job.version) \/ UNCHANGED Store!svars
      BY <1>8 DEF ClearMarker, Sound, Store!Mark, Store!svars
    <2>2. job.version \in Versions /\ job.package \in Packages
      BY <1>8 DEF ClearMarker
    <2> QED
      BY <2>1, <2>2, StoreActions
  <1>9. ASSUME FinishFails PROVE UNCHANGED Store!svars
    BY <1>9 DEF FinishFails, Sound, Store!svars
  <1>10. ASSUME NEW cleaned \in BOOLEAN, StageFails(cleaned) PROVE UNCHANGED Store!svars
    BY <1>10 DEF StageFails, Sound, Store!svars
  <1>11. ASSUME NEW cleaned \in BOOLEAN, NEW movedBack \in BOOLEAN, MoveNewInFails(movedBack, cleaned) PROVE UNCHANGED Store!svars
    BY <1>11 DEF MoveNewInFails, ReadyToMoveIn, Sound, Store!svars
  <1> QED
    BY <1>1, <1>2, <1>3, <1>4, <1>5, <1>6, <1>7, <1>8, <1>9, <1>10, <1>11 DEF
       Installing, Store!Next

\* Accepting an online install is the one step that shows it; a rollback shows
\* nothing.
LEMMA StoreConcluding ==
  ASSUME Inv, LinkInv, Sound, Concluding
  PROVE  Store!Next \/ UNCHANGED Store!svars
  <1> USE PackageAssumption, VersionAssumption
      DEF Inv, TypeOK, StepFitsJob, CopiesHeld, MovedIn, BackupOnlyOfJob, Installs, Jobs,
          Kinds, Steps, InstallSteps, LinkInv, TornOnlyByJob, Displaced, Kept, BeforeHeld,
          LinkOfJob, LinkWhole, FoundByJob, Whole, Packages, RollbackSteps, Present,
          LinkReadable, Go, End, disk, history, Undecided, Shown, Chosen, Forgotten
  <1>1. ASSUME Accept PROVE Store!Next \/ UNCHANGED Store!svars
    BY <1>1, StoreAccept
  <1>2. ASSUME Reject PROVE UNCHANGED Store!svars
    BY <1>2 DEF Reject, Sound, Store!svars
  <1>3. ASSUME Abandon PROVE UNCHANGED Store!svars
    BY <1>3 DEF Abandon, Sound, Store!svars
  <1>4. ASSUME CommitBegins PROVE UNCHANGED Store!svars
    BY <1>4 DEF CommitBegins, Sound, Store!svars
  <1>5. ASSUME CommitEnds PROVE UNCHANGED Store!svars
    BY <1>5 DEF CommitEnds, Sound, Store!svars
  <1>6. ASSUME CommitFails PROVE UNCHANGED Store!svars
    BY <1>6 DEF CommitFails, Sound, Store!svars
  <1>7. ASSUME RollbackTearsRoot PROVE UNCHANGED Store!svars
    BY <1>7 DEF RollbackTearsRoot, Sound, Store!svars
  <1>8. ASSUME RollbackEmptiesRoot PROVE UNCHANGED Store!svars
    BY <1>8 DEF RollbackEmptiesRoot, Sound, Store!svars
  <1>9. ASSUME RollbackRestoresRoot PROVE UNCHANGED Store!svars
    BY <1>9 DEF RollbackRestoresRoot, Sound, Store!svars
  <1>10. ASSUME RollbackTidies PROVE UNCHANGED Store!svars
    BY <1>10 DEF RollbackTidies, Sound, Store!svars
  <1>11. ASSUME RollbackRelinks PROVE UNCHANGED Store!svars
    BY <1>11 DEF RollbackRelinks, Sound, Store!svars
  <1>12. ASSUME RollbackRemarks PROVE UNCHANGED Store!svars
    BY <1>12 DEF RollbackRemarks, Sound, Store!svars
  <1>13. ASSUME RollbackFails PROVE UNCHANGED Store!svars
    BY <1>13 DEF RollbackFails, Sound, Store!svars
  <1> QED
    BY <1>1, <1>2, <1>3, <1>4, <1>5, <1>6, <1>7, <1>8, <1>9, <1>10, <1>11, <1>12,
       <1>13 DEF Concluding, Store!Next

\* Selections and removals show each of their calls.
LEMMA StoreManaging ==
  ASSUME Inv, LinkInv, Sound, Managing
  PROVE  Store!Next \/ UNCHANGED Store!svars
  <1> USE PackageAssumption, VersionAssumption
      DEF Inv, TypeOK, StepFitsJob, CopiesHeld, MovedIn, BackupOnlyOfJob, Installs, Jobs,
          Kinds, Steps, InstallSteps, LinkInv, TornOnlyByJob, Displaced, Kept, BeforeHeld,
          LinkOfJob, LinkWhole, FoundByJob, Whole, Packages, RollbackSteps, Present,
          LinkReadable, Go, End, disk, history, Undecided, Shown, Chosen, Forgotten
  <1>1. ASSUME Selected PROVE Store!Next \/ UNCHANGED Store!svars
    <2>1. Store!Select(job.version)
      BY <1>1 DEF Selected, Sound, Store!Select
    <2>2. job.version \in Versions /\ job.package \in Packages
      BY <1>1 DEF Selected
    <2> QED
      BY <2>1, <2>2, StoreActions
  <1>2. ASSUME SelectFails PROVE UNCHANGED Store!svars
    BY <1>2 DEF SelectFails, Sound, Store!svars
  <1>3. ASSUME RemovalTearsRoot PROVE Store!Next \/ UNCHANGED Store!svars
    BY <1>3, StoreRemovalTearsRoot
  <1>4. ASSUME RemovalEnds PROVE UNCHANGED Store!svars
    BY <1>4 DEF RemovalEnds, Sound, Store!svars
  <1>5. ASSUME RemovalFails PROVE Store!Next \/ UNCHANGED Store!svars
    BY <1>5, StoreRemovalFails
  <1>6. ASSUME NEW ok \in BOOLEAN, TerminalEnabled(ok) PROVE Store!Next \/ UNCHANGED Store!svars
    BY <1>6, StoreTerminalEnabled
  <1> QED
    BY <1>1, <1>2, <1>3, <1>4, <1>5, <1>6 DEF Managing, Store!Next

\* Every step of the directories is a step of the store, shows nothing, or is
\* one that StoreSpec excepts.
LEMMA StoreStep ==
  Inv /\ LinkInv /\ [Next]_vars =>
    [Store!Next \/ wounded' \/ RemovesNothing \/ RemovesNothing']_(Store!svars)
  <1> SUFFICES ASSUME Inv, LinkInv, Sound, [Next]_vars
               PROVE  Store!Next \/ UNCHANGED Store!svars
    BY DEF Sound
  <1>1. CASE Crash
    BY <1>1 DEF Crash, Sound
  <1>2. CASE UNCHANGED vars
    <2>1. UNCHANGED <<root, backup, current, removed, step, job>>
      BY <1>2 DEF vars, disk
    <2> QED
      BY <2>1 DEF Store!svars, Shown, Kept, Displaced, Whole, Chosen, Forgotten, Undecided
  <1> QED
    BY <1>1, <1>2, StoreRequest, StoreInstalling, StoreConcluding, StoreManaging DEF Next

\* The directories implement RuntimeStore until a crash or a failed recovery
\* wounds them: an online install is one atomic change of package, selection and
\* marker (runtime 1343-1497, 1871-1903, agent 2479-2567).
THEOREM ImplementsStore == Spec => StoreSpec
  BY StoreInit, StoreStep, Invariance, LinkInvariance, PTL DEF Spec, StoreSpec

-----------------------------------------------------------------------------
(* TerminalIntegration on macOS.                                             *)

\* x is one of the steps in s.
Among(x, s) == \E i \in DOMAIN s : s[i] = x

\* macOS, where the shell files decide.
TermAssumption == ~Windows /\ Term!Php \notin NodeShims /\ None \notin Versions

\* What is left of the writes that enable an integration, at any point of them.
Enabling == {<<"shim", "rc", "profile">>, <<"rc", "profile">>, <<"profile">>}

\* The same of the writes that disable one.
Disabling == {<<"profile", "rc", "unshim">>, <<"rc", "unshim">>, <<"unshim">>}

\* The same when the version that is selected is removed.
Removing ==
  {<<"deselect", "profile", "rc", "unshim", "remove">>,
   <<"profile", "rc", "unshim", "remove">>, <<"rc", "unshim", "remove">>,
   <<"unshim", "remove">>, <<"remove">>}

\* What may be left of a request in which nothing has failed; changing says whether it
\* concerns an integration.
Forward(kind, changing) ==
  CASE kind = Term!SelectNode -> {<<"select", "shim", "rc", "profile">>} \cup Enabling
    [] kind \in {Term!EnablePhp, Term!EnableNode} -> Enabling
    [] kind \in {Term!DisablePhp, Term!DisableNode} -> Disabling
    [] OTHER -> IF changing THEN Removing ELSE {<<"remove">>}

\* What may be left of a request after a refusal or a failed step.  Node is enabled again
\* only after a version that could not be removed, and that is no undo.
Backward(kind, undone) ==
  CASE kind = Term!SelectNode ->
         {<<"reselect">>, <<"rcBack", "reselect">>, <<"select", "reselect">>}
    [] kind = Term!EnablePhp -> {<<"rcBack">>}
    [] kind = Term!EnableNode -> {<<"rcBack">>} \cup IF undone THEN {} ELSE Enabling
    [] kind = Term!DisablePhp -> {<<"profileBack">>}
    [] kind = Term!DisableNode ->
         {<<"profileBack">>, <<"profileBack", "rcBack">>, <<"rcBack">>}
    [] OTHER ->
         {<<"reselect">>, <<"profileBack", "reselect">>, <<"rcBack", "reselect">>,
          <<"profileBack", "rcBack", "reselect">>, <<"reselect", "restart">>,
          <<"restart">>, <<"deselect", "reselect">>}

\* The request changes an integration: only the removal of another version does not.
Changing == op.kind # Term!RemoveNode \/ op.was = op.version

\* The shell files, the shims and the operation are well-typed, and PATH in the registry
\* is not touched.
TermTyped ==
  /\ profile \in Term!File /\ rc \in Term!File /\ path = <<>>
  /\ shims \subseteq {Term!Php} \cup NodeShims
  /\ installed \subseteq Versions /\ selected \in Versions \cup {None}
  /\ op = [kind |-> op.kind, left |-> op.left, ok |-> op.ok, profile |-> op.profile,
           rc |-> op.rc, version |-> op.version, was |-> op.was, undone |-> op.undone]
  /\ op.kind \in Term!Kinds /\ op.ok \in BOOLEAN /\ op.undone \in BOOLEAN
  /\ op.profile \in Term!File /\ op.rc \in Term!File
  /\ op.version \in Versions \cup {None} /\ op.was \in Versions \cup {None}
  /\ torn \subseteq {"php", "node"}
  /\ herd = [profile |-> herd.profile, rc |-> herd.rc]

\* What is left of the operation is the end of one of its ways.
TermPlaced ==
  \/ op.left = <<>>
  \/ op.ok /\ op.left \in Forward(op.kind, Changing)
  \/ ~op.ok /\ Changing /\ op.left \in Backward(op.kind, op.undone)

\* While nothing has failed, the files hold what the steps behind have written and what
\* the operation has read where they have not; the shims and the selected version follow
\* their steps too.
Advanced ==
  ~Term!Idle /\ op.ok =>
    /\ profile = IF Among("profile", op.left) \/ ~Changing THEN op.profile
                 ELSE Term!Updated(op.kind, "profile", op.profile)
    /\ rc = IF Among("rc", op.left) \/ ~Changing THEN op.rc
            ELSE Term!Updated(op.kind, "rc", op.rc)
    /\ op.kind \in Term!Enables /\ ~Among("shim", op.left)
         => Term!Shimmed(op.kind) \subseteq shims
    /\ op.kind \notin Term!Enables /\ Changing /\ ~Among("unshim", op.left) =>
         Term!Shimmed(op.kind) \cap shims = {}
    /\ selected = IF op.kind = Term!SelectNode /\ ~Among("select", op.left) THEN op.version
                  ELSE IF op.kind = Term!RemoveNode /\ Changing
                    /\ ~Among("deselect", op.left)
                  THEN None ELSE op.was
    /\ op.kind = Term!SelectNode => op.version \in installed
    /\ op.kind = Term!EnableNode => op.was \in installed

\* An operation leaves what the shell files hold of the other integration alone.
OtherKept ==
  ~Term!Idle =>
    IF op.kind \in Term!PhpKinds
    THEN profile.node = op.profile.node /\ rc.node = op.rc.node
    ELSE /\ profile.php = op.profile.php /\ profile.active = op.profile.active
         /\ profile.disabled = op.profile.disabled
         /\ rc.active = op.rc.active /\ rc.disabled = op.rc.disabled

\* PHP's shim and block are there together, and Herd is disabled only with them.
PhpWhole == /\ profile.php <=> Term!Php \in shims
            /\ profile.disabled \cup rc.disabled # {} => profile.php

\* Both of Node's blocks and all of its shims are there together, with a version to run.
NodeWhole == /\ profile.node <=> rc.node
             /\ IF rc.node THEN NodeShims \subseteq shims ELSE NodeShims \cap shims = {}
             /\ rc.node => selected \in installed

\* PHP is whole between its own operations, unless the last one failed or was cut short.
PhpHolds == (Term!Idle \/ op.kind \notin Term!PhpKinds) /\ "php" \notin torn => PhpWhole

\* Node is whole between the operations that change it, under the same condition.
NodeHolds ==
  (Term!Idle \/ op.kind \in Term!PhpKinds \/ ~Changing) /\ "node" \notin torn => NodeWhole

\* Every line of Herd is in its file, active or disabled, and in what an operation has
\* read of it.
LinesKept ==
  /\ profile.active \cup profile.disabled = herd.profile
  /\ rc.active \cup rc.disabled = herd.rc
  /\ ~Term!Idle => /\ op.profile.active \cup op.profile.disabled = herd.profile
              /\ op.rc.active \cup op.rc.disabled = herd.rc

\* After a failure, what differs from the state before the operation is still to be put
\* back.
TakenBack ==
  ~op.ok /\ op.undone /\ ~Among("restart", op.left) =>
    /\ selected # op.was => Among("reselect", op.left)
    /\ op.kind # Term!DisablePhp =>
         /\ profile # op.profile => Among("profileBack", op.left)
         /\ rc # op.rc => Among("rcBack", op.left)

\* The inductive invariant of TerminalIntegration on macOS.
TermInv ==
  /\ TermTyped /\ TermPlaced /\ Advanced /\ OtherKept
  /\ PhpHolds /\ NodeHolds /\ LinesKept /\ TakenBack

\* What each step writes.
LEMMA Effects ==
  /\ Term!Effect("shim")
       => shims' = shims \cup Term!Shimmed(op.kind)
       /\ UNCHANGED <<profile, rc, path, installed, selected>>
  /\ Term!Effect("unshim")
       => shims' = shims \ Term!Shimmed(op.kind)
       /\ UNCHANGED <<profile, rc, path, installed, selected>>
  /\ Term!Effect("profile")
       => profile' = Term!Updated(op.kind, "profile", op.profile)
       /\ UNCHANGED <<rc, shims, path, installed, selected>>
  /\ Term!Effect("rc")
       => rc' = Term!Updated(op.kind, "rc", op.rc)
       /\ UNCHANGED <<profile, shims, path, installed, selected>>
  /\ Term!Effect("profileBack")
       => profile' = op.profile /\ UNCHANGED <<rc, shims, path, installed, selected>>
  /\ Term!Effect("rcBack")
       => rc' = op.rc /\ UNCHANGED <<profile, shims, path, installed, selected>>
  /\ Term!Effect("select")
       => selected' = op.version /\ UNCHANGED <<profile, rc, shims, path, installed>>
  /\ Term!Effect("deselect")
       => selected' = None /\ UNCHANGED <<profile, rc, shims, path, installed>>
  /\ Term!Effect("reselect")
       => selected' = op.was /\ UNCHANGED <<profile, rc, shims, path, installed>>
  /\ Term!Effect("remove")
       => installed' = installed \ {op.version}
       /\ UNCHANGED <<profile, rc, shims, path, selected>>
<1>1. Term!Effect("shim")
        => shims' = shims \cup Term!Shimmed(op.kind)
        /\ UNCHANGED <<profile, rc, path, installed, selected>>
  BY DEF Term!Effect
<1>2. Term!Effect("unshim")
        => shims' = shims \ Term!Shimmed(op.kind)
        /\ UNCHANGED <<profile, rc, path, installed, selected>>
  BY DEF Term!Effect
<1>3. Term!Effect("profile")
        => profile' = Term!Updated(op.kind, "profile", op.profile)
        /\ UNCHANGED <<rc, shims, path, installed, selected>>
  BY DEF Term!Effect
<1>4. Term!Effect("rc")
        => rc' = Term!Updated(op.kind, "rc", op.rc)
        /\ UNCHANGED <<profile, shims, path, installed, selected>>
  BY DEF Term!Effect
<1>5. Term!Effect("profileBack")
        => profile' = op.profile /\ UNCHANGED <<rc, shims, path, installed, selected>>
  BY DEF Term!Effect
<1>6. Term!Effect("rcBack")
        => rc' = op.rc /\ UNCHANGED <<profile, shims, path, installed, selected>>
  BY DEF Term!Effect
<1>7. Term!Effect("select")
        => selected' = op.version /\ UNCHANGED <<profile, rc, shims, path, installed>>
  BY DEF Term!Effect
<1>8. Term!Effect("deselect")
        => selected' = None /\ UNCHANGED <<profile, rc, shims, path, installed>>
  BY DEF Term!Effect
<1>9. Term!Effect("reselect")
        => selected' = op.was /\ UNCHANGED <<profile, rc, shims, path, installed>>
  BY DEF Term!Effect
<1>10. Term!Effect("remove")
         => installed' = installed \ {op.version}
         /\ UNCHANGED <<profile, rc, shims, path, selected>>
  BY DEF Term!Effect
<1> QED
  BY <1>1, <1>2, <1>3, <1>4, <1>5, <1>6, <1>7, <1>8, <1>9, <1>10

\* Nothing is in the empty sequence.
LEMMA List0 == \A x : ~Among(x, <<>>)
  BY DEF Among

\* Head, tail and members of a sequence of one step.
LEMMA List1 ==
  \A a : /\ <<a>> # <<>> /\ Head(<<a>>) = a /\ Tail(<<a>>) = <<>>
       /\ \A x : Among(x, <<a>>) <=> x \in {a}
<1> TAKE a
<1>1. <<a>> # <<>> /\ Head(<<a>>) = a /\ Tail(<<a>>) = <<>>
  OBVIOUS
<1>2. DOMAIN <<a>> = {1}
  OBVIOUS
<1> QED
  BY <1>1, <1>2 DEF Among

\* The same for two steps.
LEMMA List2 ==
  \A a, b : /\ <<a, b>> # <<>> /\ Head(<<a, b>>) = a /\ Tail(<<a, b>>) = <<b>>
          /\ \A x : Among(x, <<a, b>>) <=> x \in {a, b}
<1> TAKE a, b
<1>1. <<a, b>> # <<>> /\ Head(<<a, b>>) = a /\ Tail(<<a, b>>) = <<b>>
  OBVIOUS
<1>2. DOMAIN <<a, b>> = {1, 2}
  OBVIOUS
<1> QED
  BY <1>1, <1>2 DEF Among

\* The same for three steps.
LEMMA List3 ==
  \A a, b, c : /\ <<a, b, c>> # <<>> /\ Head(<<a, b, c>>) = a
    /\ Tail(<<a, b, c>>) = <<b, c>>
             /\ \A x : Among(x, <<a, b, c>>) <=> x \in {a, b, c}
<1> TAKE a, b, c
<1>1. <<a, b, c>> # <<>> /\ Head(<<a, b, c>>) = a /\ Tail(<<a, b, c>>) = <<b, c>>
  OBVIOUS
<1>2. DOMAIN <<a, b, c>> = {1, 2, 3}
  OBVIOUS
<1> QED
  BY <1>1, <1>2 DEF Among

\* The same for four steps.
LEMMA List4 ==
  \A a, b, c, d : /\ <<a, b, c, d>> # <<>> /\ Head(<<a, b, c, d>>) = a
    /\ Tail(<<a, b, c, d>>) = <<b, c, d>>
                /\ \A x : Among(x, <<a, b, c, d>>) <=> x \in {a, b, c, d}
<1> TAKE a, b, c, d
<1>1. /\ <<a, b, c, d>> # <<>> /\ Head(<<a, b, c, d>>) = a
      /\ Tail(<<a, b, c, d>>) = <<b, c, d>>
  OBVIOUS
<1>2. DOMAIN <<a, b, c, d>> = {1, 2, 3, 4}
  OBVIOUS
<1> QED
  BY <1>1, <1>2 DEF Among

\* The same for five steps.
LEMMA List5 ==
  \A a, b, c, d, e : /\ <<a, b, c, d, e>> # <<>> /\ Head(<<a, b, c, d, e>>) = a
    /\ Tail(<<a, b, c, d, e>>) = <<b, c, d, e>>
                   /\ \A x : Among(x, <<a, b, c, d, e>>) <=> x \in {a, b, c, d, e}
<1> TAKE a, b, c, d, e
<1>1. /\ <<a, b, c, d, e>> # <<>> /\ Head(<<a, b, c, d, e>>) = a
      /\ Tail(<<a, b, c, d, e>>) = <<b, c, d, e>>
  OBVIOUS
<1>2. DOMAIN <<a, b, c, d, e>> = {1, 2, 3, 4, 5}
  OBVIOUS
<1> QED
  BY <1>1, <1>2 DEF Among

\* What a reader of a forward way relies on: every step occurs once, the rest is a
\* forward way again, and the order the steps come in.
ForwardSteps(kind, c, s) ==
  /\ s # <<>>
  /\ Tail(s) = <<>> \/ Tail(s) \in Forward(kind, c)
  /\ ~Among(Head(s), Tail(s))
  /\ \A x : Among(x, s) <=> x = Head(s) \/ Among(x, Tail(s))
  /\ Head(s) \in {"shim", "rc", "profile", "unshim", "select", "deselect", "remove"}
  /\ Head(s) = "shim" => kind \in Term!Enables /\ Among("rc", s) /\ Among("profile", s)
  /\ Head(s) = "rc" =>
       IF kind \in Term!Enables THEN Among("profile", s) ELSE Among("unshim", s)
  /\ Head(s) = "profile" =>
       IF kind \in Term!Enables THEN Tail(s) = <<>>
         ELSE Among("rc", s) /\ Among("unshim", s)
  /\ Head(s) = "unshim" => kind \notin Term!Enables
  /\ Head(s) = "remove" => kind = Term!RemoveNode /\ Tail(s) = <<>>
  /\ Head(s) = "select" =>
       /\ kind = Term!SelectNode
       /\ Among("shim", s) /\ Among("rc", s) /\ Among("profile", s)
  /\ Head(s) = "deselect" =>
       /\ kind = Term!RemoveNode
       /\ Among("profile", s) /\ Among("rc", s) /\ Among("unshim", s)
  /\ kind = Term!RemoveNode => Among("remove", s)
  /\ kind = Term!RemoveNode /\ ~c => Head(s) = "remove"
  /\ Head(s) \in {"rc", "profile", "unshim"} /\ kind = Term!RemoveNode => c
  /\ kind # Term!RemoveNode /\ kind \notin Term!Enables => Among("unshim", s)
  /\ kind \in Term!Enables => Among("profile", s)

\* Every forward way is in order.
LEMMA ForwardOrder ==
  \A kind \in Term!Kinds, c \in BOOLEAN : \A s \in Forward(kind, c)
    : ForwardSteps(kind, c, s)
<1> USE DEF Term!EnablePhp, Term!DisablePhp, Term!EnableNode, Term!DisableNode,
   Term!SelectNode, Term!RemoveNode, Term!PhpKinds, Term!Kinds, Term!Enables
<1> SUFFICES ASSUME NEW kind \in Term!Kinds, NEW c \in BOOLEAN, NEW s \in Forward(kind, c)
             PROVE ForwardSteps(kind, c, s)
  OBVIOUS
<1>1. CASE kind \in {Term!EnablePhp, Term!EnableNode}
  <2>0. Forward(kind, c) = Enabling
    BY <1>1 DEF Forward
  <2>1. CASE s = <<"shim", "rc", "profile">>
    <3>1. Head(s) = "shim" /\ Tail(s) = <<"rc", "profile">> /\ s # <<>>
      BY <2>1, List3
    <3>2. \A x : Among(x, s) <=> x \in {"shim", "rc", "profile"}
      BY <2>1, List3
    <3>a. \A x : Among(x, <<"rc", "profile">>) <=> x \in {"rc", "profile"}
      BY List2
    <3>3. \A x : Among(x, Tail(s)) <=> x \in {"rc", "profile"}
      BY <3>1, <3>a
    <3>4. Tail(s) \in Forward(kind, c)
      BY <2>0, <3>1 DEF Enabling
    <3> QED
      BY <1>1, <3>1, <3>2, <3>3, <3>4 DEF ForwardSteps
  <2>2. CASE s = <<"rc", "profile">>
    <3>1. Head(s) = "rc" /\ Tail(s) = <<"profile">> /\ s # <<>>
      BY <2>2, List2
    <3>2. \A x : Among(x, s) <=> x \in {"rc", "profile"}
      BY <2>2, List2
    <3>a. \A x : Among(x, <<"profile">>) <=> x \in {"profile"}
      BY List1
    <3>3. \A x : Among(x, Tail(s)) <=> x \in {"profile"}
      BY <3>1, <3>a
    <3>4. Tail(s) \in Forward(kind, c)
      BY <2>0, <3>1 DEF Enabling
    <3> QED
      BY <1>1, <3>1, <3>2, <3>3, <3>4 DEF ForwardSteps
  <2>3. CASE s = <<"profile">>
    <3>1. Head(s) = "profile" /\ Tail(s) = <<>> /\ s # <<>>
      BY <2>3, List1
    <3>2. \A x : Among(x, s) <=> x \in {"profile"}
      BY <2>3, List1
    <3>3. \A x : Among(x, Tail(s)) <=> x \in {}
      BY <3>1, List0
    <3>4. Tail(s) = <<>>
      BY <3>1
    <3> QED
      BY <1>1, <3>1, <3>2, <3>3, <3>4 DEF ForwardSteps
  <2> QED
    BY <2>0, <2>1, <2>2, <2>3 DEF Enabling
<1>2. CASE kind \in {Term!DisablePhp, Term!DisableNode}
  <2>0. Forward(kind, c) = Disabling
    BY <1>2 DEF Forward
  <2>1. CASE s = <<"profile", "rc", "unshim">>
    <3>1. Head(s) = "profile" /\ Tail(s) = <<"rc", "unshim">> /\ s # <<>>
      BY <2>1, List3
    <3>2. \A x : Among(x, s) <=> x \in {"profile", "rc", "unshim"}
      BY <2>1, List3
    <3>a. \A x : Among(x, <<"rc", "unshim">>) <=> x \in {"rc", "unshim"}
      BY List2
    <3>3. \A x : Among(x, Tail(s)) <=> x \in {"rc", "unshim"}
      BY <3>1, <3>a
    <3>4. Tail(s) \in Forward(kind, c)
      BY <2>0, <3>1 DEF Disabling
    <3> QED
      BY <1>2, <3>1, <3>2, <3>3, <3>4 DEF ForwardSteps
  <2>2. CASE s = <<"rc", "unshim">>
    <3>1. Head(s) = "rc" /\ Tail(s) = <<"unshim">> /\ s # <<>>
      BY <2>2, List2
    <3>2. \A x : Among(x, s) <=> x \in {"rc", "unshim"}
      BY <2>2, List2
    <3>a. \A x : Among(x, <<"unshim">>) <=> x \in {"unshim"}
      BY List1
    <3>3. \A x : Among(x, Tail(s)) <=> x \in {"unshim"}
      BY <3>1, <3>a
    <3>4. Tail(s) \in Forward(kind, c)
      BY <2>0, <3>1 DEF Disabling
    <3> QED
      BY <1>2, <3>1, <3>2, <3>3, <3>4 DEF ForwardSteps
  <2>3. CASE s = <<"unshim">>
    <3>1. Head(s) = "unshim" /\ Tail(s) = <<>> /\ s # <<>>
      BY <2>3, List1
    <3>2. \A x : Among(x, s) <=> x \in {"unshim"}
      BY <2>3, List1
    <3>3. \A x : Among(x, Tail(s)) <=> x \in {}
      BY <3>1, List0
    <3>4. Tail(s) = <<>>
      BY <3>1
    <3> QED
      BY <1>2, <3>1, <3>2, <3>3, <3>4 DEF ForwardSteps
  <2> QED
    BY <2>0, <2>1, <2>2, <2>3 DEF Disabling
<1>3. CASE kind = Term!SelectNode
  <2>0. Forward(kind, c) = {<<"select", "shim", "rc", "profile">>} \cup Enabling
    BY <1>3 DEF Forward
  <2>1. CASE s = <<"select", "shim", "rc", "profile">>
    <3>1. Head(s) = "select" /\ Tail(s) = <<"shim", "rc", "profile">> /\ s # <<>>
      BY <2>1, List4
    <3>2. \A x : Among(x, s) <=> x \in {"select", "shim", "rc", "profile"}
      BY <2>1, List4
    <3>a. \A x : Among(x, <<"shim", "rc", "profile">>) <=> x \in {"shim", "rc", "profile"}
      BY List3
    <3>3. \A x : Among(x, Tail(s)) <=> x \in {"shim", "rc", "profile"}
      BY <3>1, <3>a
    <3>4. Tail(s) \in Forward(kind, c)
      BY <2>0, <3>1 DEF Enabling
    <3> QED
      BY <1>3, <3>1, <3>2, <3>3, <3>4 DEF ForwardSteps
  <2>2. CASE s = <<"shim", "rc", "profile">>
    <3>1. Head(s) = "shim" /\ Tail(s) = <<"rc", "profile">> /\ s # <<>>
      BY <2>2, List3
    <3>2. \A x : Among(x, s) <=> x \in {"shim", "rc", "profile"}
      BY <2>2, List3
    <3>a. \A x : Among(x, <<"rc", "profile">>) <=> x \in {"rc", "profile"}
      BY List2
    <3>3. \A x : Among(x, Tail(s)) <=> x \in {"rc", "profile"}
      BY <3>1, <3>a
    <3>4. Tail(s) \in Forward(kind, c)
      BY <2>0, <3>1 DEF Enabling
    <3> QED
      BY <1>3, <3>1, <3>2, <3>3, <3>4 DEF ForwardSteps
  <2>3. CASE s = <<"rc", "profile">>
    <3>1. Head(s) = "rc" /\ Tail(s) = <<"profile">> /\ s # <<>>
      BY <2>3, List2
    <3>2. \A x : Among(x, s) <=> x \in {"rc", "profile"}
      BY <2>3, List2
    <3>a. \A x : Among(x, <<"profile">>) <=> x \in {"profile"}
      BY List1
    <3>3. \A x : Among(x, Tail(s)) <=> x \in {"profile"}
      BY <3>1, <3>a
    <3>4. Tail(s) \in Forward(kind, c)
      BY <2>0, <3>1 DEF Enabling
    <3> QED
      BY <1>3, <3>1, <3>2, <3>3, <3>4 DEF ForwardSteps
  <2>4. CASE s = <<"profile">>
    <3>1. Head(s) = "profile" /\ Tail(s) = <<>> /\ s # <<>>
      BY <2>4, List1
    <3>2. \A x : Among(x, s) <=> x \in {"profile"}
      BY <2>4, List1
    <3>3. \A x : Among(x, Tail(s)) <=> x \in {}
      BY <3>1, List0
    <3>4. Tail(s) = <<>>
      BY <3>1
    <3> QED
      BY <1>3, <3>1, <3>2, <3>3, <3>4 DEF ForwardSteps
  <2> QED
    BY <2>0, <2>1, <2>2, <2>3, <2>4 DEF Enabling
<1>4. CASE kind = Term!RemoveNode /\ c
  <2>0. Forward(kind, c) = Removing
    BY <1>4 DEF Forward
  <2>1. CASE s = <<"deselect", "profile", "rc", "unshim", "remove">>
    <3>1. /\ Head(s) = "deselect" /\ Tail(s) = <<"profile", "rc", "unshim", "remove">>
          /\ s # <<>>
      BY <2>1, List5
    <3>2. \A x : Among(x, s) <=> x \in {"deselect", "profile", "rc", "unshim", "remove"}
      BY <2>1, List5
    <3>a. \A x : Among(x, <<"profile", "rc", "unshim", "remove">>)
            <=> x \in {"profile", "rc", "unshim", "remove"}
      BY List4
    <3>3. \A x : Among(x, Tail(s)) <=> x \in {"profile", "rc", "unshim", "remove"}
      BY <3>1, <3>a
    <3>4. Tail(s) \in Forward(kind, c)
      BY <2>0, <3>1 DEF Removing
    <3> QED
      BY <1>4, <3>1, <3>2, <3>3, <3>4 DEF ForwardSteps
  <2>2. CASE s = <<"profile", "rc", "unshim", "remove">>
    <3>1. Head(s) = "profile" /\ Tail(s) = <<"rc", "unshim", "remove">> /\ s # <<>>
      BY <2>2, List4
    <3>2. \A x : Among(x, s) <=> x \in {"profile", "rc", "unshim", "remove"}
      BY <2>2, List4
    <3>a. \A x : Among(x, <<"rc", "unshim", "remove">>) <=> x \in {"rc", "unshim", "remove"}
      BY List3
    <3>3. \A x : Among(x, Tail(s)) <=> x \in {"rc", "unshim", "remove"}
      BY <3>1, <3>a
    <3>4. Tail(s) \in Forward(kind, c)
      BY <2>0, <3>1 DEF Removing
    <3> QED
      BY <1>4, <3>1, <3>2, <3>3, <3>4 DEF ForwardSteps
  <2>3. CASE s = <<"rc", "unshim", "remove">>
    <3>1. Head(s) = "rc" /\ Tail(s) = <<"unshim", "remove">> /\ s # <<>>
      BY <2>3, List3
    <3>2. \A x : Among(x, s) <=> x \in {"rc", "unshim", "remove"}
      BY <2>3, List3
    <3>a. \A x : Among(x, <<"unshim", "remove">>) <=> x \in {"unshim", "remove"}
      BY List2
    <3>3. \A x : Among(x, Tail(s)) <=> x \in {"unshim", "remove"}
      BY <3>1, <3>a
    <3>4. Tail(s) \in Forward(kind, c)
      BY <2>0, <3>1 DEF Removing
    <3> QED
      BY <1>4, <3>1, <3>2, <3>3, <3>4 DEF ForwardSteps
  <2>4. CASE s = <<"unshim", "remove">>
    <3>1. Head(s) = "unshim" /\ Tail(s) = <<"remove">> /\ s # <<>>
      BY <2>4, List2
    <3>2. \A x : Among(x, s) <=> x \in {"unshim", "remove"}
      BY <2>4, List2
    <3>a. \A x : Among(x, <<"remove">>) <=> x \in {"remove"}
      BY List1
    <3>3. \A x : Among(x, Tail(s)) <=> x \in {"remove"}
      BY <3>1, <3>a
    <3>4. Tail(s) \in Forward(kind, c)
      BY <2>0, <3>1 DEF Removing
    <3> QED
      BY <1>4, <3>1, <3>2, <3>3, <3>4 DEF ForwardSteps
  <2>5. CASE s = <<"remove">>
    <3>1. Head(s) = "remove" /\ Tail(s) = <<>> /\ s # <<>>
      BY <2>5, List1
    <3>2. \A x : Among(x, s) <=> x \in {"remove"}
      BY <2>5, List1
    <3>3. \A x : Among(x, Tail(s)) <=> x \in {}
      BY <3>1, List0
    <3>4. Tail(s) = <<>>
      BY <3>1
    <3> QED
      BY <1>4, <3>1, <3>2, <3>3, <3>4 DEF ForwardSteps
  <2> QED
    BY <2>0, <2>1, <2>2, <2>3, <2>4, <2>5 DEF Removing
<1>5. CASE kind = Term!RemoveNode /\ ~c
  <2>0. Forward(kind, c) = {<<"remove">>}
    BY <1>5 DEF Forward
  <2>1. CASE s = <<"remove">>
    <3>1. Head(s) = "remove" /\ Tail(s) = <<>> /\ s # <<>>
      BY <2>1, List1
    <3>2. \A x : Among(x, s) <=> x \in {"remove"}
      BY <2>1, List1
    <3>3. \A x : Among(x, Tail(s)) <=> x \in {}
      BY <3>1, List0
    <3>4. Tail(s) = <<>>
      BY <3>1
    <3> QED
      BY <1>5, <3>1, <3>2, <3>3, <3>4 DEF ForwardSteps
  <2> QED
    BY <2>0, <2>1
<1> QED
  BY <1>1, <1>2, <1>3, <1>4, <1>5

\* What a reader of a way back relies on.
BackwardSteps(kind, u, s) ==
  /\ s # <<>>
  /\ Tail(s) = <<>> \/ Tail(s) \in Backward(kind, u)
  /\ ~Among(Head(s), Tail(s))
  /\ \A x : Among(x, s) <=> x = Head(s) \/ Among(x, Tail(s))
  /\ Head(s) \in {"select", "deselect", "reselect", "profileBack", "rcBack",
                 "shim", "rc", "profile", "restart"}
  /\ Head(s) \in {"shim", "rc", "profile"} => kind = Term!EnableNode /\ ~u
  /\ Head(s) = "select" => kind = Term!SelectNode /\ Among("reselect", s)
  /\ Head(s) \in {"select", "deselect"} =>
       ~Among("profileBack", s) /\ ~Among("rcBack", s) /\ ~Among("restart", s)
  /\ Head(s) = "deselect" => kind = Term!RemoveNode /\ Among("reselect", s)
  /\ Among("restart", s) => kind = Term!RemoveNode
  /\ Head(s) = "restart" => Tail(s) = <<>>
  /\ Head(s) # "restart" /\ kind # Term!RemoveNode => ~Among("restart", Tail(s))
  /\ kind \in Term!PhpKinds => Head(s) \in {"profileBack", "rcBack"}

\* Every way back is in order.
LEMMA BackwardOrder ==
  \A kind \in Term!Kinds, u \in BOOLEAN : \A s \in Backward(kind, u)
    : BackwardSteps(kind, u, s)
<1> USE DEF Term!EnablePhp, Term!DisablePhp, Term!EnableNode, Term!DisableNode,
   Term!SelectNode, Term!RemoveNode, Term!PhpKinds, Term!Kinds, Term!Enables
<1> SUFFICES ASSUME NEW kind \in Term!Kinds, NEW u \in BOOLEAN, NEW s \in Backward(kind, u)
             PROVE BackwardSteps(kind, u, s)
  OBVIOUS
<1>1. CASE kind = Term!SelectNode
  <2>0. Backward(kind, u)
          = {<<"reselect">>, <<"rcBack", "reselect">>, <<"select", "reselect">>}
    BY <1>1 DEF Backward
  <2>1. CASE s = <<"reselect">>
    <3>1. Head(s) = "reselect" /\ Tail(s) = <<>> /\ s # <<>>
      BY <2>1, List1
    <3>2. \A x : Among(x, s) <=> x \in {"reselect"}
      BY <2>1, List1
    <3>3. \A x : Among(x, Tail(s)) <=> x \in {}
      BY <3>1, List0
    <3>4. Tail(s) = <<>>
      BY <3>1
    <3> QED
      BY <1>1, <3>1, <3>2, <3>3, <3>4 DEF BackwardSteps
  <2>2. CASE s = <<"rcBack", "reselect">>
    <3>1. Head(s) = "rcBack" /\ Tail(s) = <<"reselect">> /\ s # <<>>
      BY <2>2, List2
    <3>2. \A x : Among(x, s) <=> x \in {"rcBack", "reselect"}
      BY <2>2, List2
    <3>a. \A x : Among(x, <<"reselect">>) <=> x \in {"reselect"}
      BY List1
    <3>3. \A x : Among(x, Tail(s)) <=> x \in {"reselect"}
      BY <3>1, <3>a
    <3>4. Tail(s) \in Backward(kind, u)
      BY <2>0, <3>1
    <3> QED
      BY <1>1, <3>1, <3>2, <3>3, <3>4 DEF BackwardSteps
  <2>3. CASE s = <<"select", "reselect">>
    <3>1. Head(s) = "select" /\ Tail(s) = <<"reselect">> /\ s # <<>>
      BY <2>3, List2
    <3>2. \A x : Among(x, s) <=> x \in {"select", "reselect"}
      BY <2>3, List2
    <3>a. \A x : Among(x, <<"reselect">>) <=> x \in {"reselect"}
      BY List1
    <3>3. \A x : Among(x, Tail(s)) <=> x \in {"reselect"}
      BY <3>1, <3>a
    <3>4. Tail(s) \in Backward(kind, u)
      BY <2>0, <3>1
    <3> QED
      BY <1>1, <3>1, <3>2, <3>3, <3>4 DEF BackwardSteps
  <2> QED
    BY <2>0, <2>1, <2>2, <2>3
<1>2. CASE kind = Term!EnablePhp
  <2>0. Backward(kind, u) = {<<"rcBack">>}
    BY <1>2 DEF Backward
  <2>1. CASE s = <<"rcBack">>
    <3>1. Head(s) = "rcBack" /\ Tail(s) = <<>> /\ s # <<>>
      BY <2>1, List1
    <3>2. \A x : Among(x, s) <=> x \in {"rcBack"}
      BY <2>1, List1
    <3>3. \A x : Among(x, Tail(s)) <=> x \in {}
      BY <3>1, List0
    <3>4. Tail(s) = <<>>
      BY <3>1
    <3> QED
      BY <1>2, <3>1, <3>2, <3>3, <3>4 DEF BackwardSteps
  <2> QED
    BY <2>0, <2>1
<1>3. CASE kind = Term!EnableNode /\ u
  <2>0. Backward(kind, u) = {<<"rcBack">>}
    BY <1>3 DEF Backward
  <2>1. CASE s = <<"rcBack">>
    <3>1. Head(s) = "rcBack" /\ Tail(s) = <<>> /\ s # <<>>
      BY <2>1, List1
    <3>2. \A x : Among(x, s) <=> x \in {"rcBack"}
      BY <2>1, List1
    <3>3. \A x : Among(x, Tail(s)) <=> x \in {}
      BY <3>1, List0
    <3>4. Tail(s) = <<>>
      BY <3>1
    <3>0. kind = Term!EnableNode
      BY <1>3
    <3> QED
      BY <3>0, <3>1, <3>2, <3>3, <3>4 DEF BackwardSteps
  <2> QED
    BY <2>0, <2>1
<1>4. CASE kind = Term!EnableNode /\ ~u
  <2>0. Backward(kind, u) = {<<"rcBack">>} \cup Enabling
    BY <1>4 DEF Backward
  <2>1. CASE s = <<"rcBack">>
    <3>1. Head(s) = "rcBack" /\ Tail(s) = <<>> /\ s # <<>>
      BY <2>1, List1
    <3>2. \A x : Among(x, s) <=> x \in {"rcBack"}
      BY <2>1, List1
    <3>3. \A x : Among(x, Tail(s)) <=> x \in {}
      BY <3>1, List0
    <3>4. Tail(s) = <<>>
      BY <3>1
    <3> QED
      BY <1>4, <3>1, <3>2, <3>3, <3>4 DEF BackwardSteps
  <2>2. CASE s = <<"shim", "rc", "profile">>
    <3>1. Head(s) = "shim" /\ Tail(s) = <<"rc", "profile">> /\ s # <<>>
      BY <2>2, List3
    <3>2. \A x : Among(x, s) <=> x \in {"shim", "rc", "profile"}
      BY <2>2, List3
    <3>a. \A x : Among(x, <<"rc", "profile">>) <=> x \in {"rc", "profile"}
      BY List2
    <3>3. \A x : Among(x, Tail(s)) <=> x \in {"rc", "profile"}
      BY <3>1, <3>a
    <3>4. Tail(s) \in Backward(kind, u)
      BY <2>0, <3>1 DEF Enabling
    <3> QED
      BY <1>4, <3>1, <3>2, <3>3, <3>4 DEF BackwardSteps
  <2>3. CASE s = <<"rc", "profile">>
    <3>1. Head(s) = "rc" /\ Tail(s) = <<"profile">> /\ s # <<>>
      BY <2>3, List2
    <3>2. \A x : Among(x, s) <=> x \in {"rc", "profile"}
      BY <2>3, List2
    <3>a. \A x : Among(x, <<"profile">>) <=> x \in {"profile"}
      BY List1
    <3>3. \A x : Among(x, Tail(s)) <=> x \in {"profile"}
      BY <3>1, <3>a
    <3>4. Tail(s) \in Backward(kind, u)
      BY <2>0, <3>1 DEF Enabling
    <3> QED
      BY <1>4, <3>1, <3>2, <3>3, <3>4 DEF BackwardSteps
  <2>4. CASE s = <<"profile">>
    <3>1. Head(s) = "profile" /\ Tail(s) = <<>> /\ s # <<>>
      BY <2>4, List1
    <3>2. \A x : Among(x, s) <=> x \in {"profile"}
      BY <2>4, List1
    <3>3. \A x : Among(x, Tail(s)) <=> x \in {}
      BY <3>1, List0
    <3>4. Tail(s) = <<>>
      BY <3>1
    <3> QED
      BY <1>4, <3>1, <3>2, <3>3, <3>4 DEF BackwardSteps
  <2> QED
    BY <2>0, <2>1, <2>2, <2>3, <2>4 DEF Enabling
<1>5. CASE kind = Term!DisablePhp
  <2>0. Backward(kind, u) = {<<"profileBack">>}
    BY <1>5 DEF Backward
  <2>1. CASE s = <<"profileBack">>
    <3>1. Head(s) = "profileBack" /\ Tail(s) = <<>> /\ s # <<>>
      BY <2>1, List1
    <3>2. \A x : Among(x, s) <=> x \in {"profileBack"}
      BY <2>1, List1
    <3>3. \A x : Among(x, Tail(s)) <=> x \in {}
      BY <3>1, List0
    <3>4. Tail(s) = <<>>
      BY <3>1
    <3> QED
      BY <1>5, <3>1, <3>2, <3>3, <3>4 DEF BackwardSteps
  <2> QED
    BY <2>0, <2>1
<1>6. CASE kind = Term!DisableNode
  <2>0. Backward(kind, u) = {<<"profileBack">>, <<"profileBack", "rcBack">>, <<"rcBack">>}
    BY <1>6 DEF Backward
  <2>1. CASE s = <<"profileBack">>
    <3>1. Head(s) = "profileBack" /\ Tail(s) = <<>> /\ s # <<>>
      BY <2>1, List1
    <3>2. \A x : Among(x, s) <=> x \in {"profileBack"}
      BY <2>1, List1
    <3>3. \A x : Among(x, Tail(s)) <=> x \in {}
      BY <3>1, List0
    <3>4. Tail(s) = <<>>
      BY <3>1
    <3> QED
      BY <1>6, <3>1, <3>2, <3>3, <3>4 DEF BackwardSteps
  <2>2. CASE s = <<"profileBack", "rcBack">>
    <3>1. Head(s) = "profileBack" /\ Tail(s) = <<"rcBack">> /\ s # <<>>
      BY <2>2, List2
    <3>2. \A x : Among(x, s) <=> x \in {"profileBack", "rcBack"}
      BY <2>2, List2
    <3>a. \A x : Among(x, <<"rcBack">>) <=> x \in {"rcBack"}
      BY List1
    <3>3. \A x : Among(x, Tail(s)) <=> x \in {"rcBack"}
      BY <3>1, <3>a
    <3>4. Tail(s) \in Backward(kind, u)
      BY <2>0, <3>1
    <3> QED
      BY <1>6, <3>1, <3>2, <3>3, <3>4 DEF BackwardSteps
  <2>3. CASE s = <<"rcBack">>
    <3>1. Head(s) = "rcBack" /\ Tail(s) = <<>> /\ s # <<>>
      BY <2>3, List1
    <3>2. \A x : Among(x, s) <=> x \in {"rcBack"}
      BY <2>3, List1
    <3>3. \A x : Among(x, Tail(s)) <=> x \in {}
      BY <3>1, List0
    <3>4. Tail(s) = <<>>
      BY <3>1
    <3> QED
      BY <1>6, <3>1, <3>2, <3>3, <3>4 DEF BackwardSteps
  <2> QED
    BY <2>0, <2>1, <2>2, <2>3
<1>7. CASE kind = Term!RemoveNode
  <2>0. Backward(kind, u)
          = {<<"reselect">>, <<"profileBack", "reselect">>, <<"rcBack", "reselect">>,
          <<"profileBack", "rcBack", "reselect">>, <<"reselect", "restart">>, <<"restart">>,
          <<"deselect", "reselect">>}
    BY <1>7 DEF Backward
  <2>1. CASE s = <<"reselect">>
    <3>1. Head(s) = "reselect" /\ Tail(s) = <<>> /\ s # <<>>
      BY <2>1, List1
    <3>2. \A x : Among(x, s) <=> x \in {"reselect"}
      BY <2>1, List1
    <3>3. \A x : Among(x, Tail(s)) <=> x \in {}
      BY <3>1, List0
    <3>4. Tail(s) = <<>>
      BY <3>1
    <3> QED
      BY <1>7, <3>1, <3>2, <3>3, <3>4 DEF BackwardSteps
  <2>2. CASE s = <<"profileBack", "reselect">>
    <3>1. Head(s) = "profileBack" /\ Tail(s) = <<"reselect">> /\ s # <<>>
      BY <2>2, List2
    <3>2. \A x : Among(x, s) <=> x \in {"profileBack", "reselect"}
      BY <2>2, List2
    <3>a. \A x : Among(x, <<"reselect">>) <=> x \in {"reselect"}
      BY List1
    <3>3. \A x : Among(x, Tail(s)) <=> x \in {"reselect"}
      BY <3>1, <3>a
    <3>4. Tail(s) \in Backward(kind, u)
      BY <2>0, <3>1
    <3> QED
      BY <1>7, <3>1, <3>2, <3>3, <3>4 DEF BackwardSteps
  <2>3. CASE s = <<"rcBack", "reselect">>
    <3>1. Head(s) = "rcBack" /\ Tail(s) = <<"reselect">> /\ s # <<>>
      BY <2>3, List2
    <3>2. \A x : Among(x, s) <=> x \in {"rcBack", "reselect"}
      BY <2>3, List2
    <3>a. \A x : Among(x, <<"reselect">>) <=> x \in {"reselect"}
      BY List1
    <3>3. \A x : Among(x, Tail(s)) <=> x \in {"reselect"}
      BY <3>1, <3>a
    <3>4. Tail(s) \in Backward(kind, u)
      BY <2>0, <3>1
    <3> QED
      BY <1>7, <3>1, <3>2, <3>3, <3>4 DEF BackwardSteps
  <2>4. CASE s = <<"profileBack", "rcBack", "reselect">>
    <3>1. Head(s) = "profileBack" /\ Tail(s) = <<"rcBack", "reselect">> /\ s # <<>>
      BY <2>4, List3
    <3>2. \A x : Among(x, s) <=> x \in {"profileBack", "rcBack", "reselect"}
      BY <2>4, List3
    <3>a. \A x : Among(x, <<"rcBack", "reselect">>) <=> x \in {"rcBack", "reselect"}
      BY List2
    <3>3. \A x : Among(x, Tail(s)) <=> x \in {"rcBack", "reselect"}
      BY <3>1, <3>a
    <3>4. Tail(s) \in Backward(kind, u)
      BY <2>0, <3>1
    <3> QED
      BY <1>7, <3>1, <3>2, <3>3, <3>4 DEF BackwardSteps
  <2>5. CASE s = <<"reselect", "restart">>
    <3>1. Head(s) = "reselect" /\ Tail(s) = <<"restart">> /\ s # <<>>
      BY <2>5, List2
    <3>2. \A x : Among(x, s) <=> x \in {"reselect", "restart"}
      BY <2>5, List2
    <3>a. \A x : Among(x, <<"restart">>) <=> x \in {"restart"}
      BY List1
    <3>3. \A x : Among(x, Tail(s)) <=> x \in {"restart"}
      BY <3>1, <3>a
    <3>4. Tail(s) \in Backward(kind, u)
      BY <2>0, <3>1
    <3> QED
      BY <1>7, <3>1, <3>2, <3>3, <3>4 DEF BackwardSteps
  <2>6. CASE s = <<"restart">>
    <3>1. Head(s) = "restart" /\ Tail(s) = <<>> /\ s # <<>>
      BY <2>6, List1
    <3>2. \A x : Among(x, s) <=> x \in {"restart"}
      BY <2>6, List1
    <3>3. \A x : Among(x, Tail(s)) <=> x \in {}
      BY <3>1, List0
    <3>4. Tail(s) = <<>>
      BY <3>1
    <3> QED
      BY <1>7, <3>1, <3>2, <3>3, <3>4 DEF BackwardSteps
  <2>7. CASE s = <<"deselect", "reselect">>
    <3>1. Head(s) = "deselect" /\ Tail(s) = <<"reselect">> /\ s # <<>>
      BY <2>7, List2
    <3>2. \A x : Among(x, s) <=> x \in {"deselect", "reselect"}
      BY <2>7, List2
    <3>a. \A x : Among(x, <<"reselect">>) <=> x \in {"reselect"}
      BY List1
    <3>3. \A x : Among(x, Tail(s)) <=> x \in {"reselect"}
      BY <3>1, <3>a
    <3>4. Tail(s) \in Backward(kind, u)
      BY <2>0, <3>1
    <3> QED
      BY <1>7, <3>1, <3>2, <3>3, <3>4 DEF BackwardSteps
  <2> QED
    BY <2>0, <2>1, <2>2, <2>3, <2>4, <2>5, <2>6, <2>7
<1> QED
  BY <1>1, <1>2, <1>3, <1>4, <1>5, <1>6, <1>7

\* The next step of the operation.
Turn == Head(op.left)

\* The operation is a record of its eight fields.
OpShaped ==
  op = [kind |-> op.kind, left |-> op.left, ok |-> op.ok, profile |-> op.profile,
        rc |-> op.rc, version |-> op.version, was |-> op.was, undone |-> op.undone]

\* Nothing of the operation but what is left of it changes.
OnlyLeft ==
  /\ op'.kind = op.kind /\ op'.ok = op.ok /\ op'.profile = op.profile /\ op'.rc = op.rc
  /\ op'.version = op.version /\ op'.was = op.was /\ op'.undone = op.undone

\* What a step that goes through leaves behind, by variable.
Moves ==
  /\ profile' = IF Turn = "profile" THEN Term!Updated(op.kind, "profile", op.profile)
                ELSE IF Turn = "profileBack" THEN op.profile ELSE profile
  /\ rc' = IF Turn = "rc" THEN Term!Updated(op.kind, "rc", op.rc)
           ELSE IF Turn = "rcBack" THEN op.rc ELSE rc
  /\ shims' = IF Turn = "shim" THEN shims \cup Term!Shimmed(op.kind)
              ELSE IF Turn = "unshim" THEN shims \ Term!Shimmed(op.kind) ELSE shims
  /\ selected' = IF Turn = "select" THEN op.version
                 ELSE IF Turn = "deselect" THEN None
                 ELSE IF Turn = "reselect" THEN op.was ELSE selected
  /\ installed' = IF Turn = "remove" THEN installed \ {op.version} ELSE installed
  /\ path' = path

\* The next step is one of the steps there are.
LEMMA TermTurns ==
  ASSUME TermTyped, TermPlaced, ~Term!Idle
  PROVE  Turn \in {"shim", "rc", "profile", "unshim", "select", "deselect", "reselect",
                   "remove", "profileBack", "rcBack", "restart"}
<1> Changing \in BOOLEAN
  BY DEF Changing
<1>1. CASE op.ok /\ op.left \in Forward(op.kind, Changing)
  <2>1. ForwardSteps(op.kind, Changing, op.left)
    BY <1>1, ForwardOrder DEF TermTyped
  <2> QED
    BY <2>1 DEF ForwardSteps, Turn
<1>2. CASE ~op.ok /\ op.left \in Backward(op.kind, op.undone)
  <2>1. BackwardSteps(op.kind, op.undone, op.left)
    BY <1>2, BackwardOrder DEF TermTyped
  <2> QED
    BY <2>1 DEF BackwardSteps, Turn
<1> QED
  BY <1>1, <1>2 DEF TermPlaced, Term!Idle

\* A step that goes through moves the files, the shims and the versions.
LEMMA StepMoves ==
  ASSUME TermTyped, TermPlaced, Term!Step
  PROVE  Moves
<1>1. Term!Effect(Turn) /\ Turn # "restart" /\ ~Term!Idle
  BY DEF Term!Step, Turn
<1>2. Turn \in {"shim", "rc", "profile", "unshim", "select", "deselect", "reselect",
                   "remove", "profileBack", "rcBack"}
  BY <1>1, TermTurns
<1> QED
  BY <1>1, <1>2, Effects DEF Moves

\* It takes itself off what is left of the operation, and no more.
LEMMA StepOp ==
  ASSUME OpShaped, Term!Step
  PROVE  OnlyLeft /\ op'.left = Tail(op.left) /\ OpShaped'
<1> DEFINE K == {op.kind}
           L == {Tail(op.left)}
           O == {op.ok}
           P == {op.profile}
           R == {op.rc}
           V == {op.version}
           W == {op.was}
           U == {op.undone}
           New == [op EXCEPT !.left = Tail(op.left)]
<1>1. /\ op.kind \in K /\ Tail(op.left) \in L /\ op.ok \in O /\ op.profile \in P
           /\ op.rc \in R
      /\ op.version \in V /\ op.was \in W /\ op.undone \in U
  OBVIOUS
<1> HIDE DEF K, L, O, P, R, V, W, U
<1>2. New \in [kind : K, left : L, ok : O, profile : P, rc : R, version : V, was : W, undone
        : U]
  BY <1>1 DEF OpShaped
<1>3. op' = New
  BY DEF Term!Step
<1>4. /\ op'.kind \in K /\ op'.left \in L /\ op'.ok \in O /\ op'.profile \in P
           /\ op'.rc \in R
      /\ op'.version \in V /\ op'.was \in W /\ op'.undone \in U
  BY <1>2, <1>3
<1>5. OpShaped'
  BY <1>2, <1>3 DEF OpShaped
<1> QED
  BY <1>4, <1>5 DEF K, L, O, P, R, V, W, U, OnlyLeft

\* Where the operation stands, from what is left of it.
OnItsWay ==
  /\ op.ok => ForwardSteps(op.kind, Changing, op.left)
  /\ ~op.ok => BackwardSteps(op.kind, op.undone, op.left) /\ Changing
  /\ \A x : Among(x, op.left) <=> x = Turn \/ Among(x, Tail(op.left))
  /\ ~Among(Turn, Tail(op.left))

\* An operation in progress is on its way.
LEMMA TermWay ==
  ASSUME TermTyped, TermPlaced, ~Term!Idle
  PROVE  OnItsWay
<1> Changing \in BOOLEAN
  BY DEF Changing
<1>1. CASE op.ok /\ op.left \in Forward(op.kind, Changing)
  <2>1. ForwardSteps(op.kind, Changing, op.left)
    BY <1>1, ForwardOrder DEF TermTyped
  <2> QED
    BY <1>1, <2>1 DEF ForwardSteps, Turn, OnItsWay
<1>2. CASE ~op.ok /\ Changing /\ op.left \in Backward(op.kind, op.undone)
  <2>1. BackwardSteps(op.kind, op.undone, op.left)
    BY <1>2, BackwardOrder DEF TermTyped
  <2> QED
    BY <1>2, <2>1 DEF BackwardSteps, Turn, OnItsWay
<1> QED
  BY <1>1, <1>2 DEF TermPlaced, Term!Idle

\* After a step the operation is still on one of its ways.
LEMMA StepPlaced ==
  ASSUME TermTyped, TermPlaced, Term!Step
  PROVE  TermPlaced' /\ (Changing' <=> Changing)
<1>1. ~Term!Idle
  BY DEF Term!Step
<1>2. OnItsWay
  BY <1>1, TermWay
<1>3. OnlyLeft /\ op'.left = Tail(op.left)
  BY StepOp DEF TermTyped, OpShaped
<1>4. Changing' <=> Changing
  BY <1>3 DEF Changing, OnlyLeft
<1>5. ASSUME op.ok PROVE TermPlaced'
  <2>1. Forward(op.kind, Changing)' = Forward(op.kind, Changing)
    BY <1>3, <1>4 DEF Forward, OnlyLeft
  <2>2. Tail(op.left) = <<>> \/ Tail(op.left) \in Forward(op.kind, Changing)
    BY <1>2, <1>5 DEF OnItsWay, ForwardSteps
  <2>3. op'.left = <<>> \/ (op'.ok /\ op'.left \in Forward(op.kind, Changing)')
    BY <1>3, <1>5, <2>1, <2>2 DEF OnlyLeft
  <2> QED
    BY <2>3 DEF TermPlaced
<1>6. ASSUME ~op.ok PROVE TermPlaced'
  <2>1. Backward(op.kind, op.undone)' = Backward(op.kind, op.undone)
    BY <1>3 DEF Backward, OnlyLeft
  <2>2. Changing /\ (Tail(op.left) = <<>> \/ Tail(op.left) \in Backward(op.kind, op.undone))
    BY <1>2, <1>6 DEF OnItsWay, BackwardSteps
  <2>3. op'.left = <<>>
          \/ (~op'.ok /\ Changing' /\ op'.left \in Backward(op.kind, op.undone)')
    BY <1>3, <1>4, <1>6, <2>1, <2>2 DEF OnlyLeft
  <2> QED
    BY <2>3 DEF TermPlaced
<1> QED
  BY <1>3, <1>4, <1>5, <1>6

\* What an operation makes of a shell file: the type, the lines of Herd and the other
\* integration are kept, and the block is there or not.
LEMMA UpdatedFiles ==
  ASSUME NEW kind \in Term!Kinds, NEW f \in Term!File, NEW name
  PROVE  /\ Term!Updated(kind, name, f) \in Term!File
         /\ Term!Updated(kind, name, f).active \cup Term!Updated(kind, name, f).disabled
              = f.active \cup f.disabled
         /\ kind \in Term!PhpKinds => Term!Updated(kind, name, f).node = f.node
         /\ kind \notin Term!PhpKinds =>
              /\ Term!Updated(kind, name, f).php = f.php
              /\ Term!Updated(kind, name, f).active = f.active
              /\ Term!Updated(kind, name, f).disabled = f.disabled
              /\ Term!Updated(kind, name, f).node <=> kind \in Term!Enables
         /\ kind = Term!EnablePhp /\ name = "profile" => Term!Updated(kind, name, f).php
         /\ kind = Term!DisablePhp /\ name = "profile" => ~Term!Updated(kind, name, f).php
         /\ kind \in Term!PhpKinds /\ name # "profile"
              => (Term!Updated(kind, name, f).php <=> f.php)
         /\ kind = Term!DisablePhp => Term!Updated(kind, name, f).disabled = {}
<1>1. CASE kind = Term!EnablePhp
  <2>1. /\ Term!Marked(f) \in Term!File /\ Term!Marked(f).active = {}
        /\ Term!Marked(f).disabled = f.active \cup f.disabled
        /\ Term!Marked(f).node = f.node /\ Term!Marked(f).php = f.php
    BY DEF Term!Marked, Term!File
  <2> QED
    BY <1>1, <2>1 DEF Term!Updated, Term!UpdatedPhp, Term!File, Term!EnablePhp,
       Term!DisablePhp, Term!PhpKinds, Term!Enables
<1>2. CASE kind = Term!DisablePhp
  <2>1. /\ Term!Unmarked(f) \in Term!File /\ Term!Unmarked(f).disabled = {}
        /\ Term!Unmarked(f).active = f.active \cup f.disabled
        /\ Term!Unmarked(f).node = f.node /\ Term!Unmarked(f).php = f.php
    BY DEF Term!Unmarked, Term!File
  <2> QED
    BY <1>2, <2>1 DEF Term!Updated, Term!UpdatedPhp, Term!File, Term!EnablePhp,
       Term!DisablePhp, Term!PhpKinds, Term!Enables
<1>3. CASE kind \notin Term!PhpKinds
  <2>1. Term!Updated(kind, name, f) = [f EXCEPT !.node = (kind \in Term!Enables)]
    BY <1>3 DEF Term!Updated, Term!UpdatedNode
  <2> DEFINE B == kind \in Term!Enables
             New == [f EXCEPT !.node = B]
  <2>2. B \in BOOLEAN
    OBVIOUS
  <2> HIDE DEF B
  <2>3. /\ New \in Term!File /\ New.active = f.active /\ New.disabled = f.disabled
        /\ New.php = f.php /\ New.node = B
    BY <2>2 DEF Term!File
  <2>4. Term!Updated(kind, name, f) = New
    BY <2>1 DEF B
  <2>5. kind \notin Term!PhpKinds /\ kind # Term!EnablePhp /\ kind # Term!DisablePhp
    BY <1>3 DEF Term!PhpKinds
  <2>6. Term!Updated(kind, name, f).node <=> kind \in Term!Enables
    BY <2>3, <2>4 DEF B
  <2> HIDE DEF New
  <2> QED
    BY <2>3, <2>4, <2>5, <2>6
<1> QED
  BY <1>1, <1>2, <1>3 DEF Term!PhpKinds, Term!EnablePhp, Term!DisablePhp

\* All that the proofs about a step that goes through rely on.
StepFacts ==
  /\ Moves /\ OnlyLeft /\ op'.left = Tail(op.left)
  /\ OnItsWay /\ ~Term!Idle /\ Turn # "restart"
  /\ Changing' = Changing
  /\ \A x : Among(x, op.left) <=> x = Turn \/ Among(x, Tail(op.left))
  /\ ~Among(Turn, Tail(op.left))

\* A step that goes through has these facts.
LEMMA StepSays ==
  ASSUME TermTyped, TermPlaced, Term!Step
  PROVE  StepFacts
<1>1. ~Term!Idle /\ Turn # "restart"
  BY DEF Term!Step, Turn
<1>2. OnItsWay
  BY <1>1, TermWay
<1>5. Changing' = Changing
  BY StepPlaced DEF Changing
<1> QED
  BY <1>1, <1>2, <1>5, StepMoves, StepOp DEF StepFacts, OnItsWay, TermTyped, OpShaped

\* It keeps the types.
LEMMA StepTyped ==
  ASSUME TermAssumption, TermTyped, TermPlaced, Term!Step
  PROVE  TermTyped'
<1>1. StepFacts
  BY StepSays
<1>2. profile' \in Term!File /\ rc' \in Term!File
  BY <1>1, UpdatedFiles DEF StepFacts, Moves, TermTyped
<1>3. shims' \subseteq {Term!Php} \cup NodeShims
  BY <1>1 DEF StepFacts, Moves, TermTyped, Term!Shimmed
<1>4. installed' \subseteq Versions /\ selected' \in Versions \cup {None} /\ path' = <<>>
  BY <1>1 DEF StepFacts, Moves, TermTyped
<1>5. torn' \subseteq {"php", "node"}
  BY DEF Term!Step, Term!TornAfter, TermTyped, Term!Integration
<1>6. OpShaped'
  BY StepOp DEF TermTyped, OpShaped
<1>7. /\ op'.kind \in Term!Kinds /\ op'.ok \in BOOLEAN /\ op'.undone \in BOOLEAN
      /\ op'.profile \in Term!File /\ op'.rc \in Term!File
      /\ op'.version \in Versions \cup {None} /\ op'.was \in Versions \cup {None}
  BY <1>1 DEF StepFacts, OnlyLeft, TermTyped
<1> QED
  BY <1>2, <1>3, <1>4, <1>5, <1>6, <1>7 DEF TermTyped, OpShaped, Term!Step

\* It keeps the files, the shims and the selected version in step with the operation.
LEMMA StepAdvanced ==
  ASSUME TermAssumption, TermTyped, TermPlaced, Advanced, Term!Step
  PROVE  Advanced'
<1>1. StepFacts
  BY StepSays
<1> SUFFICES ASSUME op.ok
             PROVE  Advanced'
  BY <1>1 DEF Advanced, StepFacts, OnlyLeft
<1>2. ForwardSteps(op.kind, Changing, op.left)
  BY <1>1 DEF StepFacts, OnItsWay
<1>3. Turn \in {"shim", "rc", "profile", "unshim", "select", "deselect", "remove"}
  BY <1>2 DEF ForwardSteps, Turn
<1>4. profile' = IF Among("profile", Tail(op.left)) \/ ~Changing THEN op.profile
                 ELSE Term!Updated(op.kind, "profile", op.profile)
  BY <1>1, <1>2, <1>3 DEF StepFacts, Moves, Advanced, ForwardSteps, Turn, Changing
<1>5. rc' = IF Among("rc", Tail(op.left)) \/ ~Changing THEN op.rc
            ELSE Term!Updated(op.kind, "rc", op.rc)
  BY <1>1, <1>2, <1>3 DEF StepFacts, Moves, Advanced, ForwardSteps, Turn, Changing
<1>6. /\ op.kind \in Term!Enables /\ ~Among("shim", Tail(op.left))
           => Term!Shimmed(op.kind) \subseteq shims'
      /\ op.kind \notin Term!Enables /\ Changing /\ ~Among("unshim", Tail(op.left))
           => Term!Shimmed(op.kind) \cap shims' = {}
  BY <1>1, <1>2, <1>3 DEF StepFacts, Moves, Advanced, ForwardSteps, Turn
<1>7. selected' =
        IF op.kind = Term!SelectNode /\ ~Among("select", Tail(op.left)) THEN op.version
        ELSE IF op.kind = Term!RemoveNode /\ Changing /\ ~Among("deselect", Tail(op.left))
        THEN None ELSE op.was
  BY <1>1, <1>2, <1>3 DEF StepFacts, Moves, Advanced, ForwardSteps, Turn, Term!SelectNode,
     Term!RemoveNode, Changing
<1>8. /\ op.kind = Term!SelectNode => op.version \in installed'
      /\ op.kind = Term!EnableNode => op.was \in installed'
  BY <1>1, <1>2, <1>3 DEF StepFacts, Moves, Advanced, ForwardSteps, Turn, Term!SelectNode,
     Term!RemoveNode, Term!EnableNode
<1> QED
  BY <1>1, <1>4, <1>5, <1>6, <1>7, <1>8 DEF Advanced, StepFacts, OnlyLeft

\* It leaves the other integration alone.
LEMMA StepOther ==
  ASSUME TermAssumption, TermTyped, TermPlaced, OtherKept, Term!Step
  PROVE  OtherKept'
<1>1. StepFacts
  BY StepSays
<1> QED
  BY <1>1, UpdatedFiles DEF OtherKept, StepFacts, OnlyLeft, Moves, TermTyped

\* It keeps Herd's lines.
LEMMA StepLines ==
  ASSUME TermAssumption, TermTyped, TermPlaced, LinesKept, Term!Step
  PROVE  LinesKept'
<1>1. StepFacts
  BY StepSays
<1>2. herd' = herd
  BY DEF Term!Step
<1>3. /\ profile'.active \cup profile'.disabled = herd.profile
      /\ rc'.active \cup rc'.disabled = herd.rc
  BY <1>1, UpdatedFiles DEF LinesKept, StepFacts, Moves, TermTyped
<1> QED
  BY <1>1, <1>2, <1>3 DEF LinesKept, StepFacts, OnlyLeft

\* An undo takes nothing off but what it has put back.
LEMMA StepTaken ==
  ASSUME TermAssumption, TermTyped, TermPlaced, TakenBack, Term!Step
  PROVE  TakenBack'
<1>1. StepFacts
  BY StepSays
<1> SUFFICES ASSUME ~op.ok, op.undone, ~Among("restart", Tail(op.left))
             PROVE  TakenBack'
  BY <1>1 DEF TakenBack, StepFacts, OnlyLeft
<1>2. BackwardSteps(op.kind, op.undone, op.left)
  BY <1>1 DEF StepFacts, OnItsWay
<1>3. Turn \in {"select", "deselect", "reselect", "profileBack", "rcBack"}
  BY <1>1, <1>2 DEF BackwardSteps, Turn, StepFacts
<1>4. ~Among("restart", op.left)
  BY <1>1 DEF StepFacts
<1>5. selected' # op.was => Among("reselect", Tail(op.left))
  BY <1>1, <1>2, <1>3, <1>4 DEF BackwardSteps, Turn, StepFacts, Moves, TakenBack
<1>6. op.kind # Term!DisablePhp =>
        /\ profile' # op.profile => Among("profileBack", Tail(op.left))
        /\ rc' # op.rc => Among("rcBack", Tail(op.left))
  BY <1>1, <1>3, <1>4 DEF StepFacts, Moves, TakenBack
<1> QED
  BY <1>1, <1>5, <1>6 DEF TakenBack, StepFacts, OnlyLeft

\* The last step of a change of PHP leaves PHP whole; no other step concerns it.
LEMMA StepPhp ==
  ASSUME TermAssumption, TermTyped, TermPlaced, Advanced, OtherKept, PhpHolds, Term!Step
  PROVE  PhpHolds'
<1>1. StepFacts
  BY StepSays
<1> SUFFICES ASSUME Term!Idle' \/ op.kind \notin Term!PhpKinds, "php" \notin torn'
             PROVE  PhpWhole'
  BY <1>1 DEF PhpHolds, StepFacts, OnlyLeft
<1>2. CASE op.kind \notin Term!PhpKinds
  <2>1. "php" \notin torn
    BY <1>2 DEF Term!Step, Term!TornAfter, Term!Integration
  <2>2. PhpWhole
    BY <1>2, <2>1 DEF PhpHolds
  <2>3. Term!Shimmed(op.kind) = NodeShims
    BY <1>2 DEF Term!Shimmed
  <2>4. Term!Php \in shims' <=> Term!Php \in shims
    BY <1>1, <2>3 DEF StepFacts, Moves, TermAssumption
  <2>5. /\ profile'.php = profile.php /\ profile'.disabled = profile.disabled
        /\ rc'.disabled = rc.disabled
    BY <1>1, <1>2, UpdatedFiles DEF StepFacts, Moves, OtherKept, TermTyped
  <2> QED
    BY <2>2, <2>4, <2>5 DEF PhpWhole
<1>3. CASE op.kind \in Term!PhpKinds
  <2>1. Tail(op.left) = <<>>
    BY <1>1, <1>3 DEF Term!Idle, StepFacts
  <2>2. op.ok
    BY <1>3, <2>1 DEF Term!Step, Term!TornAfter, Term!Integration, Term!PhpKinds,
       Term!RemoveNode, Term!EnablePhp, Term!DisablePhp
  <2>3. ForwardSteps(op.kind, Changing, op.left)
    BY <1>1, <2>2 DEF StepFacts, OnItsWay
  <2>4. \A x : Among(x, op.left) <=> x = Turn
    BY <1>1, <2>1, List0 DEF StepFacts
  <2>5. Changing
    BY <1>3 DEF Changing, Term!PhpKinds, Term!RemoveNode, Term!EnablePhp, Term!DisablePhp
  <2>6. CASE op.kind = Term!EnablePhp
    <3>1. Turn = "profile"
      BY <2>3, <2>4, <2>6 DEF ForwardSteps, Term!Enables
    <3>2. Term!Shimmed(op.kind) \subseteq shims
      BY <1>1, <2>2, <2>4, <2>6, <3>1 DEF Advanced, StepFacts, Term!Enables
    <3> QED
      BY <1>1, <2>6, <3>1, <3>2, UpdatedFiles DEF PhpWhole, StepFacts, Moves, TermTyped,
         Term!Shimmed, Term!PhpKinds
  <2>7. CASE op.kind = Term!DisablePhp
    <3>1. Turn = "unshim"
      BY <2>3, <2>4, <2>7 DEF ForwardSteps, Term!Enables, Term!DisablePhp, Term!EnablePhp,
         Term!EnableNode, Term!SelectNode, Term!RemoveNode
    <3>2. /\ profile = Term!Updated(op.kind, "profile", op.profile)
          /\ rc = Term!Updated(op.kind, "rc", op.rc)
      BY <1>1, <2>2, <2>4, <2>5, <3>1 DEF Advanced, StepFacts
    <3>3. Term!Shimmed(op.kind) = {Term!Php}
      BY <2>7 DEF Term!Shimmed, Term!PhpKinds
    <3> QED
      BY <1>1, <2>7, <3>1, <3>2, <3>3, UpdatedFiles DEF PhpWhole, StepFacts, Moves,
         TermTyped
  <2> QED
    BY <1>3, <2>6, <2>7 DEF Term!PhpKinds
<1> QED
  BY <1>2, <1>3

\* The last step of a change of Node leaves Node whole, and removing another version does
\* not take the one that runs.
LEMMA StepNode ==
  ASSUME TermAssumption, TermTyped, TermPlaced, Advanced, OtherKept, NodeHolds, Term!Step
  PROVE  NodeHolds'
<1>1. StepFacts
  BY StepSays
<1> SUFFICES ASSUME Term!Idle' \/ op.kind \in Term!PhpKinds \/ ~Changing,
                    "node" \notin torn'
             PROVE  NodeWhole'
  BY <1>1 DEF NodeHolds, StepFacts, OnlyLeft
<1>2. CASE op.kind \in Term!PhpKinds
  <2>1. "node" \notin torn
    BY <1>2 DEF Term!Step, Term!TornAfter, Term!Integration
  <2>2. NodeWhole
    BY <1>2, <2>1 DEF NodeHolds
  <2>3. Term!Shimmed(op.kind) = {Term!Php}
    BY <1>2 DEF Term!Shimmed
  <2>4. shims' \cap NodeShims = shims \cap NodeShims
    BY <1>1, <2>3 DEF StepFacts, Moves, TermAssumption
  <2>5. profile'.node = profile.node /\ rc'.node = rc.node
    BY <1>1, <1>2, UpdatedFiles DEF StepFacts, Moves, OtherKept, TermTyped
  <2>6. Turn \notin {"select", "deselect", "reselect", "remove"}
    BY <1>1, <1>2 DEF StepFacts, OnItsWay, ForwardSteps, BackwardSteps, Turn, Term!PhpKinds,
       Term!EnablePhp, Term!DisablePhp, Term!SelectNode, Term!RemoveNode
  <2>7. selected' = selected /\ installed' = installed
    BY <1>1, <2>6 DEF StepFacts, Moves
  <2> QED
    BY <2>2, <2>4, <2>5, <2>7 DEF NodeWhole
<1>3. CASE ~Changing
  <2>1. op.kind = Term!RemoveNode /\ op.was # op.version /\ op.ok
    BY <1>1, <1>3 DEF Changing, StepFacts, OnItsWay
  <2>2. ForwardSteps(op.kind, Changing, op.left)
    BY <1>1, <2>1 DEF StepFacts, OnItsWay
  <2>3. Turn = "remove"
    BY <1>3, <2>1, <2>2 DEF ForwardSteps, Turn
  <2>4. "node" \notin torn
    BY <2>1 DEF Term!Step, Term!TornAfter
  <2>5. NodeWhole
    BY <1>3, <2>4 DEF NodeHolds
  <2>6. selected = op.was
    BY <1>1, <1>3, <2>1 DEF Advanced, StepFacts, Term!SelectNode, Term!RemoveNode
  <2>7. /\ profile' = profile /\ rc' = rc /\ shims' = shims /\ selected' = selected
        /\ installed' = installed \ {op.version}
    BY <1>1, <2>3 DEF StepFacts, Moves
  <2> QED
    BY <2>1, <2>5, <2>6, <2>7 DEF NodeWhole
<1>4. CASE op.kind \notin Term!PhpKinds /\ Changing
  <2>1. Tail(op.left) = <<>>
    BY <1>1, <1>4 DEF Term!Idle, StepFacts
  <2>2. op.ok
    BY <1>4, <2>1 DEF Term!Step, Term!TornAfter, Term!Integration, Changing
  <2>3. ForwardSteps(op.kind, Changing, op.left)
    BY <1>1, <2>2 DEF StepFacts, OnItsWay
  <2>4. \A x : Among(x, op.left) <=> x = Turn
    BY <1>1, <2>1, List0 DEF StepFacts
  <2>5. Term!Shimmed(op.kind) = NodeShims
    BY <1>4 DEF Term!Shimmed
  <2>6. CASE op.kind \in Term!Enables
    <3>1. Turn = "profile"
      BY <2>3, <2>4, <2>6 DEF ForwardSteps
    <3>2. Term!Shimmed(op.kind) \subseteq shims /\ rc = Term!Updated(op.kind, "rc", op.rc)
      BY <1>1, <1>4, <2>2, <2>4, <2>6, <3>1 DEF Advanced, StepFacts
    <3>3. selected \in installed
      BY <1>1, <1>4, <2>2, <2>4, <2>6, <3>1 DEF Advanced, StepFacts, Term!Enables,
         Term!PhpKinds, Term!EnablePhp, Term!EnableNode, Term!SelectNode, Term!RemoveNode
    <3>4. /\ profile' = Term!Updated(op.kind, "profile", op.profile) /\ rc' = rc
          /\ shims' = shims /\ selected' = selected /\ installed' = installed
      BY <1>1, <3>1 DEF StepFacts, Moves
    <3>5. profile'.node /\ rc'.node
      BY <1>4, <2>6, <3>2, <3>4, UpdatedFiles DEF TermTyped
    <3> QED
      BY <2>5, <3>2, <3>3, <3>4, <3>5 DEF NodeWhole
  <2>7. CASE op.kind \notin Term!Enables
    <3>1. Turn \in {"unshim", "remove"} /\ (Turn = "remove" <=> op.kind = Term!RemoveNode)
      BY <1>4, <2>3, <2>4, <2>7 DEF ForwardSteps
    <3>2. /\ profile = Term!Updated(op.kind, "profile", op.profile)
          /\ rc = Term!Updated(op.kind, "rc", op.rc)
      BY <1>1, <1>4, <2>2, <2>4, <3>1 DEF Advanced, StepFacts
    <3>3. NodeShims \cap shims' = {}
      BY <1>1, <1>4, <2>2, <2>4, <2>5, <2>7, <3>1 DEF Advanced, StepFacts, Moves
    <3>4. profile' = profile /\ rc' = rc
      BY <1>1, <3>1 DEF StepFacts, Moves
    <3>5. ~profile'.node /\ ~rc'.node
      BY <1>4, <2>7, <3>2, <3>4, UpdatedFiles DEF TermTyped
    <3> QED
      BY <3>3, <3>5 DEF NodeWhole
  <2> QED
    BY <2>6, <2>7
<1> QED
  BY <1>2, <1>3, <1>4

\* One step before three.
LEMMA Prefixed ==
  ASSUME NEW a, NEW b, NEW c, NEW d
  PROVE  <<a>> \o <<b, c, d>> = <<a, b, c, d>>
<1> DEFINE S == {a, b, c, d}
           x == <<a>> \o <<b, c, d>>
           y == <<a, b, c, d>>
<1>1. <<a>> \in Seq(S) /\ <<b, c, d>> \in Seq(S) /\ y \in Seq(S)
  OBVIOUS
<1>2. x \in Seq(S) /\ Len(x) = 4 /\ x[1] = a /\ x[2] = b /\ x[3] = c /\ x[4] = d
  BY <1>1, ConcatProperties
<1>3. Len(y) = 4 /\ y[1] = a /\ y[2] = b /\ y[3] = c /\ y[4] = d
  OBVIOUS
<1>4. \A i \in 1..4 : i \in {1, 2, 3, 4}
  OBVIOUS
<1> HIDE DEF x, y
<1>5. \A i \in 1..Len(x) : x[i] = y[i]
  BY <1>2, <1>3, <1>4
<1>6. x = y
  BY <1>1, <1>2, <1>3, <1>5, SeqEqual
<1> QED
  BY <1>6 DEF x, y

\* One step after four.
LEMMA Appended ==
  ASSUME NEW a, NEW b, NEW c, NEW d, NEW e
  PROVE  <<a, b, c, d>> \o <<e>> = <<a, b, c, d, e>>
<1> DEFINE S == {a, b, c, d, e}
           x == <<a, b, c, d>> \o <<e>>
           y == <<a, b, c, d, e>>
<1>1. <<a, b, c, d>> \in Seq(S) /\ <<e>> \in Seq(S) /\ y \in Seq(S)
  OBVIOUS
<1>2. x \in Seq(S) /\ Len(x) = 5 /\ x[1] = a /\ x[2] = b /\ x[3] = c /\ x[4] = d /\ x[5] = e
  BY <1>1, ConcatProperties
<1>3. Len(y) = 5 /\ y[1] = a /\ y[2] = b /\ y[3] = c /\ y[4] = d /\ y[5] = e
  OBVIOUS
<1>4. \A i \in 1..5 : i \in {1, 2, 3, 4, 5}
  OBVIOUS
<1> HIDE DEF x, y
<1>5. \A i \in 1..Len(x) : x[i] = y[i]
  BY <1>2, <1>3, <1>4
<1>6. x = y
  BY <1>1, <1>2, <1>3, <1>5, SeqEqual
<1> QED
  BY <1>6 DEF x, y

\* The two ways that enclose the writes of an integration.
LEMMA Joined ==
  /\ <<"select">> \o <<"shim", "rc", "profile">> = <<"select", "shim", "rc", "profile">>
  /\ <<"deselect">> \o <<"profile", "rc", "unshim">> \o <<"remove">> =
       <<"deselect", "profile", "rc", "unshim", "remove">>
<1>1. <<"select">> \o <<"shim", "rc", "profile">> = <<"select", "shim", "rc", "profile">>
  BY Prefixed
<1>2. <<"deselect">> \o <<"profile", "rc", "unshim">>
        = <<"deselect", "profile", "rc", "unshim">>
  BY Prefixed
<1>3. <<"deselect", "profile", "rc", "unshim">> \o <<"remove">>
        = <<"deselect", "profile", "rc", "unshim", "remove">>
  BY Appended
<1> QED
  BY <1>1, <1>2, <1>3

\* A request that begins has all of its steps ahead.
Fresh(kind, c, s) ==
  /\ s \in Forward(kind, c)
  /\ s # <<>>
  /\ c => Among("profile", s) /\ Among("rc", s)
  /\ kind \in Term!Enables => Among("shim", s)
  /\ kind \notin Term!Enables /\ c => Among("unshim", s)
  /\ kind = Term!SelectNode => Among("select", s)
  /\ kind = Term!RemoveNode /\ c => Among("deselect", s)

\* Every plan is a forward way with all of its steps ahead.
LEMMA PlanFresh ==
  ASSUME TermAssumption, NEW kind \in Term!Kinds, NEW v, NEW c \in BOOLEAN, c
           <=> kind # Term!RemoveNode \/ v = selected
  PROVE  Fresh(kind, c, Term!Plan(kind, v))
<1> USE DEF Term!EnablePhp, Term!DisablePhp, Term!EnableNode, Term!DisableNode,
   Term!SelectNode, Term!RemoveNode, Term!PhpKinds, Term!Kinds, Term!Enables
<1>1. CASE kind \in {Term!EnablePhp, Term!EnableNode}
  <2>1. Term!Plan(kind, v) = <<"shim", "rc", "profile">>
    BY <1>1 DEF Term!Plan, Term!WritePlan, Term!ShellPlan, TermAssumption
  <2>2. Forward(kind, c) = Enabling
    BY <1>1 DEF Forward
  <2> QED
    BY <1>1, <2>1, <2>2, List3 DEF Fresh, Enabling
<1>2. CASE kind \in {Term!DisablePhp, Term!DisableNode}
  <2>1. Term!Plan(kind, v) = <<"profile", "rc", "unshim">>
    BY <1>2 DEF Term!Plan, Term!WritePlan, Term!ShellPlan, TermAssumption
  <2>2. Forward(kind, c) = Disabling
    BY <1>2 DEF Forward
  <2> QED
    BY <1>2, <2>1, <2>2, List3 DEF Fresh, Disabling
<1>3. CASE kind = Term!SelectNode
  <2>1. Term!Plan(kind, v) = <<"select", "shim", "rc", "profile">>
    BY <1>3, Joined DEF Term!Plan, Term!WritePlan, Term!ShellPlan, TermAssumption
  <2>2. Forward(kind, c) = {<<"select", "shim", "rc", "profile">>} \cup Enabling
    BY <1>3 DEF Forward
  <2> QED
    <3>1. \A x : Among(x, <<"select", "shim", "rc", "profile">>)
            <=> x \in {"select", "shim", "rc", "profile"}
      BY List4
    <3>2. \A x : Among(x, Term!Plan(kind, v)) <=> x \in {"select", "shim", "rc", "profile"}
      BY <2>1, <3>1
    <3>3. <<"select", "shim", "rc", "profile">> # <<>>
      BY List4
    <3> HIDE DEF Term!EnablePhp, Term!DisablePhp, Term!EnableNode, Term!DisableNode,
       Term!RemoveNode
    <3>4. kind # Term!RemoveNode /\ kind = Term!SelectNode /\ kind \in Term!Enables
      BY <1>3 DEF Term!RemoveNode
    <3> QED
      BY <2>1, <2>2, <3>2, <3>3, <3>4 DEF Fresh
<1>4. CASE kind = Term!RemoveNode /\ c
  <2>0. kind = Term!RemoveNode /\ v = selected
    BY <1>4
  <2>a. Term!WritePlan(kind) = <<"profile", "rc", "unshim">>
    BY <2>0 DEF Term!WritePlan, Term!ShellPlan, TermAssumption
  <2>1. Term!Plan(kind, v) = <<"deselect", "profile", "rc", "unshim", "remove">>
    <3>1. kind # Term!SelectNode
      BY <2>0
    <3>2. Term!Plan(kind, v) = <<"deselect">> \o Term!WritePlan(kind) \o <<"remove">>
      <4> DEFINE W == Term!WritePlan(kind)
                 X == <<"deselect">> \o W \o <<"remove">>
                 Y == <<"select">> \o W
      <4>1. /\ Term!Plan(kind, v) = CASE kind = Term!SelectNode -> Y [] kind
                 = Term!RemoveNode /\ v = selected -> X
                             [] kind = Term!RemoveNode
                               /\ v # selected -> <<"remove">> [] OTHER -> W
        BY DEF Term!Plan
      <4> HIDE DEF X, Y, W
      <4>2. Term!Plan(kind, v) = X
        BY <2>0, <3>1, <4>1
      <4> QED
        BY <4>2 DEF X, W
    <3> QED
      BY <2>a, <3>2, Joined
  <2>2. Forward(kind, c) = Removing
    BY <1>4 DEF Forward
  <2>3. Term!Plan(kind, v) \in Forward(kind, c)
    BY <2>1, <2>2 DEF Removing
  <2> QED
    <3>1. \A x : Among(x, Term!Plan(kind, v))
            <=> x \in {"deselect", "profile", "rc", "unshim", "remove"}
      BY <2>1, List5
    <3>2. Term!Plan(kind, v) # <<>>
      BY <2>1, List5
    <3>3. kind = Term!RemoveNode /\ kind # Term!SelectNode /\ kind \notin Term!Enables
      BY <2>0
    <3> QED
      BY <2>3, <3>1, <3>2, <3>3 DEF Fresh
<1>5. CASE kind = Term!RemoveNode /\ ~c
  <2>0. kind = Term!RemoveNode /\ v # selected
    BY <1>5
  <2>1. Term!Plan(kind, v) = <<"remove">>
    BY <2>0 DEF Term!Plan
  <2>2. Forward(kind, c) = {<<"remove">>}
    BY <1>5 DEF Forward
  <2>3. Term!Plan(kind, v) \in Forward(kind, c)
    BY <2>1, <2>2
  <2> QED
    BY <1>5, <2>1, <2>3, List1 DEF Fresh
<1> QED
  BY <1>1, <1>2, <1>3, <1>4, <1>5

\* A request, refused or not, keeps the invariant.
LEMMA AskInv ==
  ASSUME TermAssumption, TermInv, NEW kind \in Term!Kinds, NEW v \in Versions \cup {None},
           Term!Ask(kind, v)
  PROVE  TermInv'
<1> DEFINE refused == Term!Refused(kind) /\ (kind = Term!RemoveNode => v = selected)
           c == kind # Term!RemoveNode \/ v = selected
           left == IF refused THEN Term!RefusedPlan(kind, v) ELSE Term!Plan(kind, v)
           same == UNCHANGED <<profile, rc, path, shims, installed, selected, herd, torn>>
<1>1. /\ op' = [kind |-> kind, ok |-> ~refused, profile |-> profile, rc |-> rc,
                version |-> v, was |-> selected, undone |-> TRUE, left |-> left]
      /\ Term!Idle /\ same
      /\ kind \in {Term!SelectNode, Term!RemoveNode} => v \in installed
  BY DEF Term!Ask
<1>2. refused \in BOOLEAN /\ c \in BOOLEAN
  OBVIOUS
<1>3. refused => c
  OBVIOUS
<1>4. kind = Term!EnableNode /\ ~refused => selected \in installed
  BY DEF Term!Refused, Term!RemoveNode, Term!EnableNode
<1>5. Fresh(kind, c, Term!Plan(kind, v))
  BY <1>2, PlanFresh
<1>6. refused /\ left # <<>> => left \in Backward(kind, TRUE)
  BY DEF Term!RefusedPlan, Backward, Term!SelectNode, Term!RemoveNode, Term!EnablePhp,
     Term!EnableNode, Term!DisablePhp, Term!DisableNode
<1>a. ~refused => left = Term!Plan(kind, v)
  OBVIOUS
<1> HIDE DEF refused, c, left
<1>7. /\ op'.kind = kind /\ (op'.ok <=> ~refused) /\ op'.profile = profile /\ op'.rc = rc
           /\ op'.version = v
      /\ op'.was = selected /\ op'.undone = TRUE /\ op'.left = left
      /\ OpShaped' /\ op'.ok \in BOOLEAN
  BY <1>1, <1>2 DEF OpShaped
<1>b. Changing' = c
  BY <1>7 DEF Changing, c
<1> HIDE DEF same
<1>8. TermTyped'
  BY <1>1, <1>7 DEF TermTyped, OpShaped, TermInv, same
<1>9. TermPlaced'
  <2>1. CASE refused
    <3>1. left = <<>> \/ left \in Backward(op'.kind, op'.undone)
      BY <1>6, <1>7, <2>1
    <3>2. ~op'.ok /\ Changing'
      BY <1>3, <1>7, <1>b, <2>1
    <3> QED
      BY <1>7, <3>1, <3>2 DEF TermPlaced
  <2>2. CASE ~refused
    <3>1. left \in Forward(kind, c)
      BY <1>5, <1>a, <2>2 DEF Fresh
    <3>2. op'.left \in Forward(op'.kind, Changing')
      BY <1>7, <1>b, <3>1
    <3>3. op'.ok
      BY <1>7, <2>2
    <3> QED
      BY <3>2, <3>3 DEF TermPlaced
  <2> QED
    BY <2>1, <2>2
<1>10. Advanced'
  <2> SUFFICES ASSUME ~refused
               PROVE  Advanced'
    BY <1>7 DEF Advanced
  <2>1. op'.left = Term!Plan(kind, v)
    BY <1>7, <1>a
  <2>2. profile' = op'.profile /\ rc' = op'.rc /\ selected' = op'.was
    BY <1>1, <1>7 DEF same
  <2>3. Changing' => Among("profile", op.left)' /\ Among("rc", op.left)'
    BY <1>5, <2>1, <1>b DEF Fresh
  <2>4. /\ op'.kind \in Term!Enables => Among("shim", op.left)'
        /\ op'.kind \notin Term!Enables /\ Changing' => Among("unshim", op.left)'
        /\ op'.kind = Term!SelectNode => Among("select", op.left)'
        /\ op'.kind = Term!RemoveNode /\ Changing' => Among("deselect", op.left)'
    BY <1>5, <1>7, <2>1, <1>b DEF Fresh
  <2>5. /\ op'.kind = Term!SelectNode => op'.version \in installed'
        /\ op'.kind = Term!EnableNode => op'.was \in installed'
    BY <1>1, <1>4, <1>7 DEF same
  <2> QED
    BY <2>2, <2>3, <2>4, <2>5 DEF Advanced
<1>11. OtherKept'
  BY <1>1, <1>7 DEF OtherKept, same
<1>12. PhpHolds'
  BY <1>1 DEF PhpHolds, PhpWhole, same, TermInv
<1>13. NodeHolds'
  BY <1>1 DEF NodeHolds, NodeWhole, same, TermInv
<1>14. LinesKept'
  BY <1>1, <1>7 DEF LinesKept, same, TermInv
<1>15. TakenBack'
  BY <1>1, <1>7 DEF TakenBack, same
<1> QED
  BY <1>8, <1>9, <1>10, <1>11, <1>12, <1>13, <1>14, <1>15 DEF TermInv

\* What a step that fails makes of the operation.
LEMMA FailOp ==
  ASSUME OpShaped, Term!Fail
  PROVE  /\ op'.kind = op.kind /\ op'.profile = op.profile /\ op'.rc = op.rc
              /\ op'.version = op.version
         /\ op'.was = op.was /\ ~op'.ok /\ op'.ok \in BOOLEAN /\ op'.undone \in BOOLEAN
         /\ op'.undone <=> op.undone /\ ~Term!Undoing(Turn)
         /\ op'.left = IF Term!Undoing(Turn) THEN Tail(op.left)
                       ELSE Term!UndoFiles(op.kind, Turn) \o Term!UndoAgent(op.kind, Turn)
         /\ OpShaped' /\ Turn # "restart" /\ ~Term!Idle /\ (Changing' <=> Changing)
<1> DEFINE left == IF Term!Undoing(Turn) THEN Tail(op.left)
                   ELSE Term!UndoFiles(op.kind, Turn) \o Term!UndoAgent(op.kind, Turn)
           u == op.undone /\ ~Term!Undoing(Turn)
           no == FALSE
           K == {op.kind}
           L == {left}
           O == {no}
           P == {op.profile}
           R == {op.rc}
           V == {op.version}
           W == {op.was}
           U == {u}
           New == [op EXCEPT !.left = left, !.ok = no, !.undone = u]
<1>1. op' = New /\ Turn # "restart" /\ ~Term!Idle
  BY DEF Term!Fail, Turn
<1>3. u \in BOOLEAN /\ no \in BOOLEAN /\ ~no
  OBVIOUS
<1>b. u <=> op.undone /\ ~Term!Undoing(Turn)
  OBVIOUS
<1> HIDE DEF left, u, no
<1>4. /\ op.kind \in K /\ left \in L /\ no \in O /\ op.profile \in P /\ op.rc \in R
      /\ op.version \in V /\ op.was \in W /\ u \in U
  OBVIOUS
<1> HIDE DEF K, L, O, P, R, V, W, U
<1>5. New \in [kind : K, left : L, ok : O, profile : P, rc : R, version : V, was : W, undone
        : U]
  BY <1>4 DEF OpShaped
<1> HIDE DEF New
<1>6. /\ op'.kind \in K /\ op'.left \in L /\ op'.ok \in O /\ op'.profile \in P
           /\ op'.rc \in R
      /\ op'.version \in V /\ op'.was \in W /\ op'.undone \in U
  BY <1>1, <1>5
<1>7. OpShaped'
  BY <1>1, <1>5 DEF OpShaped
<1>8. /\ op'.kind = op.kind /\ op'.profile = op.profile /\ op'.rc = op.rc
           /\ op'.version = op.version
      /\ op'.was = op.was /\ op'.ok = no /\ op'.undone = u /\ op'.left = left
  BY <1>6 DEF K, L, O, P, R, V, W, U
<1>9. Changing' <=> Changing
  BY <1>8 DEF Changing
<1> QED
  BY <1>1, <1>3, <1>b, <1>7, <1>8, <1>9 DEF left

\* Undo steps of the files before those of the Agent.
LEMMA Joins ==
  \A a, b, c : /\ <<>> \o <<>> = <<>> /\ <<>> \o <<a>> = <<a>>
    /\ <<>> \o <<a, b>> = <<a, b>>
               /\ <<a>> \o <<>> = <<a>> /\ <<a, b>> \o <<>> = <<a, b>>
               /\ <<a>> \o <<b>> = <<a, b>> /\ <<a, b>> \o <<c>> = <<a, b, c>>
<1> TAKE a, b, c
<1>1. <<>> \o <<>> = <<>> /\ <<>> \o <<a>> = <<a>> /\ <<>> \o <<a, b>> = <<a, b>>
  OBVIOUS
<1>2. <<a>> \o <<>> = <<a>> /\ <<a, b>> \o <<>> = <<a, b>>
  OBVIOUS
<1>3. <<a>> \o <<b>> = <<a, b>>
  <2> DEFINE S == {a, b}
             x == <<a>> \o <<b>>
             y == <<a, b>>
  <2>1. <<a>> \in Seq(S) /\ <<b>> \in Seq(S) /\ y \in Seq(S)
    OBVIOUS
  <2>2. x \in Seq(S) /\ Len(x) = 2 /\ x[1] = a /\ x[2] = b
    BY <2>1, ConcatProperties
  <2>3. Len(y) = 2 /\ y[1] = a /\ y[2] = b
    OBVIOUS
  <2>4. \A i \in 1..2 : i \in {1, 2}
    OBVIOUS
  <2> HIDE DEF x, y
  <2>5. \A i \in 1..Len(x) : x[i] = y[i]
    BY <2>2, <2>3, <2>4
  <2>6. x = y
    BY <2>1, <2>2, <2>3, <2>5, SeqEqual
  <2> QED
    BY <2>6 DEF x, y
<1>4. <<a, b>> \o <<c>> = <<a, b, c>>
  <2> DEFINE S == {a, b, c}
             x == <<a, b>> \o <<c>>
             y == <<a, b, c>>
  <2>1. <<a, b>> \in Seq(S) /\ <<c>> \in Seq(S) /\ y \in Seq(S)
    OBVIOUS
  <2>2. x \in Seq(S) /\ Len(x) = 3 /\ x[1] = a /\ x[2] = b /\ x[3] = c
    BY <2>1, ConcatProperties
  <2>3. Len(y) = 3 /\ y[1] = a /\ y[2] = b /\ y[3] = c
    OBVIOUS
  <2>4. \A i \in 1..3 : i \in {1, 2, 3}
    OBVIOUS
  <2> HIDE DEF x, y
  <2>5. \A i \in 1..Len(x) : x[i] = y[i]
    BY <2>2, <2>3, <2>4
  <2>6. x = y
    BY <2>1, <2>2, <2>3, <2>5, SeqEqual
  <2> QED
    BY <2>6 DEF x, y
<1> QED
  BY <1>1, <1>2, <1>3, <1>4

\* What the code takes back when a step fails.
Back(kind, turn) == Term!UndoFiles(kind, turn) \o Term!UndoAgent(kind, turn)

\* The way back from a failed step: it puts back what the steps behind have written.
Returned(kind, turn, s) ==
  LET c == kind # Term!RemoveNode \/ op.was = op.version
  IN /\ c => s = <<>> \/ \A u \in BOOLEAN : s \in Backward(kind, u)
     /\ ~c /\ turn = "remove" => s = <<>>
     /\ kind = Term!SelectNode \/ (kind = Term!RemoveNode /\ (c \/ turn # "remove"))
          => Among("reselect", s)
     /\ kind = Term!RemoveNode /\ c /\ turn = "remove" => Among("restart", s)
     /\ kind \notin Term!Enables /\ turn = "rc" => Among("profileBack", s)
     /\ kind \in {Term!DisableNode, Term!RemoveNode} /\ turn = "unshim"
          => Among("profileBack", s) /\ Among("rcBack", s)
     /\ kind \in Term!Enables /\ turn = "profile" => Among("rcBack", s)

\* Every way back does.
LEMMA Backs ==
  ASSUME TermAssumption, NEW kind \in Term!Kinds, NEW turn
  PROVE  Returned(kind, turn, Back(kind, turn))
<1> USE DEF Term!EnablePhp, Term!DisablePhp, Term!EnableNode, Term!DisableNode,
   Term!SelectNode, Term!RemoveNode, Term!PhpKinds, Term!Kinds, Term!Enables
<1>1. CASE kind \in {Term!EnablePhp, Term!EnableNode} /\ turn = "profile"
  <2>1. Term!UndoFiles(kind, turn) = <<"rcBack">>
    BY <1>1 DEF Term!UndoFiles, TermAssumption
  <2>2. Term!UndoAgent(kind, turn) = <<>>
    BY <1>1 DEF Term!UndoAgent
  <2>3. Back(kind, turn) = <<"rcBack">>
    BY <2>1, <2>2, Joins DEF Back
  <2>4. \A x : Among(x, <<"rcBack">>) <=> x \in {"rcBack"}
    BY List1
  <2>5. \A u \in BOOLEAN : Back(kind, turn) \in Backward(kind, u)
    BY <1>1, <2>3 DEF Backward
  <2> QED
    BY <1>1, <2>3, <2>4, <2>5 DEF Returned
<1>2. CASE kind \in {Term!EnablePhp, Term!EnableNode} /\ turn # "profile"
  <2>1. Term!UndoFiles(kind, turn) = <<>>
    BY <1>2 DEF Term!UndoFiles, TermAssumption
  <2>2. Term!UndoAgent(kind, turn) = <<>>
    BY <1>2 DEF Term!UndoAgent
  <2>3. Back(kind, turn) = <<>>
    BY <2>1, <2>2, Joins DEF Back
  <2> QED
    BY <1>2, <2>3 DEF Returned
<1>3. CASE kind = Term!SelectNode /\ turn = "profile"
  <2>1. Term!UndoFiles(kind, turn) = <<"rcBack">>
    BY <1>3 DEF Term!UndoFiles, TermAssumption
  <2>2. Term!UndoAgent(kind, turn) = <<"reselect">>
    BY <1>3 DEF Term!UndoAgent
  <2>3. Back(kind, turn) = <<"rcBack", "reselect">>
    BY <2>1, <2>2, Joins DEF Back
  <2>4. \A x : Among(x, <<"rcBack", "reselect">>) <=> x \in {"rcBack", "reselect"}
    BY List2
  <2>5. \A u \in BOOLEAN : Back(kind, turn) \in Backward(kind, u)
    BY <1>3, <2>3 DEF Backward
  <2> QED
    BY <1>3, <2>3, <2>4, <2>5 DEF Returned
<1>4. CASE kind = Term!SelectNode /\ turn # "profile"
  <2>1. Term!UndoFiles(kind, turn) = <<>>
    BY <1>4 DEF Term!UndoFiles, TermAssumption
  <2>2. Term!UndoAgent(kind, turn) = <<"reselect">>
    BY <1>4 DEF Term!UndoAgent
  <2>3. Back(kind, turn) = <<"reselect">>
    BY <2>1, <2>2, Joins DEF Back
  <2>4. \A x : Among(x, <<"reselect">>) <=> x \in {"reselect"}
    BY List1
  <2>5. \A u \in BOOLEAN : Back(kind, turn) \in Backward(kind, u)
    BY <1>4, <2>3 DEF Backward
  <2> QED
    BY <1>4, <2>3, <2>4, <2>5 DEF Returned
<1>5. CASE kind \in {Term!DisablePhp, Term!DisableNode} /\ turn = "rc"
  <2>1. Term!UndoFiles(kind, turn) = <<"profileBack">>
    BY <1>5 DEF Term!UndoFiles, TermAssumption
  <2>2. Term!UndoAgent(kind, turn) = <<>>
    BY <1>5 DEF Term!UndoAgent
  <2>3. Back(kind, turn) = <<"profileBack">>
    BY <2>1, <2>2, Joins DEF Back
  <2>4. \A x : Among(x, <<"profileBack">>) <=> x \in {"profileBack"}
    BY List1
  <2>5. \A u \in BOOLEAN : Back(kind, turn) \in Backward(kind, u)
    BY <1>5, <2>3 DEF Backward
  <2> QED
    BY <1>5, <2>3, <2>4, <2>5 DEF Returned
<1>6. CASE kind = Term!DisableNode /\ turn = "unshim"
  <2>1. Term!UndoFiles(kind, turn) = <<"profileBack", "rcBack">>
    BY <1>6 DEF Term!UndoFiles, TermAssumption
  <2>2. Term!UndoAgent(kind, turn) = <<>>
    BY <1>6 DEF Term!UndoAgent
  <2>3. Back(kind, turn) = <<"profileBack", "rcBack">>
    BY <2>1, <2>2, Joins DEF Back
  <2>4. \A x : Among(x, <<"profileBack", "rcBack">>) <=> x \in {"profileBack", "rcBack"}
    BY List2
  <2>5. \A u \in BOOLEAN : Back(kind, turn) \in Backward(kind, u)
    BY <1>6, <2>3 DEF Backward
  <2> QED
    BY <1>6, <2>3, <2>4, <2>5 DEF Returned
<1>7. CASE /\ kind \in {Term!DisablePhp, Term!DisableNode} /\ turn # "rc"
           /\ ~(kind = Term!DisableNode /\ turn = "unshim")
  <2>1. Term!UndoFiles(kind, turn) = <<>>
    BY <1>7 DEF Term!UndoFiles, TermAssumption
  <2>2. Term!UndoAgent(kind, turn) = <<>>
    BY <1>7 DEF Term!UndoAgent
  <2>3. Back(kind, turn) = <<>>
    BY <2>1, <2>2, Joins DEF Back
  <2> QED
    BY <1>7, <2>3 DEF Returned
<1>8. CASE kind = Term!RemoveNode /\ turn = "rc"
  <2>1. Term!UndoFiles(kind, turn) = <<"profileBack">>
    BY <1>8 DEF Term!UndoFiles, TermAssumption
  <2>2. Term!UndoAgent(kind, turn) = <<"reselect">>
    BY <1>8 DEF Term!UndoAgent
  <2>3. Back(kind, turn) = <<"profileBack", "reselect">>
    BY <2>1, <2>2, Joins DEF Back
  <2>4. \A x : Among(x, <<"profileBack", "reselect">>) <=> x \in {"profileBack", "reselect"}
    BY List2
  <2>5. \A u \in BOOLEAN : Back(kind, turn) \in Backward(kind, u)
    BY <1>8, <2>3 DEF Backward
  <2> QED
    BY <1>8, <2>3, <2>4, <2>5 DEF Returned
<1>9. CASE kind = Term!RemoveNode /\ turn = "unshim"
  <2>1. Term!UndoFiles(kind, turn) = <<"profileBack", "rcBack">>
    BY <1>9 DEF Term!UndoFiles, TermAssumption
  <2>2. Term!UndoAgent(kind, turn) = <<"reselect">>
    BY <1>9 DEF Term!UndoAgent
  <2>3. Back(kind, turn) = <<"profileBack", "rcBack", "reselect">>
    BY <2>1, <2>2, Joins DEF Back
  <2>4. \A x : Among(x, <<"profileBack", "rcBack", "reselect">>)
          <=> x \in {"profileBack", "rcBack", "reselect"}
    BY List3
  <2>5. \A u \in BOOLEAN : Back(kind, turn) \in Backward(kind, u)
    BY <1>9, <2>3 DEF Backward
  <2> QED
    BY <1>9, <2>3, <2>4, <2>5 DEF Returned
<1>10. CASE kind = Term!RemoveNode /\ turn = "remove" /\ op.was = op.version
  <2>1. Term!UndoFiles(kind, turn) = <<>>
    BY <1>10 DEF Term!UndoFiles, TermAssumption
  <2>2. Term!UndoAgent(kind, turn) = <<"reselect", "restart">>
    BY <1>10 DEF Term!UndoAgent
  <2>3. Back(kind, turn) = <<"reselect", "restart">>
    BY <2>1, <2>2, Joins DEF Back
  <2>4. \A x : Among(x, <<"reselect", "restart">>) <=> x \in {"reselect", "restart"}
    BY List2
  <2>5. \A u \in BOOLEAN : Back(kind, turn) \in Backward(kind, u)
    BY <1>10, <2>3 DEF Backward
  <2> QED
    BY <1>10, <2>3, <2>4, <2>5 DEF Returned
<1>11. CASE kind = Term!RemoveNode /\ turn = "remove" /\ op.was # op.version
  <2>1. Term!UndoFiles(kind, turn) = <<>>
    BY <1>11 DEF Term!UndoFiles, TermAssumption
  <2>2. Term!UndoAgent(kind, turn) = <<>>
    BY <1>11 DEF Term!UndoAgent
  <2>3. Back(kind, turn) = <<>>
    BY <2>1, <2>2, Joins DEF Back
  <2> QED
    BY <1>11, <2>3 DEF Returned
<1>12. CASE kind = Term!RemoveNode /\ turn \notin {"rc", "unshim", "remove"}
  <2>1. Term!UndoFiles(kind, turn) = <<>>
    BY <1>12 DEF Term!UndoFiles, TermAssumption
  <2>2. Term!UndoAgent(kind, turn) = <<"reselect">>
    BY <1>12 DEF Term!UndoAgent
  <2>3. Back(kind, turn) = <<"reselect">>
    BY <2>1, <2>2, Joins DEF Back
  <2>4. \A x : Among(x, <<"reselect">>) <=> x \in {"reselect"}
    BY List1
  <2>5. \A u \in BOOLEAN : Back(kind, turn) \in Backward(kind, u)
    BY <1>12, <2>3 DEF Backward
  <2> QED
    BY <1>12, <2>3, <2>4, <2>5 DEF Returned
<1> QED
  BY <1>1, <1>2, <1>3, <1>4, <1>5, <1>6, <1>7, <1>8, <1>9, <1>10, <1>11, <1>12

\* A step that fails, an undo included, keeps the invariant.
LEMMA FailInv ==
  ASSUME TermAssumption, TermInv, Term!Fail
  PROVE  TermInv'
<1>1. /\ op'.kind = op.kind /\ op'.profile = op.profile /\ op'.rc = op.rc
           /\ op'.version = op.version
      /\ op'.was = op.was /\ ~op'.ok /\ op'.ok \in BOOLEAN /\ op'.undone \in BOOLEAN
      /\ op'.undone <=> op.undone /\ ~Term!Undoing(Turn)
      /\ OpShaped' /\ Turn # "restart" /\ ~Term!Idle /\ (Changing' <=> Changing)
  BY FailOp DEF TermInv, TermTyped, OpShaped
<1>2. op'.left = IF Term!Undoing(Turn) THEN Tail(op.left) ELSE Back(op.kind, Turn)
  BY FailOp DEF TermInv, TermTyped, OpShaped, Back
<1>3. OnItsWay
  BY <1>1, TermWay DEF TermInv
<1>4. Returned(op.kind, Turn, Back(op.kind, Turn))
  BY Backs DEF TermInv, TermTyped
<1>5. /\ UNCHANGED <<profile, rc, path, installed, selected, herd>>
      /\ torn' = torn \cup {Term!Integration(op.kind)}
  BY DEF Term!Fail
<1>6. /\ shims' \ Term!Shimmed(op.kind) = shims \ Term!Shimmed(op.kind)
      /\ shims' \subseteq shims \cup Term!Shimmed(op.kind)
  BY DEF Term!Fail
<1>7. TermTyped'
  <2>1. shims' \subseteq {Term!Php} \cup NodeShims
    BY <1>6 DEF TermInv, TermTyped, Term!Shimmed
  <2>2. torn' \subseteq {"php", "node"}
    BY <1>5 DEF TermInv, TermTyped, Term!Integration
  <2> QED
    BY <1>1, <1>5, <2>1, <2>2 DEF TermTyped, OpShaped, TermInv
<1>8. TermPlaced'
  <2>1. CASE Term!Undoing(Turn)
    <3>1. ~op.ok
      BY <1>3, <2>1 DEF OnItsWay, ForwardSteps, Term!Undoing, Turn
    <3>2. BackwardSteps(op.kind, op.undone, op.left) /\ Changing
      BY <1>3, <3>1 DEF OnItsWay
    <3>3. op'.left = <<>> \/ op'.left \in Backward(op.kind, op.undone)
      BY <1>2, <2>1, <3>2 DEF BackwardSteps
    <3>4. op'.undone = FALSE
      BY <1>1, <2>1
    <3>5. op'.left = <<>> \/ op'.left \in Backward(op.kind, FALSE)
      BY <3>3 DEF Backward
    <3> QED
      BY <1>1, <3>2, <3>4, <3>5 DEF TermPlaced
  <2>2. CASE ~Term!Undoing(Turn)
    <3>1. op'.left = Back(op.kind, Turn)
      BY <1>2, <2>2
    <3>2. CASE Changing
      BY <1>1, <1>4, <3>1, <3>2 DEF TermPlaced, Returned, Changing
    <3>3. CASE ~Changing
      <4>1. op.ok
        BY <1>3, <3>3 DEF OnItsWay
      <4>2. Turn = "remove"
        BY <1>3, <3>3, <4>1 DEF OnItsWay, ForwardSteps, Turn, Changing
      <4> QED
        BY <1>4, <3>1, <3>3, <4>2 DEF TermPlaced, Returned, Changing
    <3> QED
      BY <3>2, <3>3
  <2> QED
    BY <2>1, <2>2
<1>9. Advanced'
  BY <1>1 DEF Advanced
<1>10. OtherKept'
  BY <1>1, <1>5 DEF OtherKept, TermInv
<1>11. PhpHolds'
  <2> SUFFICES ASSUME "php" \notin torn'
               PROVE  PhpWhole'
    BY DEF PhpHolds
  <2>1. op.kind \notin Term!PhpKinds /\ "php" \notin torn
    BY <1>5 DEF Term!Integration
  <2>2. PhpWhole
    BY <2>1 DEF PhpHolds, TermInv
  <2>3. Term!Shimmed(op.kind) = NodeShims
    BY <2>1 DEF Term!Shimmed
  <2>4. Term!Php \in shims' <=> Term!Php \in shims
    BY <1>6, <2>3 DEF TermAssumption
  <2> QED
    BY <1>5, <2>2, <2>4 DEF PhpWhole
<1>12. NodeHolds'
  <2> SUFFICES ASSUME "node" \notin torn'
               PROVE  NodeWhole'
    BY DEF NodeHolds
  <2>1. op.kind \in Term!PhpKinds /\ "node" \notin torn
    BY <1>5 DEF Term!Integration
  <2>2. NodeWhole
    BY <2>1 DEF NodeHolds, TermInv
  <2>3. Term!Shimmed(op.kind) = {Term!Php}
    BY <2>1 DEF Term!Shimmed
  <2>4. shims' \cap NodeShims = shims \cap NodeShims
    BY <1>6, <2>3 DEF TermAssumption
  <2> QED
    BY <1>5, <2>2, <2>4 DEF NodeWhole
<1>13. LinesKept'
  BY <1>1, <1>5 DEF LinesKept, TermInv
<1>14. TakenBack'
  <2> SUFFICES ASSUME op.undone, ~Term!Undoing(Turn), ~Among("restart", Back(op.kind, Turn))
               PROVE  TakenBack'
    BY <1>1, <1>2 DEF TakenBack
  <2>1. op'.left = Back(op.kind, Turn)
    BY <1>2
  <2>2. CASE op.ok
    <3>1. ForwardSteps(op.kind, Changing, op.left)
      BY <1>3, <2>2 DEF OnItsWay
    <3>2. Advanced
      BY DEF TermInv
    <3>3. selected # op.was => Among("reselect", Back(op.kind, Turn))
      BY <1>1, <1>4, <2>2, <3>2 DEF Advanced, Returned, Changing
    <3>4. op.kind # Term!DisablePhp /\ profile # op.profile
            => Among("profileBack", Back(op.kind, Turn))
      <4> SUFFICES ASSUME op.kind # Term!DisablePhp, profile # op.profile
                   PROVE  Among("profileBack", Back(op.kind, Turn))
        OBVIOUS
      <4>1. ~Among("profile", op.left) /\ Changing
        BY <1>1, <2>2, <3>2 DEF Advanced
      <4>2. Turn \in {"rc", "unshim", "remove"} /\ op.kind \notin Term!Enables
        BY <1>3, <3>1, <4>1 DEF ForwardSteps, Turn, OnItsWay
      <4>3. Turn # "remove"
        BY <1>4, <3>1, <4>1 DEF Returned, Changing, ForwardSteps, Turn
      <4>4. op.kind \in {Term!DisableNode, Term!RemoveNode}
        BY <4>2 DEF TermInv, TermTyped, Term!Kinds, Term!PhpKinds, Term!Enables
      <4> QED
        BY <1>4, <4>2, <4>3, <4>4 DEF Returned
    <3>5. op.kind # Term!DisablePhp /\ rc # op.rc => Among("rcBack", Back(op.kind, Turn))
      <4> SUFFICES ASSUME op.kind # Term!DisablePhp, rc # op.rc
                   PROVE  Among("rcBack", Back(op.kind, Turn))
        OBVIOUS
      <4>1. ~Among("rc", op.left) /\ Changing
        BY <1>1, <2>2, <3>2 DEF Advanced
      <4>2. /\ Turn \in {"profile", "unshim", "remove"}
            /\ (Turn = "profile" <=> op.kind \in Term!Enables)
        BY <1>3, <3>1, <4>1 DEF ForwardSteps, Turn, OnItsWay, Term!Enables, Term!RemoveNode,
           Term!EnablePhp, Term!EnableNode, Term!SelectNode
      <4>3. Turn # "remove"
        BY <1>4, <3>1, <4>1 DEF Returned, Changing, ForwardSteps, Turn
      <4>4. op.kind \in Term!Enables \cup {Term!DisableNode, Term!RemoveNode}
        BY DEF TermInv, TermTyped, Term!Kinds, Term!PhpKinds, Term!Enables
      <4> QED
        BY <1>4, <4>2, <4>3, <4>4 DEF Returned
    <3> QED
      BY <1>1, <1>5, <2>1, <3>3, <3>4, <3>5 DEF TakenBack
  <2>3. CASE ~op.ok
    <3>1. BackwardSteps(op.kind, op.undone, op.left)
      BY <1>3, <2>3 DEF OnItsWay
    <3>2. Turn \in {"select", "deselect"}
      BY <1>1, <3>1 DEF BackwardSteps, Turn, Term!Undoing
    <3>3. /\ op.kind \in {Term!SelectNode, Term!RemoveNode}
          /\ ~Among("profileBack", op.left) /\ ~Among("rcBack", op.left)
      BY <3>1, <3>2 DEF BackwardSteps, Turn
    <3>4. Among("reselect", Back(op.kind, Turn))
      BY <1>4, <3>2, <3>3 DEF Returned
    <3>5. ~Among("restart", op.left)
      BY <3>1, <3>2 DEF BackwardSteps, Turn
    <3>6. op.kind # Term!DisablePhp
      BY <3>3 DEF Term!SelectNode, Term!RemoveNode, Term!DisablePhp
    <3>7. profile = op.profile /\ rc = op.rc
      BY <2>3, <3>3, <3>5, <3>6 DEF TakenBack, TermInv
    <3> QED
      BY <1>1, <1>5, <2>1, <3>4, <3>7 DEF TakenBack
  <2> QED
    BY <2>2, <2>3
<1> QED
  BY <1>7, <1>8, <1>9, <1>10, <1>11, <1>12, <1>13, <1>14 DEF TermInv

\* What enabling Node again makes of it.
LEMMA RestartOp ==
  ASSUME OpShaped, Term!Restart
  PROVE  /\ op'.kind = Term!EnableNode /\ op'.profile = profile /\ op'.rc = rc
              /\ op'.version = op.version
         /\ op'.was = op.was /\ op'.ok = op.ok /\ ~op'.undone /\ op'.undone \in BOOLEAN
         /\ op'.left = Term!WritePlan(Term!EnableNode)
         /\ OpShaped' /\ Turn = "restart" /\ ~Term!Idle
<1> DEFINE no == FALSE
           left == Term!WritePlan(Term!EnableNode)
           K == {Term!EnableNode}
           L == {left}
           O == {op.ok}
           P == {profile}
           R == {rc}
           V == {op.version}
           W == {op.was}
           U == {no}
           New == [op EXCEPT !.left = left, !.kind = Term!EnableNode, !.profile = profile,
             !.rc = rc, !.undone = no]
<1>1. op' = New /\ Turn = "restart" /\ ~Term!Idle
  BY DEF Term!Restart, Turn
<1>2. no \in BOOLEAN /\ ~no
  OBVIOUS
<1> HIDE DEF left, no
<1>3. /\ Term!EnableNode \in K /\ left \in L /\ op.ok \in O /\ profile \in P /\ rc \in R
      /\ op.version \in V /\ op.was \in W /\ no \in U
  OBVIOUS
<1> HIDE DEF K, L, O, P, R, V, W, U
<1>4. New \in [kind : K, left : L, ok : O, profile : P, rc : R, version : V, was : W, undone
        : U]
  BY <1>3 DEF OpShaped
<1> HIDE DEF New
<1>5. /\ op'.kind \in K /\ op'.left \in L /\ op'.ok \in O /\ op'.profile \in P
           /\ op'.rc \in R
      /\ op'.version \in V /\ op'.was \in W /\ op'.undone \in U
  BY <1>1, <1>4
<1>6. OpShaped'
  BY <1>1, <1>4 DEF OpShaped
<1> QED
  BY <1>1, <1>2, <1>5, <1>6 DEF K, L, O, P, R, V, W, U, left

\* Enabling Node again, after a version that could not be removed, keeps the invariant.
LEMMA RestartInv ==
  ASSUME TermAssumption, TermInv, Term!Restart
  PROVE  TermInv'
<1>9. /\ op'.kind = Term!EnableNode /\ op'.profile = profile /\ op'.rc = rc
           /\ op'.version = op.version
      /\ op'.was = op.was /\ op'.ok = op.ok /\ ~op'.undone /\ op'.undone \in BOOLEAN
      /\ op'.left = Term!WritePlan(Term!EnableNode)
      /\ OpShaped' /\ Turn = "restart" /\ ~Term!Idle
  BY RestartOp DEF TermInv, TermTyped, OpShaped
<1>a. op'.left = <<"shim", "rc", "profile">>
  BY <1>9 DEF Term!WritePlan, Term!ShellPlan, TermAssumption, Term!Enables
<1>10. UNCHANGED <<profile, rc, path, shims, installed, selected, herd, torn>>
  BY DEF Term!Restart
<1>11. OnItsWay
  BY <1>9, TermWay DEF TermInv
<1>12. ~op.ok
  BY <1>9, <1>11 DEF OnItsWay, ForwardSteps, Turn
<1>13. op.kind = Term!RemoveNode
  <2>1. BackwardSteps(op.kind, op.undone, op.left)
    BY <1>11, <1>12 DEF OnItsWay
  <2> QED
    BY <1>9, <1>11, <2>1 DEF OnItsWay, BackwardSteps
<1>14. TermTyped'
  BY <1>9, <1>10 DEF TermInv, TermTyped, OpShaped, Term!Kinds
<1>15. Changing'
  BY <1>9 DEF Changing, Term!EnableNode, Term!RemoveNode
<1>16. op'.kind \notin Term!PhpKinds
  BY <1>9 DEF Term!EnableNode, Term!EnablePhp, Term!DisablePhp, Term!PhpKinds
<1>17. ~Term!Idle'
  BY <1>a, List3 DEF Term!Idle
<1>18. TermPlaced'
  <2>1. Backward(Term!EnableNode, op'.undone) = {<<"rcBack">>} \cup Enabling
    BY <1>9 DEF Backward, Term!EnableNode, Term!EnablePhp, Term!SelectNode, Term!DisablePhp,
       Term!DisableNode
  <2>2. op'.left \in Backward(op'.kind, op'.undone)
    BY <1>9, <1>a, <2>1 DEF Enabling
  <2> QED
    BY <1>9, <1>12, <1>15, <2>2 DEF TermPlaced
<1>19. Advanced'
  BY <1>9, <1>12 DEF Advanced
<1>20. OtherKept'
  BY <1>9, <1>10 DEF OtherKept
<1>21. PhpHolds'
  BY <1>10, <1>13 DEF PhpHolds, PhpWhole, TermInv, Term!PhpKinds, Term!EnablePhp,
     Term!DisablePhp, Term!RemoveNode
<1>22. NodeHolds'
  BY <1>15, <1>16, <1>17 DEF NodeHolds
<1>23. LinesKept'
  BY <1>9, <1>10 DEF LinesKept, TermInv
<1>24. TakenBack'
  BY <1>9 DEF TakenBack
<1> QED
  BY <1>14, <1>18, <1>19, <1>20, <1>21, <1>22, <1>23, <1>24 DEF TermInv

\* What the death of the Agent makes of it.
LEMMA CrashOp ==
  ASSUME OpShaped, Term!Crash
  PROVE  /\ op'.kind = op.kind /\ op'.profile = op.profile /\ op'.rc = op.rc
              /\ op'.version = op.version
         /\ op'.was = op.was /\ ~op'.ok /\ ~op'.undone
         /\ op'.ok \in BOOLEAN /\ op'.undone \in BOOLEAN
         /\ op'.left = <<>> /\ OpShaped' /\ ~Term!Idle
<1> DEFINE no == FALSE
           none == <<>>
           K == {op.kind}
           L == {none}
           O == {no}
           P == {op.profile}
           R == {op.rc}
           V == {op.version}
           W == {op.was}
           U == {no}
           New == [op EXCEPT !.left = none, !.ok = no, !.undone = no]
<1>1. op' = New /\ ~Term!Idle
  BY DEF Term!Crash
<1>2. no \in BOOLEAN /\ ~no /\ none = <<>>
  OBVIOUS
<1> HIDE DEF no, none
<1>3. /\ op.kind \in K /\ none \in L /\ no \in O /\ op.profile \in P /\ op.rc \in R
      /\ op.version \in V /\ op.was \in W /\ no \in U
  OBVIOUS
<1> HIDE DEF K, L, O, P, R, V, W, U
<1>4. New \in [kind : K, left : L, ok : O, profile : P, rc : R, version : V, was : W, undone
        : U]
  BY <1>3 DEF OpShaped
<1> HIDE DEF New
<1>5. /\ op'.kind \in K /\ op'.left \in L /\ op'.ok \in O /\ op'.profile \in P
           /\ op'.rc \in R
      /\ op'.version \in V /\ op'.was \in W /\ op'.undone \in U
  BY <1>1, <1>4
<1>6. OpShaped'
  BY <1>1, <1>4 DEF OpShaped
<1> QED
  BY <1>1, <1>2, <1>5, <1>6 DEF K, L, O, P, R, V, W, U

\* The death of the Agent keeps the invariant.
LEMMA CrashInv ==
  ASSUME TermAssumption, TermInv, Term!Crash
  PROVE  TermInv'
<1>9. /\ op'.kind = op.kind /\ op'.profile = op.profile /\ op'.rc = op.rc
           /\ op'.version = op.version
      /\ op'.was = op.was /\ ~op'.ok /\ ~op'.undone
      /\ op'.ok \in BOOLEAN /\ op'.undone \in BOOLEAN
      /\ op'.left = <<>> /\ OpShaped' /\ ~Term!Idle
  BY CrashOp DEF TermInv, TermTyped, OpShaped
<1>10. /\ UNCHANGED <<profile, rc, path, shims, installed, selected, herd>>
       /\ torn' = torn \cup {Term!Integration(op.kind)}
  BY DEF Term!Crash
<1>11. TermTyped'
  <2>1. torn' \subseteq {"php", "node"}
    BY <1>10 DEF TermInv, TermTyped, Term!Integration
  <2> QED
    BY <1>9, <1>10, <2>1 DEF TermInv, TermTyped, OpShaped
<1>12. TermPlaced' /\ Term!Idle'
  BY <1>9 DEF TermPlaced, Term!Idle
<1>13. PhpHolds'
  BY <1>10 DEF PhpHolds, PhpWhole, TermInv, Term!Integration
<1>14. NodeHolds'
  BY <1>10 DEF NodeHolds, NodeWhole, TermInv, Term!Integration
<1>15. LinesKept'
  BY <1>10, <1>12 DEF LinesKept, TermInv
<1> QED
  BY <1>9, <1>11, <1>12, <1>13, <1>14, <1>15 DEF TermInv, Advanced, OtherKept,
     TakenBack

\* What an edit of the user makes of the last operation.
LEMMA EditOp ==
  ASSUME OpShaped, Term!Edit
  PROVE  /\ op'.kind = op.kind /\ op'.profile = op.profile /\ op'.rc = op.rc
              /\ op'.version = op.version
         /\ op'.was = op.was /\ op'.ok = op.ok /\ ~op'.undone /\ op'.undone \in BOOLEAN
              /\ op'.left = <<>>
         /\ OpShaped' /\ Term!Idle /\ Term!Idle' /\ UNCHANGED <<shims, selected, torn>>
<1> DEFINE no == FALSE
           K == {op.kind}
           L == {op.left}
           O == {op.ok}
           P == {op.profile}
           R == {op.rc}
           V == {op.version}
           W == {op.was}
           U == {no}
           New == [op EXCEPT !.undone = no]
<1>1. op' = New /\ op.left = <<>> /\ UNCHANGED <<shims, selected, torn>>
  BY DEF Term!Edit, Term!Idle
<1>3. no \in BOOLEAN /\ ~no
  OBVIOUS
<1> HIDE DEF no
<1>4. /\ op.kind \in K /\ op.left \in L /\ op.ok \in O /\ op.profile \in P /\ op.rc \in R
      /\ op.version \in V /\ op.was \in W /\ no \in U
  OBVIOUS
<1> HIDE DEF K, L, O, P, R, V, W, U
<1>5. New \in [kind : K, left : L, ok : O, profile : P, rc : R, version : V, was : W, undone
        : U]
  BY <1>4 DEF OpShaped
<1> HIDE DEF New
<1>6. /\ op'.kind \in K /\ op'.left \in L /\ op'.ok \in O /\ op'.profile \in P
           /\ op'.rc \in R
      /\ op'.version \in V /\ op'.was \in W /\ op'.undone \in U
  BY <1>1, <1>5
<1>7. OpShaped'
  BY <1>1, <1>5 DEF OpShaped
<1> QED
  BY <1>1, <1>3, <1>6, <1>7 DEF K, L, O, P, R, V, W, U, Term!Idle

\* An edit that leaves the blocks, the disabled lines and the installed versions there
\* keeps the invariant.
LEMMA EditInv ==
  ASSUME TermInv, Term!Edit, profile' \in Term!File, rc' \in Term!File, path' = <<>>,
           installed \subseteq installed',
         installed' \subseteq Versions,
           herd' = [profile |-> herd'.profile, rc |-> herd'.rc],
         profile'.php = profile.php /\ profile'.node = profile.node
           /\ profile'.disabled = profile.disabled,
         rc'.node = rc.node /\ rc'.disabled = rc.disabled,
         profile'.active \cup profile'.disabled = herd'.profile,
           rc'.active \cup rc'.disabled = herd'.rc
  PROVE  TermInv'
<1>1. /\ op'.kind = op.kind /\ op'.profile = op.profile /\ op'.rc = op.rc
           /\ op'.version = op.version
      /\ op'.was = op.was /\ op'.ok = op.ok /\ ~op'.undone /\ op'.undone \in BOOLEAN
           /\ op'.left = <<>>
      /\ OpShaped' /\ Term!Idle /\ Term!Idle' /\ UNCHANGED <<shims, selected, torn>>
  BY EditOp DEF TermInv, TermTyped, OpShaped
<1>2. TermTyped'
  BY <1>1 DEF TermTyped, OpShaped, TermInv
<1>3. PhpHolds'
  BY <1>1 DEF PhpHolds, PhpWhole, TermInv
<1>4. NodeHolds'
  BY <1>1 DEF NodeHolds, NodeWhole, TermInv
<1>5. LinesKept'
  BY <1>1 DEF LinesKept
<1> QED
  BY <1>1, <1>2, <1>3, <1>4, <1>5 DEF TermInv, TermPlaced, Advanced, OtherKept, TakenBack

\* The return of Herd is such an edit.
LEMMA HerdReturnsInv ==
  ASSUME TermAssumption, TermInv, NEW entry \in Herd, Term!HerdReturns(entry)
  PROVE  TermInv'
<1> USE DEF TermInv
<1>1. Term!Edit /\ installed' = installed /\ path' = <<>>
  BY DEF Term!HerdReturns, TermAssumption, TermTyped
<1>2. CASE /\ profile' = [profile EXCEPT !.active = @ \cup {entry}]
           /\ herd' = [herd EXCEPT !.profile = @ \cup {entry}]
           /\ UNCHANGED rc
  <2>1. /\ profile' \in Term!File /\ profile'.php = profile.php
             /\ profile'.node = profile.node
        /\ profile'.disabled = profile.disabled
             /\ profile'.active = profile.active \cup {entry}
    BY <1>2 DEF TermTyped, Term!File
  <2>2. /\ herd' = [profile |-> herd'.profile, rc |-> herd'.rc]
        /\ herd'.profile = herd.profile \cup {entry} /\ herd'.rc = herd.rc
    BY <1>2 DEF TermTyped
  <2>3. /\ profile'.active \cup profile'.disabled = herd'.profile
        /\ rc'.active \cup rc'.disabled = herd'.rc
    BY <1>2, <2>1, <2>2 DEF LinesKept
  <2> QED
    BY <1>1, <1>2, <2>1, <2>2, <2>3, EditInv DEF TermTyped
<1>3. CASE /\ rc' = [rc EXCEPT !.active = @ \cup {entry}]
           /\ herd' = [herd EXCEPT !.rc = @ \cup {entry}]
           /\ UNCHANGED profile
  <2>1. /\ rc' \in Term!File /\ rc'.node = rc.node /\ rc'.disabled = rc.disabled
        /\ rc'.active = rc.active \cup {entry}
    BY <1>3 DEF TermTyped, Term!File
  <2>2. /\ herd' = [profile |-> herd'.profile, rc |-> herd'.rc]
        /\ herd'.rc = herd.rc \cup {entry} /\ herd'.profile = herd.profile
    BY <1>3 DEF TermTyped
  <2>3. /\ profile'.active \cup profile'.disabled = herd'.profile
        /\ rc'.active \cup rc'.disabled = herd'.rc
    BY <1>3, <2>1, <2>2 DEF LinesKept
  <2> QED
    BY <1>1, <1>3, <2>1, <2>2, <2>3, EditInv DEF TermTyped
<1> QED
  BY <1>2, <1>3 DEF Term!HerdReturns, TermAssumption

\* A marker that is cut or put back is one.
LEMMA CutMarkerInv ==
  ASSUME TermAssumption, TermInv, NEW kind \in {"php", "node"}, Term!CutMarker(kind)
  PROVE  TermInv'
<1> USE DEF TermInv
<1>1. Term!Edit /\ UNCHANGED <<profile, path, installed, herd>>
        /\ rc' = [rc EXCEPT !.cut = IF @ = "no" THEN kind ELSE "no"]
  BY DEF Term!CutMarker
<1>2. /\ rc' \in Term!File /\ rc'.node = rc.node /\ rc'.disabled = rc.disabled
      /\ rc'.active = rc.active
  <2> DEFINE cut == IF rc.cut = "no" THEN kind ELSE "no"
             New == [rc EXCEPT !.cut = cut]
  <2>1. cut \in Term!Cuts /\ rc' = New
    BY <1>1 DEF Term!Cuts
  <2> HIDE DEF cut
  <2>2. /\ New \in Term!File /\ New.node = rc.node /\ New.disabled = rc.disabled
        /\ New.active = rc.active
    BY <2>1 DEF TermTyped, Term!File
  <2> HIDE DEF New
  <2> QED
    BY <2>1, <2>2
<1> QED
  BY <1>1, <1>2, EditInv DEF TermTyped, LinesKept

\* The installation of a version is one.
LEMMA InstallInv ==
  ASSUME TermAssumption, TermInv, NEW v \in Versions \ installed, Term!Install(v)
  PROVE  TermInv'
<1>1. Term!Edit /\ UNCHANGED <<profile, rc, path, herd>> /\ installed' = installed \cup {v}
  BY DEF Term!Install
<1> QED
  BY <1>1, EditInv DEF TermInv, TermTyped, LinesKept

\* A step that changes nothing keeps the invariant.
LEMMA StutterInv ==
  ASSUME TermInv, UNCHANGED Term!vars
  PROVE  TermInv'
BY DEF Term!vars, TermInv, TermTyped, TermPlaced, Changing, Advanced, OtherKept, PhpHolds,
   PhpWhole, NodeHolds,
       NodeWhole, LinesKept, TakenBack, Term!Idle

\* A step that goes through keeps the invariant.
LEMMA StepInv ==
  ASSUME TermAssumption, TermInv, Term!Step
  PROVE  TermInv'
BY StepTyped, StepPlaced, StepAdvanced, StepOther, StepPhp, StepNode, StepLines, StepTaken
   DEF TermInv

\* The invariant holds before the first request.
LEMMA InitInv ==
  ASSUME TermAssumption, Term!Init
  PROVE  TermInv
<1> DEFINE new == [php |-> FALSE, node |-> FALSE, active |-> {}, disabled |-> {},
                   cut |-> "no"]
<1>1. PICK lines \in SUBSET Herd :
        /\ profile = new /\ rc = [profile EXCEPT !.active = lines]
        /\ path = <<>> /\ herd = [profile |-> {}, rc |-> lines]
  BY DEF Term!Init, TermAssumption
<1>2. /\ profile \in Term!File /\ ~profile.php /\ ~profile.node /\ profile.active = {}
           /\ profile.disabled = {}
      /\ profile.php \in BOOLEAN /\ profile.node \in BOOLEAN
  BY <1>1 DEF Term!File, Term!Cuts
<1>3. /\ rc \in Term!File /\ ~rc.php /\ ~rc.node /\ rc.active = lines /\ rc.disabled = {}
  BY <1>1 DEF Term!File, Term!Cuts
<1>4. /\ op.kind = Term!DisablePhp /\ op.left = <<>> /\ op.ok = TRUE /\ op.profile = profile
           /\ op.rc = rc
      /\ op.version = None /\ op.was = None /\ op.undone = TRUE /\ OpShaped
  BY DEF Term!Init, OpShaped
<1>5. shims = {} /\ installed = Versions /\ selected = None /\ torn = {}
  BY DEF Term!Init
<1>6. TermTyped
  BY <1>1, <1>2, <1>3, <1>4, <1>5 DEF TermTyped, OpShaped, Term!Kinds, Term!PhpKinds
<1>7. PhpHolds /\ NodeHolds
  BY <1>2, <1>3, <1>5 DEF PhpHolds, PhpWhole, NodeHolds, NodeWhole
<1>8. LinesKept
  BY <1>1, <1>2, <1>3, <1>4 DEF LinesKept, Term!Idle
<1> QED
  BY <1>4, <1>6, <1>7, <1>8 DEF TermInv, TermPlaced, Advanced, OtherKept, TakenBack,
     Term!Idle

\* Every step keeps the invariant.
LEMMA NextInv ==
  ASSUME TermAssumption, TermInv, Term!Next
  PROVE  TermInv'
BY AskInv, StepInv, FailInv, RestartInv, CrashInv, HerdReturnsInv, CutMarkerInv, InstallInv,
   StutterInv DEF Term!Next, Term!Done

\* The invariant holds throughout.
LEMMA TermInvariance ==
  ASSUME TermAssumption
  PROVE  Term!Spec => []TermInv
<1>1. Term!Init => TermInv
  BY InitInv
<1>2. TermInv /\ [Term!Next]_Term!vars => TermInv'
  BY NextInv, StutterInv
<1> QED
  BY <1>1, <1>2, PTL DEF Term!Spec

\* It implies the types and what the run checks.
LEMMA TermShows ==
  ASSUME TermAssumption, TermInv
  PROVE  Term!TypeOK /\ Term!CommandsThere /\ Term!TheirsKept /\ Term!FailedChangeKeeps
<1> USE DEF TermInv
<1>1. Term!TypeOK
  BY DEF TermTyped, Term!TypeOK
<1>2. Term!Idle
        => ~Among("reselect", op.left) /\ ~Among("profileBack", op.left)
        /\ ~Among("rcBack", op.left) /\ ~Among("restart", op.left)
  BY List0 DEF Term!Idle
<1>3. Term!CommandsThere
  BY DEF Term!CommandsThere, Term!IntegrationWhole, Term!EnabledNodeRuns, PhpHolds,
     NodeHolds, PhpWhole, NodeWhole, TermAssumption, Term!NodeOn, TermTyped, Term!File
<1>4. Term!TheirsKept
  BY DEF Term!TheirsKept, LinesKept, TermAssumption
<1>5. Term!FailedChangeKeeps
  BY <1>2 DEF Term!FailedChangeKeeps, TakenBack
<1> QED
  BY <1>1, <1>3, <1>4, <1>5

\* On macOS, for any shims, versions, lines of Herd and numbers of changes and faults:
\* `php` and `node` are there as a whole or not at all (CommandsThere), nothing of Herd's
\* is lost (TheirsKept), and a change that fails is taken back (FailedChangeKeeps).
THEOREM ShellHolds ==
  ASSUME TermAssumption
  PROVE  Term!Spec
           => [](Term!TypeOK /\ Term!CommandsThere /\ Term!TheirsKept
           /\ Term!FailedChangeKeeps)
<1>1. TermInv => Term!TypeOK /\ Term!CommandsThere /\ Term!TheirsKept
        /\ Term!FailedChangeKeeps
  BY TermShows
<1> QED
  BY <1>1, TermInvariance, PTL

-----------------------------------------------------------------------------
(* TerminalIntegration on Windows.                                           *)

\* Counting up: what holds of 0 and passes from each number to the next holds up to n.
LEMMA Counting ==
  ASSUME NEW n \in Nat, NEW S, 0 \in S, \A i \in 1..n : i - 1 \in S => i \in S
  PROVE  \A i \in 0..n : i \in S
<1> DEFINE Missing == {i \in 0..n : i \notin S}
<1> SUFFICES ASSUME Missing # {} PROVE FALSE
  OBVIOUS
<1>1. PICK i \in Missing : \A j \in Missing : <<j, i>> \notin OpToRel(<, Nat)
  <2>1. Missing \subseteq Nat
    OBVIOUS
  <2> HIDE DEF Missing
  <2> QED
    BY <2>1, NatLessThanWellFounded, WFMin
<1>2. i # 0 /\ i \in 1..n /\ i - 1 \in 0..n /\ i - 1 < i
  OBVIOUS
<1>3. i - 1 \notin Missing
  <2>1. i \in Nat /\ i - 1 \in Nat
    BY <1>2
  <2>2. <<i - 1, i>> \in OpToRel(<, Nat)
    BY <1>2, <2>1 DEF OpToRel
  <2> HIDE DEF Missing
  <2> QED
    BY <1>1, <2>2
<1> QED
  BY <1>2, <1>3

\* f starts with a and takes each next value from g.
Follows(f, n, a, g) == f[0] = a /\ \A i \in 1..n : f[i] = g[<<i, f[i - 1]>>]

\* A recursion along a list has a solution.
LEMMA Folding ==
  ASSUME NEW n \in Nat, NEW A, NEW a \in A, NEW g \in [(1..n) \X A -> A]
  PROVE  \E f \in [0..n -> A] : Follows(f, n, a, g)
<1> DEFINE Good(f, k) == f[0] = a /\ \A i \in 1..k : f[i] = g[<<i, f[i - 1]>>]
           S == {k \in 0..n : \E f \in [0..k -> A] : Good(f, k)}
<1>1. 0 \in S
  <2> DEFINE f == [i \in 0..0 |-> a]
  <2>1. f \in [0..0 -> A] /\ Good(f, 0)
    OBVIOUS
  <2> HIDE DEF f, Good
  <2> QED
    BY <2>1
<1>2. ASSUME NEW k \in 1..n, k - 1 \in S PROVE k \in S
  <2>1. PICK f \in [0..(k - 1) -> A] : Good(f, k - 1)
    BY <1>2
  <2> DEFINE h == [i \in 0..k |-> IF i = k THEN g[<<k, f[k - 1]>>] ELSE f[i]]
  <2>2. f[k - 1] \in A /\ g[<<k, f[k - 1]>>] \in A
    OBVIOUS
  <2>3. h \in [0..k -> A]
    BY <2>2
  <2>4. Good(h, k)
    <3>1. h[0] = a
      BY <2>1
    <3>2. ASSUME NEW i \in 1..k PROVE h[i] = g[<<i, h[i - 1]>>]
      <4>1. CASE i = k
        <5>1. h[k] = g[<<k, f[k - 1]>>]
          OBVIOUS
        <5>2. h[k - 1] = f[k - 1]
          OBVIOUS
        <5> HIDE DEF h
        <5> QED
          BY <4>1, <5>1, <5>2
      <4>2. CASE i # k
        <5>1. i \in 1..(k - 1) /\ i - 1 \in 0..(k - 1) /\ i - 1 # k
          BY <4>2
        <5> QED
          BY <2>1, <4>2, <5>1
      <4> QED
        BY <4>1, <4>2
    <3> QED
      BY <3>1, <3>2
  <2> HIDE DEF Good, h
  <2> QED
    BY <2>3, <2>4
<1>3. n \in S
  <2> HIDE DEF S
  <2> QED
    BY <1>1, <1>2, Counting
<1> QED
  BY <1>3 DEF Follows

\* f collects what of a list is in S, from its start on.
Collects(f, s, S) ==
  /\ f[0] = <<>>
  /\ \A i \in 1..Len(s) : f[i] = IF s[i] \in S THEN Append(f[i - 1], s[i]) ELSE f[i - 1]

\* The recursive definition of Kept has a solution.
LEMMA KeptWay ==
  ASSUME NEW T, NEW s \in Seq(T), NEW S
  PROVE  \E f \in [0..Len(s) -> Seq(T)] : Collects(f, s, S) /\ Term!Kept(s, S) = f[Len(s)]
<1> DEFINE Step(i, x) == IF s[i] \in S THEN Append(x, s[i]) ELSE x
           g == [p \in (1..Len(s)) \X Seq(T) |-> Step(p[1], p[2])]
           Solves(f) == f = [i \in 0..Len(s) |->
             IF i = 0 THEN <<>>
             ELSE IF s[i] \in S THEN Append(f[i - 1], s[i]) ELSE f[i - 1]]
<1>1. /\ Len(s) \in Nat /\ <<>> \in Seq(T) /\ \A i \in 1..Len(s) : s[i] \in T
      /\ 0 \in 0..Len(s) /\ \A i \in 1..Len(s) : i \in 0..Len(s) /\ i - 1 \in 0..Len(s)
           /\ i # 0
      /\ \A i \in 0..Len(s) : i = 0 \/ i \in 1..Len(s)
  OBVIOUS
<1>2. \A i \in 1..Len(s), x \in Seq(T) : Step(i, x) \in Seq(T) /\ g[<<i, x>>] = Step(i, x)
  BY <1>1
<1>3. g \in [(1..Len(s)) \X Seq(T) -> Seq(T)]
  BY <1>2
<1> HIDE DEF g, Step
<1>4. PICK f \in [0..Len(s) -> Seq(T)] :
        f[0] = <<>> /\ \A i \in 1..Len(s) : f[i] = g[<<i, f[i - 1]>>]
  <2> DEFINE n == Len(s)  A == Seq(T)  a == <<>>
  <2>1. n \in Nat /\ a \in A /\ g \in [(1..n) \X A -> A]
    BY <1>1, <1>3
  <2> HIDE DEF n, A, a
  <2>2. \E f \in [0..n -> A] : Follows(f, n, a, g)
    BY <2>1, Folding
  <2> QED
    BY <2>2 DEF n, A, a, Follows
<1>5. \A i \in 1..Len(s) : f[i] = Step(i, f[i - 1])
  <2> TAKE i \in 1..Len(s)
  <2>1. i - 1 \in 0..Len(s)
    BY <1>1
  <2> QED
    BY <1>2, <1>4, <2>1
<1>6. Solves(f)
  <2> USE DEF Step
  <2>1. f = [i \in 0..Len(s) |-> f[i]]
    OBVIOUS
  <2>2. \A i \in 0..Len(s) :
          f[i] = IF i = 0 THEN <<>>
                 ELSE IF s[i] \in S THEN Append(f[i - 1], s[i]) ELSE f[i - 1]
    <3> TAKE i \in 0..Len(s)
    <3>1. CASE i = 0
      BY <1>4, <3>1
    <3>2. CASE i \in 1..Len(s)
      BY <1>1, <1>5, <3>2
    <3> QED
      BY <1>1, <3>1, <3>2
  <2> HIDE DEF Step
  <2> QED
    BY <2>1, <2>2
<1> DEFINE k == CHOOSE k : Solves(k)
<1>7. Solves(k)
  BY <1>6
<1>8. Term!Kept(s, S) = k[Len(s)]
  BY DEF Term!Kept
<1> HIDE DEF k
<1>9. Collects(k, s, S)
  <2>1. \A i \in 0..Len(s) :
          k[i] = IF i = 0 THEN <<>>
                 ELSE IF s[i] \in S THEN Append(k[i - 1], s[i]) ELSE k[i - 1]
    BY <1>7
  <2> HIDE DEF Solves
  <2> QED
    BY <1>1, <2>1 DEF Collects
<1>10. \A i \in 0..Len(s) : k[i] \in Seq(T)
  <2> DEFINE R == {i \in 0..Len(s) : k[i] \in Seq(T)}
  <2>1. 0 \in R
    BY <1>1, <1>9 DEF Collects
  <2>2. \A i \in 1..Len(s) : i - 1 \in R => i \in R
    <3> SUFFICES ASSUME NEW i \in 1..Len(s), k[i - 1] \in Seq(T) PROVE k[i] \in Seq(T)
      BY <1>1
    <3>1. k[i] = IF s[i] \in S THEN Append(k[i - 1], s[i]) ELSE k[i - 1]
      BY <1>9 DEF Collects
    <3>2. s[i] \in T
      BY <1>1
    <3>3. Append(k[i - 1], s[i]) \in Seq(T)
      BY <3>2
    <3> QED
      BY <3>1, <3>3
  <2> HIDE DEF R
  <2>3. \A i \in 0..Len(s) : i \in R
    BY <1>1, <2>1, <2>2, Counting
  <2> QED
    BY <2>3 DEF R
<1>11. k = [i \in 0..Len(s) |-> k[i]]
  <2>1. k = [i \in 0..Len(s) |->
               IF i = 0 THEN <<>>
               ELSE IF s[i] \in S THEN Append(k[i - 1], s[i]) ELSE k[i - 1]]
    BY <1>7
  <2> HIDE DEF Solves
  <2> QED
    BY <2>1
<1> QED
  BY <1>8, <1>9, <1>10, <1>11

\* It has one only.
LEMMA KeptIs ==
  ASSUME NEW T, NEW s \in Seq(T), NEW S, NEW f, Collects(f, s, S)
  PROVE  f[Len(s)] = Term!Kept(s, S)
<1>1. PICK k \in [0..Len(s) -> Seq(T)] :
        Collects(k, s, S) /\ Term!Kept(s, S) = k[Len(s)]
  BY KeptWay
<1> DEFINE R == {i \in 0..Len(s) : f[i] = k[i]}
<1>2. 0 \in R
  BY <1>1 DEF Collects
<1>3. \A i \in 1..Len(s) : i - 1 \in R => i \in R
  BY <1>1 DEF Collects
<1>4. Len(s) \in Nat
  OBVIOUS
<1> HIDE DEF R
<1>5. \A i \in 0..Len(s) : i \in R
  BY <1>2, <1>3, <1>4, Counting
<1> QED
  BY <1>1, <1>4, <1>5 DEF R

\* What is kept of a list that is one longer.
LEMMA KeptNext ==
  ASSUME NEW T, NEW s \in Seq(T), NEW x \in T, NEW S
  PROVE  /\ Term!Kept(s, S) \in Seq(T)
         /\ Term!Kept(Append(s, x), S)
              = IF x \in S THEN Append(Term!Kept(s, S), x) ELSE Term!Kept(s, S)
<1> DEFINE t == Append(s, x)
<1>1. t \in Seq(T) /\ Len(t) = Len(s) + 1 /\ t[Len(t)] = x
          /\ \A i \in 1..Len(s) : t[i] = s[i]
  OBVIOUS
<1> HIDE DEF t
<1>2. PICK k \in [0..Len(t) -> Seq(T)] :
        Collects(k, t, S) /\ Term!Kept(t, S) = k[Len(t)]
  BY <1>1, KeptWay
<1>3. Collects(k, s, S)
  BY <1>1, <1>2 DEF Collects
<1>4. k[Len(s)] = Term!Kept(s, S)
  BY <1>3, KeptIs
<1>5. Len(t) \in 1..Len(t) /\ Len(t) - 1 = Len(s) /\ Len(s) \in 0..Len(t)
  BY <1>1
<1>6. k[Len(t)] = IF t[Len(t)] \in S THEN Append(k[Len(t) - 1], t[Len(t)])
          ELSE k[Len(t) - 1]
  BY <1>2, <1>5 DEF Collects
<1>7. Term!Kept(t, S) = IF x \in S THEN Append(Term!Kept(s, S), x) ELSE Term!Kept(s, S)
  BY <1>1, <1>2, <1>4, <1>5, <1>6
<1> QED
  BY <1>2, <1>4, <1>5, <1>7 DEF t

\* Nothing is kept of an empty list.
LEMMA KeptNone == \A S : Term!Kept(<<>>, S) = <<>>
<1> TAKE S
<1>1. PICK f \in [0..Len(<<>>) -> Seq({})] :
        Collects(f, <<>>, S) /\ Term!Kept(<<>>, S) = f[Len(<<>>)]
  <2>1. <<>> \in Seq({})
    OBVIOUS
  <2> QED
    BY <2>1, KeptWay
<1> QED
  BY <1>1 DEF Collects

\* A set of lists that has the empty one, and with each list all that are one longer, has
\* them all.
LEMMA Lists ==
  ASSUME NEW T, NEW P, <<>> \in P, \A s \in Seq(T), x \in T : s \in P => Append(s, x) \in P
  PROVE  \A s \in Seq(T) : s \in P
<1> TAKE s \in Seq(T)
<1> DEFINE R == {i \in 0..Len(s) : SubSeq(s, 1, i) \in P}
<1>1. Len(s) \in Nat /\ SubSeq(s, 1, Len(s)) = s /\ Len(s) \in 0..Len(s)
  OBVIOUS
<1>2. 0 \in R
  <2>1. SubSeq(s, 1, 0) = <<>> /\ 0 \in 0..Len(s)
    OBVIOUS
  <2> QED
    BY <2>1
<1>3. \A i \in 1..Len(s) : i - 1 \in R => i \in R
  <2> SUFFICES ASSUME NEW i \in 1..Len(s), SubSeq(s, 1, i - 1) \in P
               PROVE  i \in 0..Len(s) /\ SubSeq(s, 1, i) \in P
    OBVIOUS
  <2>1. SubSeq(s, 1, i - 1) \in Seq(T) /\ s[i] \in T
    OBVIOUS
  <2>2. SubSeq(s, 1, i) = Append(SubSeq(s, 1, i - 1), s[i])
    OBVIOUS
  <2>3. i \in 0..Len(s)
    OBVIOUS
  <2> QED
    BY <2>1, <2>2, <2>3
<1> HIDE DEF R
<1>4. \A i \in 0..Len(s) : i \in R
  BY <1>1, <1>2, <1>3, Counting
<1> QED
  BY <1>1, <1>4 DEF R

\* What is in a list.
LEMMA Ranges ==
  /\ Term!Range(<<>>) = {}
  /\ \A T : \A s \in Seq(T) : Term!Range(s) \subseteq T /\ s \in Seq(Term!Range(s))
  /\ \A T : \A s \in Seq(T), x \in T : Term!Range(Append(s, x)) = Term!Range(s) \cup {x}
  /\ \A T : \A s, t \in Seq(T) : Term!Range(s \o t) = Term!Range(s) \cup Term!Range(t)
  /\ \A x : Term!Range(<<x>>) = {x}
<1>1. Term!Range(<<>>) = {}
  BY DEF Term!Range
<1>2. ASSUME NEW T, NEW s \in Seq(T)
      PROVE  Term!Range(s) \subseteq T /\ s \in Seq(Term!Range(s))
  BY DEF Term!Range
<1>3. ASSUME NEW T, NEW s \in Seq(T), NEW x \in T
      PROVE  Term!Range(Append(s, x)) = Term!Range(s) \cup {x}
  <2> DEFINE t == Append(s, x)
  <2>1. /\ DOMAIN s = 1..Len(s) /\ DOMAIN t = 1..(Len(s) + 1) /\ Len(s) \in Nat
        /\ t[Len(s) + 1] = x /\ \A i \in 1..Len(s) : t[i] = s[i]
    OBVIOUS
  <2> HIDE DEF t
  <2>2. \A i \in 1..(Len(s) + 1) : i \in 1..Len(s) \/ i = Len(s) + 1
    BY <2>1
  <2>3. Len(s) + 1 \in 1..(Len(s) + 1) /\ \A i \in 1..Len(s) : i \in 1..(Len(s) + 1)
    BY <2>1
  <2>4. Term!Range(t) = Term!Range(s) \cup {x}
    BY <2>1, <2>2, <2>3 DEF Term!Range
  <2> QED
    BY <2>4 DEF t
<1>4. ASSUME NEW T, NEW s \in Seq(T), NEW t \in Seq(T)
      PROVE  Term!Range(s \o t) = Term!Range(s) \cup Term!Range(t)
  <2>1. ASSUME NEW i \in DOMAIN t
        PROVE  Len(s) + i \in DOMAIN (s \o t) /\ (s \o t)[Len(s) + i] = t[i]
    OBVIOUS
  <2>2. Term!Range(t) \subseteq Term!Range(s \o t)
    BY <2>1 DEF Term!Range
  <2>3. Term!Range(s) \subseteq Term!Range(s \o t)
    BY DEF Term!Range
  <2>4. Term!Range(s \o t) \subseteq Term!Range(s) \cup Term!Range(t)
    BY DEF Term!Range
  <2> QED
    BY <2>2, <2>3, <2>4
<1>5. ASSUME NEW x PROVE Term!Range(<<x>>) = {x}
  BY DEF Term!Range
<1> QED
  BY <1>1, <1>2, <1>3, <1>4, <1>5

\* Kept keeps what of the list is in S.
LEMMA KeptRange ==
  ASSUME NEW T, NEW S
  PROVE  \A s \in Seq(T) : Term!Range(Term!Kept(s, S)) = Term!Range(s) \cap S
<1> DEFINE P == {s \in Seq(T) : Term!Range(Term!Kept(s, S)) = Term!Range(s) \cap S}
<1>1. <<>> \in P
  BY KeptNone, Ranges
<1>2. ASSUME NEW s \in Seq(T), NEW x \in T, s \in P PROVE Append(s, x) \in P
  <2>1. Append(s, x) \in Seq(T)
    OBVIOUS
  <2>2. Term!Kept(s, S) \in Seq(T)
        /\ Term!Kept(Append(s, x), S)
             = IF x \in S THEN Append(Term!Kept(s, S), x) ELSE Term!Kept(s, S)
    BY KeptNext
  <2>3. Term!Range(Append(s, x)) = Term!Range(s) \cup {x}
    BY Ranges
  <2>4. Term!Range(Append(Term!Kept(s, S), x)) = Term!Range(Term!Kept(s, S)) \cup {x}
    BY <2>2, Ranges
  <2> QED
    BY <1>2, <2>1, <2>2, <2>3, <2>4
<1> HIDE DEF P
<1>3. \A s \in Seq(T) : s \in P
  BY <1>1, <1>2, Lists
<1> QED
  BY <1>3 DEF P

\* What is kept of one list after the other.
LEMMA KeptCat ==
  ASSUME NEW T, NEW S, NEW s \in Seq(T)
  PROVE  \A t \in Seq(T) : Term!Kept(s \o t, S) = Term!Kept(s, S) \o Term!Kept(t, S)
<1> DEFINE P == {t \in Seq(T) : Term!Kept(s \o t, S) = Term!Kept(s, S) \o Term!Kept(t, S)}
<1>0. ASSUME NEW a \in Seq(T), NEW b \in Seq(T), NEW x \in T
      PROVE  a \o <<>> = a /\ a \o Append(b, x) = Append(a \o b, x)
  OBVIOUS
<1>1. <<>> \in P
  <2>1. Term!Kept(s, S) \in Seq(T)
    BY KeptWay
  <2>2. <<>> \in Seq(T)
    OBVIOUS
  <2> QED
    BY <2>1, <2>2, <1>0, KeptNone
<1>2. ASSUME NEW t \in Seq(T), NEW x \in T, t \in P PROVE Append(t, x) \in P
  <2>1. Append(t, x) \in Seq(T) /\ s \o t \in Seq(T)
            /\ s \o Append(t, x) = Append(s \o t, x)
    OBVIOUS
  <2>2. Term!Kept(Append(t, x), S)
          = IF x \in S THEN Append(Term!Kept(t, S), x) ELSE Term!Kept(t, S)
    BY KeptNext
  <2>3. Term!Kept(s \o Append(t, x), S)
          = IF x \in S THEN Append(Term!Kept(s \o t, S), x) ELSE Term!Kept(s \o t, S)
    <3> DEFINE u == s \o t
    <3>1. u \in Seq(T)
      BY <2>1
    <3> HIDE DEF u
    <3>2. Term!Kept(Append(u, x), S)
            = IF x \in S THEN Append(Term!Kept(u, S), x) ELSE Term!Kept(u, S)
      BY <3>1, KeptNext
    <3> QED
      BY <2>1, <3>2 DEF u
  <2>4. Term!Kept(s, S) \in Seq(T) /\ Term!Kept(t, S) \in Seq(T)
    BY KeptNext
  <2>5. Term!Kept(s, S) \o Append(Term!Kept(t, S), x)
          = Append(Term!Kept(s, S) \o Term!Kept(t, S), x)
    BY <2>4, <1>0
  <2> QED
    BY <1>2, <2>1, <2>2, <2>3, <2>5
<1> HIDE DEF P
<1>3. \A t \in Seq(T) : t \in P
  BY <1>1, <1>2, Lists
<1> QED
  BY <1>3 DEF P

\* What is kept of what is kept.
LEMMA KeptKept ==
  ASSUME NEW T, NEW A, NEW B
  PROVE  \A s \in Seq(T) : Term!Kept(Term!Kept(s, A), B) = Term!Kept(s, A \cap B)
<1> DEFINE P == {s \in Seq(T) : Term!Kept(Term!Kept(s, A), B) = Term!Kept(s, A \cap B)}
<1>1. <<>> \in P
  BY KeptNone
<1>2. ASSUME NEW s \in Seq(T), NEW x \in T, s \in P PROVE Append(s, x) \in P
  <2>1. Append(s, x) \in Seq(T) /\ Term!Kept(s, A) \in Seq(T)
    BY KeptNext
  <2>2. Term!Kept(Append(s, x), A) = IF x \in A THEN Append(Term!Kept(s, A), x)
            ELSE Term!Kept(s, A)
    BY KeptNext
  <2>3. Term!Kept(Append(s, x), A \cap B)
          = IF x \in A \cap B THEN Append(Term!Kept(s, A \cap B), x)
              ELSE Term!Kept(s, A \cap B)
    <3> DEFINE C == A \cap B
    <3> HIDE DEF C
    <3>1. Term!Kept(Append(s, x), C) = IF x \in C THEN Append(Term!Kept(s, C), x)
              ELSE Term!Kept(s, C)
      BY KeptNext
    <3> QED
      BY <3>1 DEF C
  <2>4. Term!Kept(Append(Term!Kept(s, A), x), B)
          = IF x \in B THEN Append(Term!Kept(Term!Kept(s, A), B), x)
              ELSE Term!Kept(Term!Kept(s, A), B)
    BY <2>1, KeptNext
  <2>5. Term!Kept(Term!Kept(s, A), B) = Term!Kept(s, A \cap B)
    BY <1>2
  <2>6. CASE x \in A
    <3>1. Term!Kept(Term!Kept(Append(s, x), A), B) = Term!Kept(Append(Term!Kept(s, A), x),
              B)
      BY <2>2, <2>6
    <3>2. x \in A \cap B <=> x \in B
      BY <2>6
    <3>3. Term!Kept(Append(Term!Kept(s, A), x), B) = Term!Kept(Append(s, x), A \cap B)
      BY <2>3, <2>4, <2>5, <3>2
    <3> QED
      BY <2>1, <3>1, <3>3
  <2>7. CASE x \notin A
    <3>1. Term!Kept(Term!Kept(Append(s, x), A), B) = Term!Kept(Term!Kept(s, A), B)
      BY <2>2, <2>7
    <3>2. x \notin A \cap B
      BY <2>7
    <3> QED
      BY <2>1, <2>3, <2>5, <3>1, <3>2
  <2> QED
    BY <2>6, <2>7
<1> HIDE DEF P
<1>3. \A s \in Seq(T) : s \in P
  BY <1>1, <1>2, Lists
<1> QED
  BY <1>3 DEF P

\* Only what is in the list matters to what is kept of it.
LEMMA KeptSame ==
  ASSUME NEW T, NEW A, NEW B
  PROVE  \A s \in Seq(T) :
           (\A x \in Term!Range(s) : x \in A <=> x \in B)
               => Term!Kept(s, A) = Term!Kept(s, B)
<1> DEFINE P == {s \in Seq(T) :
             (\A x \in Term!Range(s) : x \in A <=> x \in B)
                 => Term!Kept(s, A) = Term!Kept(s, B)}
<1>1. <<>> \in P
  BY KeptNone
<1>2. ASSUME NEW s \in Seq(T), NEW x \in T, s \in P PROVE Append(s, x) \in P
  <2>1. Append(s, x) \in Seq(T) /\ Term!Range(Append(s, x)) = Term!Range(s) \cup {x}
    BY Ranges
  <2>2. Term!Kept(Append(s, x), A) = IF x \in A THEN Append(Term!Kept(s, A), x)
            ELSE Term!Kept(s, A)
    BY KeptNext
  <2>3. Term!Kept(Append(s, x), B) = IF x \in B THEN Append(Term!Kept(s, B), x)
            ELSE Term!Kept(s, B)
    BY KeptNext
  <2> QED
    BY <1>2, <2>1, <2>2, <2>3
<1> HIDE DEF P
<1>3. \A s \in Seq(T) : s \in P
  BY <1>1, <1>2, Lists
<1> QED
  BY <1>3 DEF P

\* All is kept of a list that has nothing else.
LEMMA KeptAll ==
  ASSUME NEW T, NEW A
  PROVE  \A s \in Seq(T) : Term!Range(s) \subseteq A => Term!Kept(s, A) = s
<1> DEFINE P == {s \in Seq(T) : Term!Range(s) \subseteq A => Term!Kept(s, A) = s}
<1>1. <<>> \in P
  BY KeptNone
<1>2. ASSUME NEW s \in Seq(T), NEW x \in T, s \in P PROVE Append(s, x) \in P
  <2>1. Append(s, x) \in Seq(T) /\ Term!Range(Append(s, x)) = Term!Range(s) \cup {x}
    BY Ranges
  <2> QED
    BY <1>2, <2>1, KeptNext
<1> HIDE DEF P
<1>3. \A s \in Seq(T) : s \in P
  BY <1>1, <1>2, Lists
<1> QED
  BY <1>3 DEF P

\* What is left of a list without some of its elements.
LEMMA WithoutRange ==
  ASSUME NEW T, NEW D, NEW s \in Seq(T)
  PROVE  Term!Without(s, D) \in Seq(T) /\ Term!Range(Term!Without(s, D)) = Term!Range(s) \ D
<1> DEFINE S == Term!Range(s) \ D
<1>1. Term!Without(s, D) = Term!Kept(s, S) /\ Term!Range(s) \cap S = S
  BY DEF Term!Without
<1> HIDE DEF S
<1>2. Term!Kept(s, S) \in Seq(T)
  BY KeptWay
<1>3. Term!Range(Term!Kept(s, S)) = Term!Range(s) \cap S
  BY KeptRange
<1> QED
  BY <1>1, <1>2, <1>3 DEF S

\* The same of one list after the other.
LEMMA WithoutCat ==
  ASSUME NEW T, NEW D, NEW s \in Seq(T), NEW t \in Seq(T)
  PROVE  Term!Without(s \o t, D) = Term!Without(s, D) \o Term!Without(t, D)
<1> DEFINE R == Term!Range(s \o t) \ D
           A == Term!Range(s) \ D
           B == Term!Range(t) \ D
<1>1. /\ Term!Without(s \o t, D) = Term!Kept(s \o t, R)
      /\ Term!Without(s, D) = Term!Kept(s, A) /\ Term!Without(t, D) = Term!Kept(t, B)
  BY DEF Term!Without
<1>2. /\ \A x \in Term!Range(s) : x \in R <=> x \in A
      /\ \A x \in Term!Range(t) : x \in R <=> x \in B
  BY Ranges
<1> HIDE DEF R, A, B
<1>3. Term!Kept(s \o t, R) = Term!Kept(s, R) \o Term!Kept(t, R)
  BY KeptCat
<1>4. Term!Kept(s, R) = Term!Kept(s, A)
  BY <1>2, KeptSame
<1>5. Term!Kept(t, R) = Term!Kept(t, B)
  BY <1>2, KeptSame
<1> QED
  BY <1>1, <1>3, <1>4, <1>5

\* Nothing is left of a list that has nothing else.
LEMMA WithoutAll ==
  ASSUME NEW T, NEW D, NEW s \in Seq(T), Term!Range(s) \subseteq D
  PROVE  Term!Without(s, D) = <<>>
<1> DEFINE w == Term!Without(s, D)
<1>1. w \in Seq(T) /\ Term!Range(w) = {}
  BY WithoutRange
<1> HIDE DEF w
<1>2. w = <<>>
  <2>1. \A i \in 1..Len(w) : w[i] \in Term!Range(w)
    BY <1>1 DEF Term!Range
  <2>2. Len(w) = 0
    BY <1>1, <2>1
  <2> QED
    BY <1>1, <2>2
<1> QED
  BY <1>2 DEF w

\* All is left of a list that has none of them.
LEMMA WithoutNothing ==
  ASSUME NEW T, NEW D, NEW s \in Seq(T), Term!Range(s) \cap D = {}
  PROVE  Term!Without(s, D) = s
<1>1. Term!Range(s) \ D = Term!Range(s)
  OBVIOUS
<1>2. Term!Without(s, D) = Term!Kept(s, Term!Range(s))
  BY <1>1 DEF Term!Without
<1> DEFINE A == Term!Range(s)
<1>3. Term!Range(s) \subseteq A
  OBVIOUS
<1> HIDE DEF A
<1>4. Term!Kept(s, A) = s
  BY <1>3, KeptAll
<1> QED
  BY <1>2, <1>4 DEF A

\* What is taken out twice, the second time with more.
LEMMA WithoutTwice ==
  ASSUME NEW T, NEW D, NEW E, D \subseteq E, NEW s \in Seq(T)
  PROVE  Term!Without(Term!Without(s, D), E) = Term!Without(s, E)
<1> DEFINE w == Term!Without(s, D)
           A == Term!Range(s) \ D
           B == Term!Range(w) \ E
           C == Term!Range(s) \ E
<1>1. w = Term!Kept(s, A) /\ Term!Without(w, E) = Term!Kept(w, B)
          /\ Term!Without(s, E) = Term!Kept(s, C)
  BY DEF Term!Without
<1>2. Term!Range(w) = Term!Range(s) \ D
  BY WithoutRange
<1>3. A \cap B = C
  BY <1>2
<1> HIDE DEF w, A, B, C
<1>4. Term!Kept(Term!Kept(s, A), B) = Term!Kept(s, A \cap B)
  BY KeptKept
<1> QED
  BY <1>1, <1>3, <1>4 DEF w

\* An entry that is put into a list is in it, and the list without it is what it was.
LEMMA InsertLaws ==
  ASSUME NEW T, NEW s \in Seq(T), NEW i \in 1..(Len(s) + 1), NEW x \in T
  PROVE  /\ Term!InsertAt(s, i, x) \in Seq(T)
         /\ Term!Range(Term!InsertAt(s, i, x)) = Term!Range(s) \cup {x}
         /\ \A D : x \in D => Term!Without(Term!InsertAt(s, i, x), D) = Term!Without(s, D)
<1> DEFINE a == SubSeq(s, 1, i - 1)
           b == SubSeq(s, i, Len(s))
           m == <<x>>
<1>1. a \in Seq(T) /\ b \in Seq(T) /\ m \in Seq(T) /\ s = a \o b /\ a \o m \in Seq(T)
  <2>1. a \in Seq(T) /\ b \in Seq(T) /\ m \in Seq(T)
    OBVIOUS
  <2>2. s = a \o b
    <3> DEFINE k == i - 1  n == Len(s)
    <3>1. k \in (1 - 1)..Len(s) /\ n \in k..Len(s) /\ 1 \in 1..(Len(s) + 1) /\ k + 1 = i
      OBVIOUS
    <3> HIDE DEF k, n
    <3>2. SubSeq(s, 1, k) \o SubSeq(s, k + 1, n) = SubSeq(s, 1, n)
      BY <3>1, ConcatAdjacentSubSeq
    <3>3. SubSeq(s, 1, n) = s
      BY SubSeqFull DEF n
    <3> QED
      BY <3>1, <3>2, <3>3 DEF k, n
  <2> HIDE DEF a, b, m
  <2> QED
    BY <2>1, <2>2
<1>2. Term!InsertAt(s, i, x) = (a \o m) \o b
  BY DEF Term!InsertAt
<1>3. Term!Range(m) = {x}
  BY Ranges
<1> HIDE DEF a, b, m
<1>4. (a \o m) \o b \in Seq(T)
  BY <1>1
<1>5. Term!Range((a \o m) \o b) = Term!Range(s) \cup {x}
  <2> DEFINE c == a \o m
  <2>1. c \in Seq(T) /\ Term!Range(c) = Term!Range(a) \cup {x}
    BY <1>1, <1>3, Ranges
  <2> HIDE DEF c
  <2>2. Term!Range(c \o b) = Term!Range(c) \cup Term!Range(b)
    BY <1>1, <2>1, Ranges
  <2>3. Term!Range(s) = Term!Range(a) \cup Term!Range(b)
    BY <1>1, Ranges
  <2> QED
    BY <2>1, <2>2, <2>3 DEF c
<1>6. ASSUME NEW D, x \in D PROVE Term!Without((a \o m) \o b, D) = Term!Without(s, D)
  <2>1. Term!Without(m, D) = <<>>
    BY <1>1, <1>3, <1>6, WithoutAll
  <2>2. Term!Without(a, D) \in Seq(T)
    BY <1>1, WithoutRange
  <2>3. Term!Without((a \o m) \o b, D) = Term!Without(a \o m, D) \o Term!Without(b, D)
    <3> DEFINE c == a \o m
    <3>1. c \in Seq(T)
      BY <1>1
    <3> HIDE DEF c
    <3>2. Term!Without(c \o b, D) = Term!Without(c, D) \o Term!Without(b, D)
      BY <1>1, <3>1, WithoutCat
    <3> QED
      BY <3>2 DEF c
  <2>4. Term!Without(a \o m, D) = Term!Without(a, D) \o Term!Without(m, D)
    BY <1>1, WithoutCat
  <2>5. Term!Without(a, D) \o <<>> = Term!Without(a, D)
    BY <2>2
  <2>6. Term!Without(s, D) = Term!Without(a, D) \o Term!Without(b, D)
    BY <1>1, WithoutCat
  <2> QED
    BY <2>1, <2>3, <2>4, <2>5, <2>6
<1> QED
  BY <1>2, <1>4, <1>5, <1>6

\* An entry of the backup: its place in PATH and the entry.
Saved(T) == (Nat \ {0}) \X T

\* An entry that is put back is in the list, and the list without it is what it was.
LEMMA PutBackLaws ==
  ASSUME NEW T, NEW s \in Seq(T), NEW p \in Saved(T)
  PROVE  /\ Term!PutBack(s, p) \in Seq(T)
         /\ Term!Range(Term!PutBack(s, p)) = Term!Range(s) \cup {p[2]}
         /\ \A D : p[2] \in D => Term!Without(Term!PutBack(s, p), D) = Term!Without(s, D)
<1>1. CASE p[2] \in Term!Range(s)
  BY <1>1 DEF Term!PutBack, Saved
<1>2. CASE p[2] \notin Term!Range(s)
  <2> DEFINE j == IF p[1] > Len(s) THEN Len(s) + 1 ELSE p[1]
             x == p[2]
             y == Term!InsertAt(s, j, x)
  <2>1. Term!PutBack(s, p) = y
    BY <1>2 DEF Term!PutBack
  <2>2. p[1] \in Nat \ {0} /\ x \in T
    BY DEF Saved
  <2>3. j \in 1..(Len(s) + 1)
    BY <2>2
  <2> HIDE DEF j, x
  <2>4. /\ y \in Seq(T) /\ Term!Range(y) = Term!Range(s) \cup {x}
        /\ \A D : x \in D => Term!Without(y, D) = Term!Without(s, D)
    BY <2>2, <2>3, InsertLaws
  <2> HIDE DEF y
  <2> QED
    BY <2>1, <2>4 DEF x
<1> QED
  BY <1>1, <1>2

\* f puts back one entry of the backup after the other.
Returns(f, s, saved) ==
  /\ f[0] = s
  /\ \A i \in 1..Len(saved) : f[i] = Term!PutBack(f[i - 1], saved[i])

\* The recursive definition of Restored has a solution.
LEMMA RestoredWay ==
  ASSUME NEW T, NEW s \in Seq(T), NEW saved \in Seq(Saved(T))
  PROVE  \E f \in [0..Len(saved) -> Seq(T)] :
           Returns(f, s, saved) /\ Term!Restored(s, saved) = f[Len(saved)]
<1> DEFINE Step(i, x) == Term!PutBack(x, saved[i])
           g == [p \in (1..Len(saved)) \X Seq(T) |-> Step(p[1], p[2])]
           Solves(f) == f = [i \in 0..Len(saved) |->
             IF i = 0 THEN s ELSE Term!PutBack(f[i - 1], saved[i])]
<1>1. /\ Len(saved) \in Nat
      /\ 0 \in 0..Len(saved)
      /\ \A i \in 1..Len(saved) : i \in 0..Len(saved) /\ i - 1 \in 0..Len(saved) /\ i # 0
      /\ \A i \in 0..Len(saved) : i = 0 \/ i \in 1..Len(saved)
  OBVIOUS
<1>2. ASSUME NEW i \in 1..Len(saved), NEW x \in Seq(T)
      PROVE  Term!PutBack(x, saved[i]) \in Seq(T)
  <2> DEFINE p == saved[i]
  <2>1. p \in Saved(T)
    OBVIOUS
  <2> HIDE DEF p
  <2>2. Term!PutBack(x, p) \in Seq(T)
    BY <2>1, PutBackLaws
  <2> QED
    BY <2>2 DEF p
<1>3. \A i \in 1..Len(saved), x \in Seq(T) : Step(i, x) \in Seq(T)
          /\ g[<<i, x>>] = Step(i, x)
  BY <1>2
<1>4. g \in [(1..Len(saved)) \X Seq(T) -> Seq(T)]
  BY <1>2
<1> HIDE DEF g, Step
<1>5. PICK f \in [0..Len(saved) -> Seq(T)] :
        f[0] = s /\ \A i \in 1..Len(saved) : f[i] = g[<<i, f[i - 1]>>]
  <2> DEFINE n == Len(saved)  A == Seq(T)
  <2>1. n \in Nat /\ s \in A /\ g \in [(1..n) \X A -> A]
    BY <1>1, <1>4
  <2> HIDE DEF n, A
  <2>2. \E f \in [0..n -> A] : Follows(f, n, s, g)
    BY <2>1, Folding
  <2> QED
    BY <2>2 DEF n, A, Follows
<1>6. \A i \in 1..Len(saved) : f[i] = Step(i, f[i - 1])
  <2> TAKE i \in 1..Len(saved)
  <2>1. f[i - 1] \in Seq(T)
    BY <1>1
  <2> QED
    BY <1>3, <1>5, <2>1
<1>7. Solves(f)
  <2>1. f = [i \in 0..Len(saved) |-> f[i]]
    OBVIOUS
  <2>2. \A i \in 0..Len(saved) :
          f[i] = IF i = 0 THEN s ELSE Term!PutBack(f[i - 1], saved[i])
    BY <1>1, <1>5, <1>6 DEF Step
  <2> QED
    BY <2>1, <2>2
<1> DEFINE k == CHOOSE k : Solves(k)
<1>8. Solves(k)
  BY <1>7
<1>9. Term!Restored(s, saved) = k[Len(saved)]
  BY DEF Term!Restored
<1> HIDE DEF k
<1>10. \A i \in 0..Len(saved) :
         k[i] = IF i = 0 THEN s ELSE Term!PutBack(k[i - 1], saved[i])
  BY <1>8
<1>11. k = [i \in 0..Len(saved) |-> k[i]]
  <2>1. k = [i \in 0..Len(saved) |-> IF i = 0 THEN s ELSE Term!PutBack(k[i - 1], saved[i])]
    BY <1>8
  <2> HIDE DEF Solves
  <2> QED
    BY <2>1
<1> HIDE DEF Solves
<1>12. Returns(k, s, saved)
  BY <1>1, <1>10 DEF Returns
<1>13. \A i \in 0..Len(saved) : k[i] \in Seq(T)
  <2> DEFINE R == {i \in 0..Len(saved) : k[i] \in Seq(T)}
  <2>1. 0 \in R
    BY <1>1, <1>12 DEF Returns
  <2>2. \A i \in 1..Len(saved) : i - 1 \in R => i \in R
    BY <1>1, <1>2, <1>12 DEF Returns
  <2> HIDE DEF R
  <2>3. \A i \in 0..Len(saved) : i \in R
    BY <1>1, <2>1, <2>2, Counting
  <2> QED
    BY <2>3 DEF R
<1> QED
  BY <1>9, <1>11, <1>12, <1>13

\* Restored adds the entries of the backup and moves no other.
LEMMA RestoredLaws ==
  ASSUME NEW T, NEW s \in Seq(T), NEW saved \in Seq(Saved(T))
  PROVE  /\ Term!Restored(s, saved) \in Seq(T)
         /\ Term!Range(Term!Restored(s, saved)) = Term!Range(s) \cup Term!Entries(saved)
         /\ \A D : Term!Entries(saved) \subseteq D
                     => Term!Without(Term!Restored(s, saved), D) = Term!Without(s, D)
<1>1. PICK f \in [0..Len(saved) -> Seq(T)] :
        Returns(f, s, saved) /\ Term!Restored(s, saved) = f[Len(saved)]
  BY RestoredWay
<1>2. /\ Len(saved) \in Nat /\ Len(saved) \in 0..Len(saved)
      /\ 0 \in 0..Len(saved)
      /\ \A i \in 1..Len(saved) : i \in 0..Len(saved) /\ i - 1 \in 0..Len(saved)
  OBVIOUS
<1>3. ASSUME NEW i \in 1..Len(saved)
      PROVE  /\ Term!Range(f[i]) = Term!Range(f[i - 1]) \cup {saved[i][2]}
             /\ \A D : saved[i][2] \in D
                  => Term!Without(f[i], D) = Term!Without(f[i - 1], D)
  <2> DEFINE p == saved[i]
             x == f[i - 1]
             y == Term!PutBack(x, p)
  <2>1. p \in Saved(T)
    OBVIOUS
  <2>2. x \in Seq(T)
    BY <1>2
  <2>3. f[i] = y
    BY <1>1 DEF Returns
  <2> HIDE DEF p, x
  <2>4. Term!Range(y) = Term!Range(x) \cup {p[2]}
    BY <2>1, <2>2, PutBackLaws
  <2>5. \A D : p[2] \in D => Term!Without(y, D) = Term!Without(x, D)
    BY <2>1, <2>2, PutBackLaws
  <2> HIDE DEF y
  <2> QED
    BY <2>3, <2>4, <2>5 DEF p, x
<1> DEFINE Up(i) == {saved[j][2] : j \in 1..i}
<1>4. \A i \in 0..Len(saved) : Term!Range(f[i]) = Term!Range(s) \cup Up(i)
  <2> DEFINE R == {i \in 0..Len(saved) : Term!Range(f[i]) = Term!Range(s) \cup Up(i)}
  <2>1. 0 \in R
    BY <1>1, <1>2 DEF Returns
  <2>2. \A i \in 1..Len(saved) : i - 1 \in R => i \in R
    <3> TAKE i \in 1..Len(saved)
    <3>1. Up(i) = Up(i - 1) \cup {saved[i][2]}
      <4>1. \A j : j \in 1..i <=> j \in 1..(i - 1) \/ j = i
        OBVIOUS
      <4> QED
        BY <4>1
    <3> HIDE DEF Up
    <3> QED
      BY <1>2, <1>3, <3>1
  <2> HIDE DEF R
  <2>3. \A i \in 0..Len(saved) : i \in R
    BY <1>2, <2>1, <2>2, Counting
  <2> QED
    BY <2>3 DEF R
<1>5. Up(Len(saved)) = Term!Entries(saved)
  BY DEF Term!Entries
<1>6. ASSUME NEW D, Term!Entries(saved) \subseteq D
      PROVE  Term!Without(f[Len(saved)], D) = Term!Without(s, D)
  <2> DEFINE R == {i \in 0..Len(saved) : Term!Without(f[i], D) = Term!Without(s, D)}
  <2>1. 0 \in R
    BY <1>1, <1>2 DEF Returns
  <2>2. \A i \in 1..Len(saved) : saved[i][2] \in D
    BY <1>6 DEF Term!Entries
  <2>3. \A i \in 1..Len(saved) : i - 1 \in R => i \in R
    BY <1>2, <1>3, <2>2
  <2> HIDE DEF R
  <2>4. \A i \in 0..Len(saved) : i \in R
    BY <1>2, <2>1, <2>3, Counting
  <2> QED
    BY <1>2, <2>4 DEF R
<1> HIDE DEF Up
<1> QED
  BY <1>1, <1>2, <1>4, <1>5, <1>6

\* Windows, where one list of PATH entries decides: the user's own entries are neither
\* Herd's nor the common one, and Herd has no end of them.
WinAssumption ==
  /\ Windows /\ Term!Php \notin NodeShims /\ NodeShims # {} /\ None \notin Versions
  /\ IsFiniteSet(Herd) /\ Bin \notin Herd
  /\ Own \in Seq(Term!Range(Own)) /\ Term!Range(Own) \cap (Herd \cup {Bin}) = {}

\* What may be an entry of PATH.
PathEntry == Term!Range(Own) \cup Herd \cup {Bin}

\* Where the operation stands: its next step, if there is one.
Ahead == IF op.left = <<>> THEN "end" ELSE Head(op.left)

\* What may be left of a request in which nothing has failed; changing says whether it
\* concerns an integration.
WinForward(kind, changing) ==
  CASE kind = Term!EnablePhp -> {<<"shim", "backup", "path">>, <<"backup", "path">>,
      <<"path">>}
    [] kind = Term!DisablePhp ->
         {<<"unshim", "path", "forget">>, <<"path", "forget">>, <<"forget">>}
    [] kind = Term!EnableNode -> {<<"shim", "path">>, <<"path">>}
    [] kind = Term!SelectNode -> {<<"select", "shim", "path">>, <<"shim", "path">>,
        <<"path">>}
    [] kind = Term!DisableNode -> {<<"unshim", "path">>, <<"path">>}
    [] OTHER ->
         IF changing
         THEN {<<"deselect", "unshim", "path", "remove">>, <<"unshim", "path", "remove">>,
               <<"path", "remove">>, <<"remove">>}
         ELSE {<<"remove">>}

\* What may be left of a request after a failed step: nothing of PATH is put back.
WinBackward(kind, undone) ==
  CASE kind = Term!SelectNode -> {<<"reselect">>}
    [] kind = Term!RemoveNode -> {<<"reselect">>, <<"reselect", "restart">>, <<"restart">>}
    [] kind = Term!EnableNode /\ ~undone -> {<<"shim", "path">>, <<"path">>}
    [] OTHER -> {}

\* The variables are well-typed, and the shell files are not touched.
WinTyped ==
  /\ profile \in Term!File /\ rc \in Term!File /\ profile.cut = "no" /\ rc.cut = "no"
  /\ path \in Seq(PathEntry) /\ backup \in Seq(Saved(Herd))
  /\ shims \subseteq {Term!Php} \cup NodeShims
  /\ installed \subseteq Versions /\ selected \in Versions \cup {None}
  /\ op = [kind |-> op.kind, left |-> op.left, ok |-> op.ok, profile |-> op.profile,
           rc |-> op.rc, version |-> op.version, was |-> op.was, undone |-> op.undone]
  /\ op.kind \in Term!Kinds /\ op.ok \in BOOLEAN /\ op.undone \in BOOLEAN
  /\ op.version \in Versions \cup {None} /\ op.was \in Versions \cup {None}
  /\ torn \subseteq {"php", "node"}
  /\ herd = [profile |-> herd.profile, rc |-> herd.rc] /\ herd.rc \subseteq Herd

\* What is left of the operation is the end of one of its ways.
WinPlaced ==
  \/ op.left = <<>>
  \/ op.ok /\ op.left \in WinForward(op.kind, Changing)
  \/ ~op.ok /\ Changing /\ op.left \in WinBackward(op.kind, op.undone)

\* While nothing has failed, the shims, the common entry and the selected version follow
\* the steps behind.
WinAdvanced ==
  ~Term!Idle /\ op.ok =>
    /\ op.kind \in Term!Enables /\ Ahead \in {"backup", "path"}
         => Term!Shimmed(op.kind) \subseteq shims
    /\ op.kind \notin Term!Enables /\ Changing /\ Ahead \in {"path", "forget", "remove"}
         => Term!Shimmed(op.kind) \cap shims = {}
    /\ Ahead = "forget" /\ Term!PathHolds(Bin) => NodeShims \cap shims # {}
    /\ Changing /\ Ahead = "remove" /\ Term!PathHolds(Bin) => Term!Php \in shims
    /\ selected = IF op.kind = Term!SelectNode /\ Ahead # "select" THEN op.version
                  ELSE IF op.kind = Term!RemoveNode /\ Changing
                      /\ Ahead # "deselect" THEN None
                  ELSE op.was
    /\ op.kind = Term!SelectNode => op.version \in installed
    /\ op.kind = Term!EnableNode => op.was \in installed

\* PHP's shim is found while it is there, and there is no backup without it.
PhpFound ==
  (Term!Idle \/ op.kind \notin Term!PhpKinds) /\ "php" \notin torn =>
    IF Term!Php \in shims THEN Term!PathHolds(Bin) ELSE backup = <<>>

\* Node's shims are found while they are there, and have a version to run.
NodeFound ==
  (Term!Idle \/ op.kind \in Term!PhpKinds \/ ~Changing) /\ "node" \notin torn =>
    /\ NodeShims \cap shims # {} => Term!PathHolds(Bin)
    /\ NodeShims \subseteq shims => selected \in installed

\* The common entry is in PATH only for shims.
BinUsed ==
  (Term!Idle \/ ~Changing) /\ torn = {} /\ Term!PathHolds(Bin) => shims # {}

\* Every entry of Herd is in PATH, in the backup or among those an Enable dropped;
\* PATH loses Herd's only when they are in the backup, and the backup goes only when they
\* are in PATH.  The user's own entries stay.
EntriesKept ==
  /\ herd.rc \subseteq Term!Range(path) \cup Term!Entries(backup) \cup overwritten
  /\ op.kind = Term!EnablePhp /\ Ahead = "path"
       => Term!Range(path) \cap Herd \subseteq Term!Entries(backup)
  /\ Ahead = "forget" => Term!Entries(backup) \subseteq Term!Range(path)
  /\ Term!Without(path, Herd \cup {Bin}) = Own

\* After a failure, another version than before is selected only until the old one is
\* selected again.
WinTakenBack == ~op.ok /\ op.undone /\ selected # op.was => Ahead = "reselect"

\* The inductive invariant of TerminalIntegration on Windows.
WinInv ==
  /\ WinTyped /\ WinPlaced /\ WinAdvanced /\ PhpFound /\ NodeFound /\ BinUsed
  /\ EntriesKept /\ WinTakenBack

\* The list of Herd's entries that is written to the backup.
LEMMA HerdEntriesLaws ==
  ASSUME path \in Seq(PathEntry)
  PROVE  /\ Term!HerdEntries \in Seq(Saved(Herd))
         /\ Term!Entries(Term!HerdEntries) = Term!Range(path) \cap Herd
         /\ Term!HerdEntries = <<>> => Term!Range(path) \cap Herd = {}
<1> DEFINE s == [i \in 1..Len(path) |-> <<i, path[i]>>]
           S == (1..Len(path)) \X Herd
           T == Nat \X PathEntry
           k == Term!HerdEntries
<1>1. Len(path) \in Nat /\ DOMAIN path = 1..Len(path)
          /\ \A i \in 1..Len(path) : path[i] \in PathEntry
  OBVIOUS
<1>2. s \in Seq(T) /\ DOMAIN s = 1..Len(path)
          /\ \A i \in 1..Len(path) : s[i] = <<i, path[i]>>
  BY <1>1
<1>3. k = Term!Kept(s, S)
  BY DEF Term!HerdEntries
<1> HIDE DEF s, T, k
<1>4. k \in Seq(T)
  <2> HIDE DEF S
  <2> QED
    BY <1>2, <1>3, KeptWay
<1>5. Term!Range(k) = Term!Range(s) \cap S
  <2> HIDE DEF S
  <2> QED
    BY <1>2, <1>3, KeptRange
<1>6. \A i \in 1..Len(path) : <<i, path[i]>> \in Term!Range(k) <=> path[i] \in Herd
  BY <1>1, <1>2, <1>5 DEF Term!Range
<1>7. \A p \in Term!Range(k) : \E i \in 1..Len(path) : p = <<i, path[i]>>
          /\ path[i] \in Herd
  BY <1>2, <1>5 DEF Term!Range
<1>8. Term!Range(k) \subseteq Saved(Herd)
  BY <1>1, <1>7 DEF Saved
<1>9. k \in Seq(Saved(Herd))
  BY <1>4, <1>8 DEF Term!Range
<1>10. Term!Entries(k) = {p[2] : p \in Term!Range(k)}
  BY <1>4 DEF Term!Range, Term!Entries
<1>11. Term!Entries(k) = Term!Range(path) \cap Herd
  <2>1. ASSUME NEW e \in Term!Entries(k) PROVE e \in Term!Range(path) \cap Herd
    <3>1. PICK p \in Term!Range(k) : e = p[2]
      BY <1>10, <2>1
    <3>2. PICK i \in 1..Len(path) : p = <<i, path[i]>> /\ path[i] \in Herd
      BY <1>7
    <3>3. e = path[i]
      BY <3>1, <3>2
    <3> QED
      BY <1>1, <3>2, <3>3 DEF Term!Range
  <2>2. ASSUME NEW e \in Term!Range(path) \cap Herd PROVE e \in Term!Entries(k)
    <3>1. PICK i \in 1..Len(path) : e = path[i]
      BY <1>1, <2>2 DEF Term!Range
    <3>2. <<i, path[i]>> \in Term!Range(k)
      BY <1>6, <2>2, <3>1
    <3>3. <<i, path[i]>>[2] = path[i]
      OBVIOUS
    <3> QED
      BY <1>10, <3>1, <3>2, <3>3
  <2> QED
    BY <2>1, <2>2
<1>12. k = <<>> => Term!Entries(k) = {}
  BY DEF Term!Entries
<1> QED
  BY <1>9, <1>11, <1>12 DEF k

\* An entry at the front of PATH.
LEMMA FrontLaws ==
  ASSUME NEW T, NEW s \in Seq(T), NEW x \in T
  PROVE  /\ <<x>> \o s \in Seq(T)
         /\ Term!Range(<<x>> \o s) = Term!Range(s) \cup {x}
         /\ \A D : x \in D => Term!Without(<<x>> \o s, D) = Term!Without(s, D)
<1> DEFINE m == <<x>>
<1>1. m \in Seq(T) /\ Term!Range(m) = {x}
  BY Ranges
<1> HIDE DEF m
<1>2. m \o s \in Seq(T)
  BY <1>1
<1>3. Term!Range(m \o s) = Term!Range(s) \cup {x}
  BY <1>1, Ranges
<1>4. ASSUME NEW D, x \in D PROVE Term!Without(m \o s, D) = Term!Without(s, D)
  <2>1. Term!Without(m, D) = <<>>
    BY <1>1, <1>4, WithoutAll
  <2>2. Term!Without(m \o s, D) = Term!Without(m, D) \o Term!Without(s, D)
    BY <1>1, WithoutCat
  <2>3. Term!Without(s, D) \in Seq(T)
    BY WithoutRange
  <2> QED
    BY <2>1, <2>2, <2>3
<1> QED
  BY <1>2, <1>3, <1>4 DEF m

\* The common entry is put at the front of PATH unless it is there.
LEMMA PrependedLaws ==
  ASSUME NEW s \in Seq(PathEntry)
  PROVE  /\ Term!Prepended(s) \in Seq(PathEntry)
         /\ Term!Range(Term!Prepended(s)) = Term!Range(s) \cup {Bin}
         /\ Term!Without(Term!Prepended(s), Herd \cup {Bin}) = Term!Without(s,
              Herd \cup {Bin})
<1> DEFINE D == Herd \cup {Bin}
<1>1. Bin \in PathEntry /\ Bin \in D
  BY DEF PathEntry
<1> HIDE DEF D
<1>2. CASE Bin \in Term!Range(s)
  BY <1>2 DEF Term!Prepended, D
<1>3. CASE Bin \notin Term!Range(s)
  <2>1. Term!Prepended(s) = <<Bin>> \o s
    BY <1>3 DEF Term!Prepended
  <2> DEFINE y == <<Bin>> \o s
  <2>2. y \in Seq(PathEntry) /\ Term!Range(y) = Term!Range(s) \cup {Bin}
    BY <1>1, FrontLaws
  <2>3. Term!Without(y, D) = Term!Without(s, D)
    BY <1>1, FrontLaws
  <2> HIDE DEF y
  <2> QED
    BY <2>1, <2>2, <2>3 DEF y, D
<1> QED
  BY <1>2, <1>3

\* The common entry is taken out of PATH.
LEMMA BinOut ==
  ASSUME NEW s \in Seq(PathEntry)
  PROVE  /\ Term!Without(s, {Bin}) \in Seq(PathEntry)
         /\ Term!Range(Term!Without(s, {Bin})) = Term!Range(s) \ {Bin}
         /\ Term!Without(Term!Without(s, {Bin}), Herd \cup {Bin}) = Term!Without(s,
              Herd \cup {Bin})
<1> DEFINE D == {Bin}  E == Herd \cup {Bin}
<1>1. D \subseteq E
  OBVIOUS
<1> HIDE DEF D, E
<1>2. Term!Without(s, D) \in Seq(PathEntry)
          /\ Term!Range(Term!Without(s, D)) = Term!Range(s) \ D
  BY WithoutRange
<1>3. Term!Without(Term!Without(s, D), E) = Term!Without(s, E)
  BY <1>1, WithoutTwice
<1> QED
  BY <1>2, <1>3 DEF D, E

\* What a change makes of PATH.
LEMMA NewPathLaws ==
  ASSUME NEW kind \in Term!Kinds, path \in Seq(PathEntry), backup \in Seq(Saved(Herd))
  PROVE  /\ Term!NewPath(kind) \in Seq(PathEntry)
         /\ Term!Without(Term!NewPath(kind), Herd \cup {Bin}) = Term!Without(path,
              Herd \cup {Bin})
         /\ kind = Term!EnablePhp
              => Term!Range(Term!NewPath(kind)) = (Term!Range(path) \ Herd) \cup {Bin}
         /\ kind \in Term!Enables => Bin \in Term!Range(Term!NewPath(kind))
         /\ kind = Term!DisablePhp =>
              Term!Range(Term!NewPath(kind))
                = (Term!Range(path) \ IF shims \cap NodeShims # {} THEN {} ELSE {Bin})
                    \cup Term!Entries(backup)
         /\ kind \notin Term!PhpKinds /\ kind \in Term!Enables =>
              Term!Range(Term!NewPath(kind)) = Term!Range(path) \cup {Bin}
         /\ kind \notin Term!PhpKinds /\ kind \notin Term!Enables =>
              Term!Range(Term!NewPath(kind))
                = Term!Range(path) \ IF Term!Php \in shims THEN {} ELSE {Bin}
<1> DEFINE Theirs == Herd \cup {Bin}
           n == Term!NewPath(kind)
<1>0. /\ Term!EnablePhp \in Term!PhpKinds /\ Term!EnablePhp \in Term!Enables
      /\ Term!DisablePhp \in Term!PhpKinds /\ Term!DisablePhp \notin Term!Enables
      /\ Term!EnablePhp # Term!DisablePhp
      /\ kind \in Term!PhpKinds => kind = Term!EnablePhp \/ kind = Term!DisablePhp
  BY DEF Term!PhpKinds, Term!Enables, Term!EnablePhp, Term!DisablePhp, Term!EnableNode,
     Term!SelectNode
<1>1. CASE kind = Term!EnablePhp
  <2> DEFINE w == Term!Without(path, Herd)
  <2>1. n = Term!Prepended(w)
    BY <1>0, <1>1 DEF Term!NewPath, Term!NewPathPhp
  <2>2. w \in Seq(PathEntry) /\ Term!Range(w) = Term!Range(path) \ Herd
    BY WithoutRange
  <2>3. Term!Without(w, Theirs) = Term!Without(path, Theirs)
    <3>1. Herd \subseteq Theirs
      OBVIOUS
    <3> HIDE DEF Theirs
    <3> QED
      BY <3>1, WithoutTwice
  <2> HIDE DEF w
  <2>4. /\ Term!Prepended(w) \in Seq(PathEntry)
        /\ Term!Range(Term!Prepended(w)) = Term!Range(w) \cup {Bin}
        /\ Term!Without(Term!Prepended(w), Theirs) = Term!Without(w, Theirs)
    BY <2>2, PrependedLaws
  <2> HIDE DEF n, Theirs
  <2> QED
    BY <1>0, <1>1, <2>1, <2>2, <2>3, <2>4 DEF n, Theirs
<1>2. CASE kind = Term!DisablePhp
  <2> DEFINE w == IF shims \cap NodeShims # {} THEN path ELSE Term!Without(path, {Bin})
  <2>1. n = Term!Restored(w, backup)
    BY <1>0, <1>2 DEF Term!NewPath, Term!NewPathPhp
  <2>2. /\ w \in Seq(PathEntry)
        /\ Term!Range(w) = Term!Range(path) \ IF shims \cap NodeShims # {} THEN {}
             ELSE {Bin}
        /\ Term!Without(w, Theirs) = Term!Without(path, Theirs)
    <3>1. CASE shims \cap NodeShims # {}
      BY <3>1
    <3>2. CASE shims \cap NodeShims = {}
      BY <3>2, BinOut
    <3> QED
      BY <3>1, <3>2
  <2>3. backup \in Seq(Saved(PathEntry))
    <3>1. Saved(Herd) \subseteq Saved(PathEntry)
      BY DEF Saved, PathEntry
    <3> QED
      BY <3>1
  <2>4. Term!Entries(backup) \subseteq Theirs
    <3>1. \A i \in 1..Len(backup) : backup[i] \in Saved(Herd)
      OBVIOUS
    <3>2. \A p \in Saved(Herd) : p[2] \in Herd
      BY DEF Saved
    <3> QED
      BY <3>1, <3>2 DEF Term!Entries
  <2> HIDE DEF w, Theirs
  <2>5. /\ Term!Restored(w, backup) \in Seq(PathEntry)
        /\ Term!Range(Term!Restored(w, backup)) = Term!Range(w) \cup Term!Entries(backup)
    BY <2>2, <2>3, RestoredLaws
  <2>6. Term!Without(Term!Restored(w, backup), Theirs) = Term!Without(w, Theirs)
    BY <2>2, <2>3, <2>4, RestoredLaws
  <2> HIDE DEF n
  <2> QED
    BY <1>0, <1>2, <2>1, <2>2, <2>5, <2>6 DEF n, Theirs
<1>3. CASE kind \notin Term!PhpKinds /\ kind \in Term!Enables
  <2>1. n = Term!Prepended(path)
    BY <1>3 DEF Term!NewPath, Term!NewPathNode
  <2>2. /\ Term!Prepended(path) \in Seq(PathEntry)
        /\ Term!Range(Term!Prepended(path)) = Term!Range(path) \cup {Bin}
        /\ Term!Without(Term!Prepended(path), Theirs) = Term!Without(path, Theirs)
    BY PrependedLaws
  <2> HIDE DEF n, Theirs
  <2> QED
    BY <1>0, <1>3, <2>1, <2>2 DEF n, Theirs
<1>4. CASE kind \notin Term!PhpKinds /\ kind \notin Term!Enables
  <2>1. n = IF Term!Php \in shims THEN path ELSE Term!Without(path, {Bin})
    BY <1>4 DEF Term!NewPath, Term!NewPathNode
  <2>2. /\ n \in Seq(PathEntry)
        /\ Term!Range(n) = Term!Range(path) \ IF Term!Php \in shims THEN {} ELSE {Bin}
        /\ Term!Without(n, Theirs) = Term!Without(path, Theirs)
    <3> HIDE DEF n
    <3>1. CASE Term!Php \in shims
      BY <2>1, <3>1
    <3>2. CASE Term!Php \notin shims
      BY <2>1, <3>2, BinOut
    <3> QED
      BY <3>1, <3>2
  <2> HIDE DEF n, Theirs
  <2> QED
    BY <1>0, <1>4, <2>2 DEF n, Theirs
<1> QED
  BY <1>0, <1>1, <1>2, <1>3, <1>4

\* The first of the steps in s.
First(s) == IF s = <<>> THEN "end" ELSE Head(s)

\* Each step of a request in which nothing has failed, with the one that follows it.
WinSteps(kind, changing) ==
  CASE kind = Term!EnablePhp ->
         {<<"shim", "backup">>, <<"backup", "path">>, <<"path", "end">>}
    [] kind = Term!DisablePhp ->
         {<<"unshim", "path">>, <<"path", "forget">>, <<"forget", "end">>}
    [] kind = Term!EnableNode -> {<<"shim", "path">>, <<"path", "end">>}
    [] kind = Term!SelectNode ->
         {<<"select", "shim">>, <<"shim", "path">>, <<"path", "end">>}
    [] kind = Term!DisableNode -> {<<"unshim", "path">>, <<"path", "end">>}
    [] OTHER ->
         IF changing
         THEN {<<"deselect", "unshim">>, <<"unshim", "path">>, <<"path", "remove">>,
               <<"remove", "end">>}
         ELSE {<<"remove", "end">>}

\* The same after a failed step.
WinUndoes(kind) ==
  CASE kind = Term!RemoveNode ->
         {<<"reselect", "end">>, <<"reselect", "restart">>, <<"restart", "end">>}
    [] kind = Term!SelectNode -> {<<"reselect", "end">>}
    [] OTHER -> {<<"shim", "path">>, <<"path", "end">>}

\* The first step of a list and of the rest of it.
LEMMA Firsts ==
  /\ First(<<>>) = "end"
  /\ \A a : /\ <<a>> # <<>> /\ First(<<a>>) = a /\ Tail(<<a>>) = <<>>
  /\ \A a, b : /\ <<a, b>> # <<>> /\ First(<<a, b>>) = a /\ Tail(<<a, b>>) = <<b>>
  /\ \A a, b, c : /\ <<a, b, c>> # <<>> /\ First(<<a, b, c>>) = a
                  /\ Tail(<<a, b, c>>) = <<b, c>>
  /\ \A a, b, c, d : /\ <<a, b, c, d>> # <<>> /\ First(<<a, b, c, d>>) = a
                     /\ Tail(<<a, b, c, d>>) = <<b, c, d>>
  BY List1, List2, List3, List4 DEF First

\* Every way forward consists of these steps.
LEMMA WinForwardOrder ==
  ASSUME NEW kind \in Term!Kinds, NEW c \in BOOLEAN, NEW s \in WinForward(kind, c)
  PROVE  /\ s # <<>> /\ (Tail(s) = <<>> \/ Tail(s) \in WinForward(kind, c))
         /\ <<First(s), First(Tail(s))>> \in WinSteps(kind, c)
<1> USE DEF Term!EnablePhp, Term!DisablePhp, Term!EnableNode, Term!DisableNode,
  Term!SelectNode, Term!RemoveNode, Term!Kinds, Term!PhpKinds
<1>1. CASE kind = Term!EnablePhp
  <2>1. WinForward(kind, c) = {<<"shim", "backup", "path">>, <<"backup", "path">>,
            <<"path">>}
        /\ WinSteps(kind, c) = {<<"shim", "backup">>, <<"backup", "path">>, <<"path",
             "end">>}
    BY <1>1 DEF WinForward, WinSteps
  <2>2. CASE s = <<"shim", "backup", "path">>
    <3>1. s # <<>> /\ First(s) = "shim" /\ Tail(s) = <<"backup", "path">>
      BY <2>2, Firsts
    <3>2. First(<<"backup", "path">>) = "backup"
      BY Firsts
    <3>3. First(Tail(s)) = "backup"
      BY <3>1, <3>2
    <3> QED
      BY <2>1, <3>1, <3>3
  <2>3. CASE s = <<"backup", "path">>
    <3>1. s # <<>> /\ First(s) = "backup" /\ Tail(s) = <<"path">>
      BY <2>3, Firsts
    <3>2. First(<<"path">>) = "path"
      BY Firsts
    <3>3. First(Tail(s)) = "path"
      BY <3>1, <3>2
    <3> QED
      BY <2>1, <3>1, <3>3
  <2>4. CASE s = <<"path">>
    <3>1. s # <<>> /\ First(s) = "path" /\ Tail(s) = <<>>
      BY <2>4, Firsts
    <3>2. First(<<>>) = "end"
      BY Firsts
    <3>3. First(Tail(s)) = "end"
      BY <3>1, <3>2
    <3> QED
      BY <2>1, <3>1, <3>3
  <2> QED
    BY <2>1, <2>2, <2>3, <2>4
<1>2. CASE kind = Term!DisablePhp
  <2>1. WinForward(kind, c) = {<<"unshim", "path", "forget">>, <<"path", "forget">>,
            <<"forget">>}
        /\ WinSteps(kind, c) = {<<"unshim", "path">>, <<"path", "forget">>, <<"forget",
             "end">>}
    BY <1>2 DEF WinForward, WinSteps
  <2>2. CASE s = <<"unshim", "path", "forget">>
    <3>1. s # <<>> /\ First(s) = "unshim" /\ Tail(s) = <<"path", "forget">>
      BY <2>2, Firsts
    <3>2. First(<<"path", "forget">>) = "path"
      BY Firsts
    <3>3. First(Tail(s)) = "path"
      BY <3>1, <3>2
    <3> QED
      BY <2>1, <3>1, <3>3
  <2>3. CASE s = <<"path", "forget">>
    <3>1. s # <<>> /\ First(s) = "path" /\ Tail(s) = <<"forget">>
      BY <2>3, Firsts
    <3>2. First(<<"forget">>) = "forget"
      BY Firsts
    <3>3. First(Tail(s)) = "forget"
      BY <3>1, <3>2
    <3> QED
      BY <2>1, <3>1, <3>3
  <2>4. CASE s = <<"forget">>
    <3>1. s # <<>> /\ First(s) = "forget" /\ Tail(s) = <<>>
      BY <2>4, Firsts
    <3>2. First(<<>>) = "end"
      BY Firsts
    <3>3. First(Tail(s)) = "end"
      BY <3>1, <3>2
    <3> QED
      BY <2>1, <3>1, <3>3
  <2> QED
    BY <2>1, <2>2, <2>3, <2>4
<1>3. CASE kind = Term!EnableNode
  <2>1. WinForward(kind, c) = {<<"shim", "path">>, <<"path">>}
        /\ WinSteps(kind, c) = {<<"shim", "path">>, <<"path", "end">>}
    BY <1>3 DEF WinForward, WinSteps
  <2>2. CASE s = <<"shim", "path">>
    <3>1. s # <<>> /\ First(s) = "shim" /\ Tail(s) = <<"path">>
      BY <2>2, Firsts
    <3>2. First(<<"path">>) = "path"
      BY Firsts
    <3>3. First(Tail(s)) = "path"
      BY <3>1, <3>2
    <3> QED
      BY <2>1, <3>1, <3>3
  <2>3. CASE s = <<"path">>
    <3>1. s # <<>> /\ First(s) = "path" /\ Tail(s) = <<>>
      BY <2>3, Firsts
    <3>2. First(<<>>) = "end"
      BY Firsts
    <3>3. First(Tail(s)) = "end"
      BY <3>1, <3>2
    <3> QED
      BY <2>1, <3>1, <3>3
  <2> QED
    BY <2>1, <2>2, <2>3
<1>4. CASE kind = Term!SelectNode
  <2>1. WinForward(kind, c) = {<<"select", "shim", "path">>, <<"shim", "path">>, <<"path">>}
        /\ WinSteps(kind, c) = {<<"select", "shim">>, <<"shim", "path">>, <<"path", "end">>}
    BY <1>4 DEF WinForward, WinSteps
  <2>2. CASE s = <<"select", "shim", "path">>
    <3>1. s # <<>> /\ First(s) = "select" /\ Tail(s) = <<"shim", "path">>
      BY <2>2, Firsts
    <3>2. First(<<"shim", "path">>) = "shim"
      BY Firsts
    <3>3. First(Tail(s)) = "shim"
      BY <3>1, <3>2
    <3> QED
      BY <2>1, <3>1, <3>3
  <2>3. CASE s = <<"shim", "path">>
    <3>1. s # <<>> /\ First(s) = "shim" /\ Tail(s) = <<"path">>
      BY <2>3, Firsts
    <3>2. First(<<"path">>) = "path"
      BY Firsts
    <3>3. First(Tail(s)) = "path"
      BY <3>1, <3>2
    <3> QED
      BY <2>1, <3>1, <3>3
  <2>4. CASE s = <<"path">>
    <3>1. s # <<>> /\ First(s) = "path" /\ Tail(s) = <<>>
      BY <2>4, Firsts
    <3>2. First(<<>>) = "end"
      BY Firsts
    <3>3. First(Tail(s)) = "end"
      BY <3>1, <3>2
    <3> QED
      BY <2>1, <3>1, <3>3
  <2> QED
    BY <2>1, <2>2, <2>3, <2>4
<1>5. CASE kind = Term!DisableNode
  <2>1. WinForward(kind, c) = {<<"unshim", "path">>, <<"path">>}
        /\ WinSteps(kind, c) = {<<"unshim", "path">>, <<"path", "end">>}
    BY <1>5 DEF WinForward, WinSteps
  <2>2. CASE s = <<"unshim", "path">>
    <3>1. s # <<>> /\ First(s) = "unshim" /\ Tail(s) = <<"path">>
      BY <2>2, Firsts
    <3>2. First(<<"path">>) = "path"
      BY Firsts
    <3>3. First(Tail(s)) = "path"
      BY <3>1, <3>2
    <3> QED
      BY <2>1, <3>1, <3>3
  <2>3. CASE s = <<"path">>
    <3>1. s # <<>> /\ First(s) = "path" /\ Tail(s) = <<>>
      BY <2>3, Firsts
    <3>2. First(<<>>) = "end"
      BY Firsts
    <3>3. First(Tail(s)) = "end"
      BY <3>1, <3>2
    <3> QED
      BY <2>1, <3>1, <3>3
  <2> QED
    BY <2>1, <2>2, <2>3
<1>6. CASE kind = Term!RemoveNode /\ c
  <2>1. WinForward(kind, c) = {<<"deselect", "unshim", "path", "remove">>, <<"unshim",
            "path", "remove">>, <<"path", "remove">>, <<"remove">>}
        /\ WinSteps(kind, c) = {<<"deselect", "unshim">>, <<"unshim", "path">>, <<"path",
             "remove">>, <<"remove", "end">>}
    BY <1>6 DEF WinForward, WinSteps
  <2>2. CASE s = <<"deselect", "unshim", "path", "remove">>
    <3>1. s # <<>> /\ First(s) = "deselect" /\ Tail(s) = <<"unshim", "path", "remove">>
      BY <2>2, Firsts
    <3>2. First(<<"unshim", "path", "remove">>) = "unshim"
      BY Firsts
    <3>3. First(Tail(s)) = "unshim"
      BY <3>1, <3>2
    <3> QED
      BY <2>1, <3>1, <3>3
  <2>3. CASE s = <<"unshim", "path", "remove">>
    <3>1. s # <<>> /\ First(s) = "unshim" /\ Tail(s) = <<"path", "remove">>
      BY <2>3, Firsts
    <3>2. First(<<"path", "remove">>) = "path"
      BY Firsts
    <3>3. First(Tail(s)) = "path"
      BY <3>1, <3>2
    <3> QED
      BY <2>1, <3>1, <3>3
  <2>4. CASE s = <<"path", "remove">>
    <3>1. s # <<>> /\ First(s) = "path" /\ Tail(s) = <<"remove">>
      BY <2>4, Firsts
    <3>2. First(<<"remove">>) = "remove"
      BY Firsts
    <3>3. First(Tail(s)) = "remove"
      BY <3>1, <3>2
    <3> QED
      BY <2>1, <3>1, <3>3
  <2>5. CASE s = <<"remove">>
    <3>1. s # <<>> /\ First(s) = "remove" /\ Tail(s) = <<>>
      BY <2>5, Firsts
    <3>2. First(<<>>) = "end"
      BY Firsts
    <3>3. First(Tail(s)) = "end"
      BY <3>1, <3>2
    <3> QED
      BY <2>1, <3>1, <3>3
  <2> QED
    BY <2>1, <2>2, <2>3, <2>4, <2>5
<1>7. CASE kind = Term!RemoveNode /\ ~c
  <2>1. WinForward(kind, c) = {<<"remove">>}
        /\ WinSteps(kind, c) = {<<"remove", "end">>}
    BY <1>7 DEF WinForward, WinSteps
  <2>2. CASE s = <<"remove">>
    <3>1. s # <<>> /\ First(s) = "remove" /\ Tail(s) = <<>>
      BY <2>2, Firsts
    <3>2. First(<<>>) = "end"
      BY Firsts
    <3>3. First(Tail(s)) = "end"
      BY <3>1, <3>2
    <3> QED
      BY <2>1, <3>1, <3>3
  <2> QED
    BY <2>1, <2>2
<1> QED
  BY <1>1, <1>2, <1>3, <1>4, <1>5, <1>6, <1>7

\* Every way back does.
LEMMA WinBackwardOrder ==
  ASSUME NEW kind \in Term!Kinds, NEW u \in BOOLEAN, NEW s \in WinBackward(kind, u)
  PROVE  /\ s # <<>> /\ (Tail(s) = <<>> \/ Tail(s) \in WinBackward(kind, u))
         /\ <<First(s), First(Tail(s))>> \in WinUndoes(kind)
         /\ kind \in {Term!SelectNode, Term!RemoveNode, Term!EnableNode}
         /\ kind = Term!EnableNode => ~u
<1> USE DEF Term!EnablePhp, Term!DisablePhp, Term!EnableNode, Term!DisableNode,
  Term!SelectNode, Term!RemoveNode, Term!Kinds, Term!PhpKinds
<1>1. CASE kind = Term!SelectNode
  <2>1. WinBackward(kind, u) = {<<"reselect">>}
        /\ WinUndoes(kind) = {<<"reselect", "end">>}
    BY <1>1 DEF WinBackward, WinUndoes
  <2>2. CASE s = <<"reselect">>
    <3>1. s # <<>> /\ First(s) = "reselect" /\ Tail(s) = <<>>
      BY <2>2, Firsts
    <3>2. First(<<>>) = "end"
      BY Firsts
    <3>3. First(Tail(s)) = "end"
      BY <3>1, <3>2
    <3> QED
      BY <1>1, <2>1, <3>1, <3>3
  <2> QED
    BY <2>1, <2>2
<1>2. CASE kind = Term!RemoveNode
  <2>1. WinBackward(kind, u) = {<<"reselect">>, <<"reselect", "restart">>, <<"restart">>}
        /\ WinUndoes(kind) = {<<"reselect", "end">>, <<"reselect", "restart">>,
             <<"restart", "end">>}
    BY <1>2 DEF WinBackward, WinUndoes
  <2>2. CASE s = <<"reselect">>
    <3>1. s # <<>> /\ First(s) = "reselect" /\ Tail(s) = <<>>
      BY <2>2, Firsts
    <3>2. First(<<>>) = "end"
      BY Firsts
    <3>3. First(Tail(s)) = "end"
      BY <3>1, <3>2
    <3> QED
      BY <1>2, <2>1, <3>1, <3>3
  <2>3. CASE s = <<"reselect", "restart">>
    <3>1. s # <<>> /\ First(s) = "reselect" /\ Tail(s) = <<"restart">>
      BY <2>3, Firsts
    <3>2. First(<<"restart">>) = "restart"
      BY Firsts
    <3>3. First(Tail(s)) = "restart"
      BY <3>1, <3>2
    <3> QED
      BY <1>2, <2>1, <3>1, <3>3
  <2>4. CASE s = <<"restart">>
    <3>1. s # <<>> /\ First(s) = "restart" /\ Tail(s) = <<>>
      BY <2>4, Firsts
    <3>2. First(<<>>) = "end"
      BY Firsts
    <3>3. First(Tail(s)) = "end"
      BY <3>1, <3>2
    <3> QED
      BY <1>2, <2>1, <3>1, <3>3
  <2> QED
    BY <2>1, <2>2, <2>3, <2>4
<1>3. CASE kind = Term!EnableNode /\ ~u
  <2>1. WinBackward(kind, u) = {<<"shim", "path">>, <<"path">>}
        /\ WinUndoes(kind) = {<<"shim", "path">>, <<"path", "end">>}
    BY <1>3 DEF WinBackward, WinUndoes
  <2>2. CASE s = <<"shim", "path">>
    <3>1. s # <<>> /\ First(s) = "shim" /\ Tail(s) = <<"path">>
      BY <2>2, Firsts
    <3>2. First(<<"path">>) = "path"
      BY Firsts
    <3>3. First(Tail(s)) = "path"
      BY <3>1, <3>2
    <3> QED
      BY <1>3, <2>1, <3>1, <3>3
  <2>3. CASE s = <<"path">>
    <3>1. s # <<>> /\ First(s) = "path" /\ Tail(s) = <<>>
      BY <2>3, Firsts
    <3>2. First(<<>>) = "end"
      BY Firsts
    <3>3. First(Tail(s)) = "end"
      BY <3>1, <3>2
    <3> QED
      BY <1>3, <2>1, <3>1, <3>3
  <2> QED
    BY <2>1, <2>2, <2>3
<1>4. kind \in {Term!SelectNode, Term!RemoveNode} \/ (kind = Term!EnableNode /\ ~u)
  BY DEF WinBackward
<1> QED
  BY <1>1, <1>2, <1>3, <1>4

\* PATH with its backup is all that a step writes.
OnlyPath ==
  LET keep(name) == CASE name = "files" -> UNCHANGED <<profile, rc>>
                      [] name = "path" -> UNCHANGED <<path, backup, overwritten>>
                      [] name = "node" -> UNCHANGED <<installed, selected>>
                      [] OTHER -> UNCHANGED shims
  IN \A n \in {"files", "path", "node", "shims"} \ {"path"} : keep(n)

\* The entries that a write of the backup takes from it and that are not in PATH.
Dropped == Term!Entries(backup) \ (Term!Entries(backup)' \cup Term!Range(path))

\* Then the files, the shims and the versions stay.
LEMMA OnlyPathKeeps == OnlyPath => UNCHANGED <<profile, rc, shims, installed, selected>>
<1> SUFFICES ASSUME OnlyPath PROVE UNCHANGED <<profile, rc, shims, installed, selected>>
  OBVIOUS
<1>1. UNCHANGED <<profile, rc>>
  BY DEF OnlyPath
<1>2. UNCHANGED <<installed, selected>>
  BY DEF OnlyPath
<1>3. UNCHANGED shims
  BY DEF OnlyPath
<1> QED
  BY <1>1, <1>2, <1>3

\* What each step writes on Windows.
LEMMA WinEffects ==
  /\ Term!Effect("shim")
       => shims' = shims \cup Term!Shimmed(op.kind)
       /\ UNCHANGED <<profile, rc, path, backup, overwritten, installed, selected>>
  /\ Term!Effect("unshim")
       => shims' = shims \ Term!Shimmed(op.kind)
       /\ UNCHANGED <<profile, rc, path, backup, overwritten, installed, selected>>
  /\ Term!Effect("backup")
       => /\ backup' = IF Term!HerdEntries = <<>> THEN backup ELSE Term!HerdEntries
          /\ overwritten' = overwritten \cup Dropped
          /\ UNCHANGED <<profile, rc, path, shims, installed, selected>>
  /\ Term!Effect("path")
       => path' = Term!NewPath(op.kind)
       /\ UNCHANGED <<profile, rc, backup, overwritten, shims, installed, selected>>
  /\ Term!Effect("forget")
       => backup' = <<>>
       /\ UNCHANGED <<profile, rc, path, overwritten, shims, installed, selected>>
  /\ Term!Effect("select")
       => selected' = op.version
       /\ UNCHANGED <<profile, rc, path, backup, overwritten, shims, installed>>
  /\ Term!Effect("deselect")
       => selected' = None
       /\ UNCHANGED <<profile, rc, path, backup, overwritten, shims, installed>>
  /\ Term!Effect("reselect")
       => selected' = op.was
       /\ UNCHANGED <<profile, rc, path, backup, overwritten, shims, installed>>
  /\ Term!Effect("remove")
       => installed' = installed \ {op.version}
       /\ UNCHANGED <<profile, rc, path, backup, overwritten, shims, selected>>
<1>1. Term!Effect("shim")
        => shims' = shims \cup Term!Shimmed(op.kind)
        /\ UNCHANGED <<profile, rc, path, backup, overwritten, installed, selected>>
  BY DEF Term!Effect
<1>2. Term!Effect("unshim")
        => shims' = shims \ Term!Shimmed(op.kind)
        /\ UNCHANGED <<profile, rc, path, backup, overwritten, installed, selected>>
  BY DEF Term!Effect
<1>3. Term!Effect("backup")
        => /\ backup' = IF Term!HerdEntries = <<>> THEN backup ELSE Term!HerdEntries
           /\ overwritten' = overwritten \cup Dropped
           /\ UNCHANGED <<profile, rc, path, shims, installed, selected>>
  <2>1. Term!Effect("backup") => OnlyPath
    BY DEF Term!Effect, OnlyPath
  <2>2. Term!Effect("backup") =>
          /\ backup' = IF Term!HerdEntries = <<>> THEN backup ELSE Term!HerdEntries
          /\ overwritten' = overwritten \cup Dropped
          /\ path' = path
    BY DEF Term!Effect, Term!SaveBackup, Term!Entries, Dropped
  <2> QED
    BY <2>1, <2>2, OnlyPathKeeps
<1>4. Term!Effect("path")
        => path' = Term!NewPath(op.kind)
        /\ UNCHANGED <<profile, rc, backup, overwritten, shims, installed, selected>>
  BY DEF Term!Effect
<1>5. Term!Effect("forget")
        => backup' = <<>>
        /\ UNCHANGED <<profile, rc, path, overwritten, shims, installed, selected>>
  <2>1. Term!Effect("forget") => OnlyPath
    BY DEF Term!Effect, OnlyPath
  <2>2. Term!Effect("forget") => backup' = <<>> /\ UNCHANGED <<path, overwritten>>
    BY DEF Term!Effect
  <2> QED
    BY <2>1, <2>2, OnlyPathKeeps
<1>6. Term!Effect("select")
        => selected' = op.version
        /\ UNCHANGED <<profile, rc, path, backup, overwritten, shims, installed>>
  BY DEF Term!Effect
<1>7. Term!Effect("deselect")
        => selected' = None
        /\ UNCHANGED <<profile, rc, path, backup, overwritten, shims, installed>>
  BY DEF Term!Effect
<1>8. Term!Effect("reselect")
        => selected' = op.was
        /\ UNCHANGED <<profile, rc, path, backup, overwritten, shims, installed>>
  BY DEF Term!Effect
<1>9. Term!Effect("remove")
        => installed' = installed \ {op.version}
        /\ UNCHANGED <<profile, rc, path, backup, overwritten, shims, selected>>
  BY DEF Term!Effect
<1> QED
  BY <1>1, <1>2, <1>3, <1>4, <1>5, <1>6, <1>7, <1>8, <1>9

\* The shims, PATH and its backup after a step that goes through.
WinMoves ==
  /\ shims' = IF Ahead = "shim" THEN shims \cup Term!Shimmed(op.kind)
              ELSE IF Ahead = "unshim" THEN shims \ Term!Shimmed(op.kind) ELSE shims
  /\ path' = IF Ahead = "path" THEN Term!NewPath(op.kind) ELSE path
  /\ backup' = IF Ahead = "forget" THEN <<>>
               ELSE IF Ahead = "backup" /\ Term!HerdEntries # <<>> THEN Term!HerdEntries
               ELSE backup
  /\ overwritten' = IF Ahead = "backup"
                    THEN overwritten \cup Dropped
                    ELSE overwritten

\* The versions after it.
NodeMoves ==
  /\ selected' = IF Ahead = "select" THEN op.version
                 ELSE IF Ahead = "deselect" THEN None
                 ELSE IF Ahead = "reselect" THEN op.was ELSE selected
  /\ installed' = IF Ahead = "remove" THEN installed \ {op.version} ELSE installed

\* Where the operation stands before and after it.
WinStages ==
  /\ ~Term!Idle /\ Ahead # "restart"
  /\ Ahead \in {"shim", "unshim", "backup", "path", "forget", "select", "deselect",
       "reselect",
                "remove"}
  /\ Term!Idle' <=> Ahead' = "end"
  /\ op.ok => <<Ahead, Ahead'>> \in WinSteps(op.kind, Changing)
  /\ ~op.ok => /\ Changing /\ <<Ahead, Ahead'>> \in WinUndoes(op.kind)
               /\ op.kind \in {Term!SelectNode, Term!RemoveNode, Term!EnableNode}
               /\ op.kind = Term!EnableNode => ~op.undone

\* All that the proofs about a step that goes through rely on.
WinStepFacts ==
  /\ WinMoves /\ NodeMoves /\ WinStages /\ OnlyLeft
  /\ Changing' = Changing /\ WinPlaced'
  /\ torn' = IF Ahead' # "end" \/ ~Changing THEN torn
             ELSE IF op.ok THEN torn \ {Term!Integration(op.kind)}
             ELSE torn \cup {Term!Integration(op.kind)}
  /\ UNCHANGED <<profile, rc, herd>>

\* A step that goes through has these facts.
LEMMA WinStepSays ==
  ASSUME WinTyped, WinPlaced, Term!Step
  PROVE  WinStepFacts /\ OpShaped'
<1>1. ~Term!Idle /\ Head(op.left) # "restart" /\ Term!Effect(Head(op.left))
  BY DEF Term!Step
<1>2. OnlyLeft /\ op'.left = Tail(op.left) /\ OpShaped'
  BY StepOp DEF WinTyped, OpShaped
<1>3. Ahead = First(op.left) /\ Ahead' = First(Tail(op.left)) /\ Ahead = Head(op.left)
  BY <1>1, <1>2 DEF Ahead, First, Term!Idle
<1>4. Changing' = Changing
  BY <1>2 DEF Changing, OnlyLeft
<1>5. /\ op.kind \in Term!Kinds /\ Changing \in BOOLEAN /\ op.undone \in BOOLEAN
      /\ op'.kind = op.kind /\ op'.ok = op.ok /\ op'.undone = op.undone
  BY <1>2 DEF WinTyped, Changing, OnlyLeft
<1> DEFINE Tags == {"shim", "unshim", "backup", "path", "forget", "select", "deselect",
                    "reselect", "remove", "restart"}
<1>6. \A kind \in Term!Kinds, c \in BOOLEAN : \A a, b : <<a, b>> \in WinSteps(kind, c)
          => a \in Tags
  BY DEF WinSteps
<1>7. \A kind, a, b : <<a, b>> \in WinUndoes(kind) => a \in Tags
  BY DEF WinUndoes
<1>8. ASSUME op.ok
      PROVE  /\ <<Ahead, Ahead'>> \in WinSteps(op.kind, Changing) /\ WinPlaced'
             /\ Ahead \in Tags /\ (Term!Idle' <=> Ahead' = "end")
  <2>1. op.left \in WinForward(op.kind, Changing)
    BY <1>1, <1>8 DEF WinPlaced, Term!Idle
  <2>2. /\ Tail(op.left) = <<>> \/ Tail(op.left) \in WinForward(op.kind, Changing)
        /\ <<Ahead, Ahead'>> \in WinSteps(op.kind, Changing)
    BY <1>3, <1>5, <2>1, WinForwardOrder
  <2>3. CASE Tail(op.left) = <<>>
    <3>1. Term!Idle' /\ Ahead' = "end"
      BY <1>2, <2>3 DEF Term!Idle, Ahead
    <3> QED
      BY <1>2, <1>5, <1>6, <2>2, <2>3, <3>1 DEF WinPlaced
  <2>4. CASE Tail(op.left) \in WinForward(op.kind, Changing)
    <3>1. Tail(op.left) # <<>> /\ <<First(Tail(op.left)),
              First(Tail(Tail(op.left)))>> \in WinSteps(op.kind, Changing)
      BY <1>5, <2>4, WinForwardOrder
    <3>2. ~Term!Idle' /\ Ahead' # "end"
      BY <1>2, <1>3, <1>5, <1>6, <3>1 DEF Term!Idle
    <3>3. WinForward(op.kind, Changing)' = WinForward(op.kind, Changing)
      BY <1>4, <1>5 DEF WinForward
    <3>4. WinPlaced'
      BY <1>2, <1>5, <1>8, <2>4, <3>3 DEF WinPlaced
    <3> QED
      BY <1>5, <1>6, <2>2, <3>2, <3>4
  <2> QED
    BY <2>2, <2>3, <2>4
<1>9. ASSUME ~op.ok
      PROVE  /\ <<Ahead, Ahead'>> \in WinUndoes(op.kind) /\ WinPlaced' /\ Changing
             /\ op.kind \in {Term!SelectNode, Term!RemoveNode, Term!EnableNode}
             /\ op.kind = Term!EnableNode => ~op.undone
             /\ Ahead \in Tags /\ (Term!Idle' <=> Ahead' = "end")
  <2>1. op.left \in WinBackward(op.kind, op.undone) /\ Changing
    BY <1>1, <1>9 DEF WinPlaced, Term!Idle
  <2>2. /\ Tail(op.left) = <<>> \/ Tail(op.left) \in WinBackward(op.kind, op.undone)
        /\ <<Ahead, Ahead'>> \in WinUndoes(op.kind)
        /\ op.kind \in {Term!SelectNode, Term!RemoveNode, Term!EnableNode}
        /\ op.kind = Term!EnableNode => ~op.undone
    BY <1>3, <1>5, <2>1, WinBackwardOrder
  <2>3. CASE Tail(op.left) = <<>>
    <3>1. Term!Idle' /\ Ahead' = "end"
      BY <1>2, <2>3 DEF Term!Idle, Ahead
    <3> QED
      BY <1>2, <1>5, <1>7, <2>1, <2>2, <2>3, <3>1 DEF WinPlaced
  <2>4. CASE Tail(op.left) \in WinBackward(op.kind, op.undone)
    <3>1. Tail(op.left) # <<>> /\ <<First(Tail(op.left)),
              First(Tail(Tail(op.left)))>> \in WinUndoes(op.kind)
      BY <1>5, <2>4, WinBackwardOrder
    <3>2. ~Term!Idle' /\ Ahead' # "end"
      BY <1>2, <1>3, <1>5, <1>7, <3>1 DEF Term!Idle
    <3>3. WinBackward(op.kind, op.undone)' = WinBackward(op.kind, op.undone)
      BY <1>5 DEF WinBackward
    <3>4. WinPlaced'
      BY <1>2, <1>4, <1>5, <1>9, <2>1, <2>4, <3>3 DEF WinPlaced
    <3> QED
      BY <1>5, <1>7, <2>1, <2>2, <3>2, <3>4
  <2> QED
    BY <2>2, <2>3, <2>4
<1>10. WinStages /\ WinPlaced'
  BY <1>1, <1>3, <1>8, <1>9 DEF WinStages
<1>11. /\ Ahead \in Tags \ {"restart"}
       /\ Term!Effect(Ahead)
  BY <1>1, <1>3, <1>8, <1>9
<1>12. WinMoves /\ NodeMoves /\ UNCHANGED <<profile, rc>>
  BY <1>11, WinEffects DEF WinMoves, NodeMoves
<1>13. torn' = IF Ahead' # "end" \/ ~Changing THEN torn
               ELSE IF op.ok THEN torn \ {Term!Integration(op.kind)}
               ELSE torn \cup {Term!Integration(op.kind)}
  <2>1. torn' = Term!TornAfter(Tail(op.left))
    BY DEF Term!Step
  <2>2. Tail(op.left) # <<>> <=> Ahead' # "end"
    BY <1>2, <1>10 DEF WinStages, Term!Idle
  <2> QED
    BY <2>1, <2>2 DEF Term!TornAfter, Changing
<1>14. herd' = herd
  BY DEF Term!Step
<1> QED
  BY <1>2, <1>4, <1>10, <1>12, <1>13, <1>14 DEF WinStepFacts

\* A step that goes through keeps the types.
LEMMA WinStepTyped ==
  ASSUME WinTyped, WinStepFacts, OpShaped'
  PROVE  WinTyped'
<1>1. path' \in Seq(PathEntry)
  BY NewPathLaws DEF WinTyped, WinStepFacts, WinMoves
<1>2. backup' \in Seq(Saved(Herd))
  <2>1. Term!HerdEntries \in Seq(Saved(Herd))
    BY HerdEntriesLaws DEF WinTyped
  <2>2. <<>> \in Seq(Saved(Herd))
    OBVIOUS
  <2> QED
    BY <2>1, <2>2 DEF WinTyped, WinStepFacts, WinMoves
<1>3. shims' \subseteq {Term!Php} \cup NodeShims
  BY DEF WinTyped, WinStepFacts, WinMoves, Term!Shimmed
<1>4. installed' \subseteq Versions /\ selected' \in Versions \cup {None}
  BY DEF WinTyped, WinStepFacts, NodeMoves
<1>5. torn' \subseteq {"php", "node"}
  BY DEF WinTyped, WinStepFacts, Term!Integration
<1> QED
  BY <1>1, <1>2, <1>3, <1>4, <1>5 DEF WinTyped, WinStepFacts, OnlyLeft, OpShaped

\* The shims, the common entry and the selected version go on following the steps.
LEMMA WinStepAdvanced ==
  ASSUME WinAssumption, WinTyped, WinAdvanced, WinStepFacts
  PROVE  WinAdvanced'
<1> USE DEF Term!EnablePhp, Term!DisablePhp, Term!EnableNode, Term!DisableNode,
   Term!SelectNode, Term!RemoveNode, Term!PhpKinds, Term!Kinds, Term!Enables
<1> SUFFICES ASSUME ~Term!Idle', op.ok PROVE WinAdvanced'
  BY DEF WinAdvanced, WinStepFacts, OnlyLeft
<1>1. /\ op'.kind = op.kind /\ op'.ok = op.ok /\ op'.version = op.version
           /\ op'.was = op.was
      /\ Changing' = Changing /\ ~Term!Idle /\ Changing \in BOOLEAN
           /\ op.kind \in Term!Kinds
      /\ Ahead' # "end" /\ <<Ahead, Ahead'>> \in WinSteps(op.kind, Changing)
      /\ ~Changing => op.kind = Term!RemoveNode
  BY DEF WinStepFacts, OnlyLeft, WinStages, WinTyped, Changing
<1>2. op.kind \in Term!Enables /\ Ahead' \in {"backup", "path"}
          => Term!Shimmed(op.kind) \subseteq shims'
  BY <1>1 DEF WinSteps, WinAdvanced, WinStepFacts, WinMoves
<1>3. op.kind \notin Term!Enables /\ Changing /\ Ahead' \in {"path", "forget", "remove"}
        => Term!Shimmed(op.kind) \cap shims' = {}
  BY <1>1 DEF WinSteps, WinAdvanced, WinStepFacts, WinMoves
<1>4. ASSUME Ahead' = "forget", Term!PathHolds(Bin)' PROVE NodeShims \cap shims' # {}
  <2>1. Ahead = "path" /\ op.kind = Term!DisablePhp
    BY <1>1, <1>4 DEF WinSteps
  <2>2. path' = Term!NewPath(op.kind) /\ shims' = shims
    BY <2>1 DEF WinStepFacts, WinMoves
  <2>3. Bin \notin Term!Entries(backup)
    BY DEF WinTyped, WinAssumption, Term!Entries, Saved
  <2>4. Bin \in Term!Range(Term!NewPath(op.kind))
    BY <1>4, <2>2 DEF Term!PathHolds, Term!Range
  <2> QED
    BY <1>1, <2>1, <2>2, <2>3, <2>4, NewPathLaws DEF WinTyped
<1>5. ASSUME Changing, Ahead' = "remove", Term!PathHolds(Bin)' PROVE Term!Php \in shims'
  <2>1. Ahead = "path" /\ op.kind = Term!RemoveNode
    BY <1>1, <1>5 DEF WinSteps
  <2>2. path' = Term!NewPath(op.kind) /\ shims' = shims
    BY <2>1 DEF WinStepFacts, WinMoves
  <2>4. Bin \in Term!Range(Term!NewPath(op.kind))
    BY <1>5, <2>2 DEF Term!PathHolds, Term!Range
  <2> QED
    BY <1>1, <2>1, <2>2, <2>4, NewPathLaws DEF WinTyped
<1>6. selected' = IF op.kind = Term!SelectNode /\ Ahead' # "select" THEN op.version
                  ELSE IF op.kind = Term!RemoveNode /\ Changing
                      /\ Ahead' # "deselect" THEN None
                  ELSE op.was
  BY <1>1 DEF WinSteps, WinAdvanced, WinStepFacts, NodeMoves
<1>7. Ahead # "remove"
  BY <1>1 DEF WinSteps
<1>8. installed' = installed
  BY <1>7 DEF WinStepFacts, NodeMoves
<1>9. /\ op.kind = Term!SelectNode => op.version \in installed'
      /\ op.kind = Term!EnableNode => op.was \in installed'
  BY <1>1, <1>8 DEF WinAdvanced
<1>10. (Term!Shimmed(op.kind))' = Term!Shimmed(op.kind)
  BY <1>1 DEF Term!Shimmed
<1> QED
  BY <1>1, <1>2, <1>3, <1>4, <1>5, <1>6, <1>9, <1>10 DEF WinAdvanced

\* PATH keeps Herd's entries or the backup does, and the user's own stay in place.
LEMMA WinStepEntries ==
  ASSUME WinAssumption, WinTyped, EntriesKept, WinStepFacts
  PROVE  EntriesKept'
<1> USE DEF Term!EnablePhp, Term!DisablePhp, Term!EnableNode, Term!DisableNode,
   Term!SelectNode, Term!RemoveNode, Term!PhpKinds, Term!Kinds, Term!Enables
<1>1. /\ op'.kind = op.kind /\ op.kind \in Term!Kinds /\ Changing \in BOOLEAN
           /\ herd' = herd
      /\ <<Ahead, Ahead'>> \in WinSteps(op.kind, Changing) \cup WinUndoes(op.kind)
      /\ op.kind \in Term!PhpKinds => <<Ahead, Ahead'>> \in WinSteps(op.kind, Changing)
  BY DEF WinStepFacts, OnlyLeft, WinStages, WinTyped, Changing
<1>2. /\ Ahead = "forget" => op.kind = Term!DisablePhp /\ Ahead' = "end"
      /\ Ahead = "backup" => op.kind = Term!EnablePhp /\ Ahead' = "path"
      /\ Ahead' = "forget" => Ahead = "path" /\ op.kind = Term!DisablePhp
      /\ op.kind = Term!EnablePhp /\ Ahead' = "path" => Ahead = "backup"
  BY <1>1 DEF WinSteps, WinUndoes
<1>3. CASE Ahead = "path"
  <2> DEFINE n == Term!NewPath(op.kind)
  <2>1. path' = n /\ backup' = backup /\ overwritten' = overwritten
    BY <1>3 DEF WinStepFacts, WinMoves
  <2>2. /\ Term!Without(n, Herd \cup {Bin}) = Own
        /\ op.kind = Term!EnablePhp => Term!Range(path) \ Herd \subseteq Term!Range(n)
        /\ op.kind = Term!DisablePhp =>
             Term!Range(path) \ {Bin} \subseteq Term!Range(n)
                 /\ Term!Entries(backup) \subseteq Term!Range(n)
        /\ op.kind \notin Term!PhpKinds => Term!Range(path) \ {Bin} \subseteq Term!Range(n)
    <3>1. Term!Without(n, Herd \cup {Bin}) = Own
      BY <1>1, NewPathLaws DEF WinTyped, EntriesKept
    <3>2. op.kind = Term!EnablePhp => Term!Range(path) \ Herd \subseteq Term!Range(n)
      BY <1>1, NewPathLaws DEF WinTyped
    <3>3. op.kind = Term!DisablePhp =>
             Term!Range(path) \ {Bin} \subseteq Term!Range(n)
                 /\ Term!Entries(backup) \subseteq Term!Range(n)
      BY <1>1, NewPathLaws DEF WinTyped
    <3>4. op.kind \notin Term!PhpKinds => Term!Range(path) \ {Bin} \subseteq Term!Range(n)
      BY <1>1, NewPathLaws DEF WinTyped
    <3> QED
      BY <3>1, <3>2, <3>3, <3>4
  <2> HIDE DEF n
  <2>3. /\ (Term!Range(path))' = Term!Range(n)
             /\ (Term!Entries(backup))' = Term!Entries(backup)
        /\ (Term!Without(path, Herd \cup {Bin}))' = Term!Without(n, Herd \cup {Bin})
    BY <2>1 DEF Term!Range, Term!Entries, Term!Without, Term!Kept
  <2>4. herd.rc \subseteq Herd /\ Bin \notin Herd /\ overwritten' = overwritten
    BY <2>1 DEF WinTyped, WinAssumption
  <2>5. Ahead' # "path"
    BY <1>1, <1>3 DEF WinSteps, WinUndoes
  <2>6. herd.rc \subseteq Term!Range(n) \cup Term!Entries(backup) \cup overwritten
    <3>1. CASE op.kind = Term!EnablePhp
      <4>1. Term!Range(path) \cap Herd \subseteq Term!Entries(backup)
        BY <1>3, <3>1 DEF EntriesKept
      <4> QED
        BY <2>2, <2>4, <3>1, <4>1 DEF EntriesKept
    <3>2. CASE op.kind # Term!EnablePhp
      BY <2>2, <2>4, <3>2 DEF EntriesKept
    <3> QED
      BY <3>1, <3>2
  <2>7. Ahead' = "forget" => Term!Entries(backup) \subseteq Term!Range(n)
    BY <1>2, <2>2
  <2> QED
    BY <1>1, <2>2, <2>3, <2>4, <2>5, <2>6, <2>7 DEF EntriesKept
<1>4. CASE Ahead = "backup"
  <2>1. /\ path' = path /\ overwritten' = overwritten \cup Dropped
        /\ backup' = IF Term!HerdEntries # <<>> THEN Term!HerdEntries ELSE backup
    BY <1>4 DEF WinStepFacts, WinMoves
  <2>2. Ahead' = "path"
    BY <1>2, <1>4
  <2>3. Term!Entries(backup)' = Term!Entries(IF Term!HerdEntries # <<>> THEN Term!HerdEntries ELSE backup)
    BY <2>1 DEF Term!Entries
  <2>4. Term!Range(path) \cap Herd \subseteq Term!Entries(backup)'
    <3>1. /\ Term!Entries(Term!HerdEntries) = Term!Range(path) \cap Herd
          /\ Term!HerdEntries = <<>> => Term!Range(path) \cap Herd = {}
      BY HerdEntriesLaws DEF WinTyped
    <3> QED
      BY <2>3, <3>1
  <2>5. /\ (Term!Range(path))' = Term!Range(path)
        /\ (Term!Without(path, Herd \cup {Bin}))' = Term!Without(path, Herd \cup {Bin})
    BY <2>1 DEF Term!Range, Term!Without, Term!Kept
  <2>6. herd.rc \subseteq Term!Range(path) \cup Term!Entries(backup)' \cup overwritten'
    BY <2>1 DEF EntriesKept, Dropped
  <2> QED
    BY <1>1, <2>2, <2>4, <2>5, <2>6 DEF EntriesKept
<1>5. CASE Ahead = "forget"
  <2>1. path' = path /\ backup' = <<>> /\ overwritten' = overwritten
    BY <1>5 DEF WinStepFacts, WinMoves
  <2>2. Ahead' = "end" /\ Term!Entries(backup) \subseteq Term!Range(path)
    BY <1>2, <1>5 DEF EntriesKept
  <2>3. /\ (Term!Range(path))' = Term!Range(path)
        /\ (Term!Without(path, Herd \cup {Bin}))' = Term!Without(path, Herd \cup {Bin})
    BY <2>1 DEF Term!Range, Term!Without, Term!Kept
  <2> QED
    BY <1>1, <2>1, <2>2, <2>3 DEF EntriesKept
<1>6. CASE Ahead \notin {"path", "backup", "forget"}
  <2>1. UNCHANGED <<path, backup, overwritten>>
    BY <1>6 DEF WinStepFacts, WinMoves
  <2> QED
    BY <1>1, <1>2, <1>6, <2>1 DEF EntriesKept, Term!Range, Term!Entries, Term!Without,
        Term!Kept
<1> QED
  BY <1>3, <1>4, <1>5, <1>6

\* PHP stays found, or is not there and has no backup.
LEMMA WinStepPhp ==
  ASSUME WinAssumption, WinTyped, WinAdvanced, PhpFound, WinStepFacts
  PROVE  PhpFound'
<1> USE DEF Term!EnablePhp, Term!DisablePhp, Term!EnableNode, Term!DisableNode,
   Term!SelectNode, Term!RemoveNode, Term!PhpKinds, Term!Kinds, Term!Enables
<1>1. /\ op'.kind = op.kind /\ op.kind \in Term!Kinds /\ Changing \in BOOLEAN /\ ~Term!Idle
      /\ <<Ahead, Ahead'>> \in WinSteps(op.kind, Changing) \cup WinUndoes(op.kind)
      /\ op.kind \in Term!PhpKinds => op.ok
           /\ <<Ahead, Ahead'>> \in WinSteps(op.kind, Changing)
      /\ Term!Idle' <=> Ahead' = "end"
      /\ op.kind \in Term!PhpKinds => Changing
  BY DEF WinStepFacts, OnlyLeft, WinStages, WinTyped, Changing
<1> SUFFICES ASSUME Term!Idle' \/ op.kind \notin Term!PhpKinds, "php" \notin torn'
             PROVE  IF Term!Php \in shims' THEN Term!PathHolds(Bin)' ELSE backup' = <<>>
  BY <1>1 DEF PhpFound, Term!Php
<1>2. CASE op.kind = Term!EnablePhp
  <2>1. Ahead = "path"
    BY <1>1, <1>2 DEF WinSteps
  <2>2. path' = Term!NewPath(op.kind) /\ shims' = shims
    BY <2>1 DEF WinStepFacts, WinMoves
  <2>3. Term!Php \in shims
    BY <1>1, <1>2, <2>1 DEF WinAdvanced, Term!Shimmed
  <2>4. Bin \in Term!Range(Term!NewPath(op.kind))
    BY <1>1, <1>2, NewPathLaws DEF WinTyped
  <2> QED
    BY <2>2, <2>3, <2>4 DEF Term!PathHolds, Term!Range
<1>3. CASE op.kind = Term!DisablePhp
  <2>1. Ahead = "forget"
    BY <1>1, <1>3 DEF WinSteps
  <2>2. backup' = <<>> /\ shims' = shims
    BY <2>1 DEF WinStepFacts, WinMoves
  <2>3. Term!Php \notin shims
    BY <1>1, <1>3, <2>1 DEF WinAdvanced, Term!Shimmed
  <2> QED
    BY <2>2, <2>3
<1>4. CASE op.kind \notin Term!PhpKinds
  <2>1. "php" \notin torn
    BY <1>4 DEF WinStepFacts, Term!Integration
  <2>2. IF Term!Php \in shims THEN Term!PathHolds(Bin) ELSE backup = <<>>
    BY <1>4, <2>1 DEF PhpFound
  <2>3. Term!Php \in shims' <=> Term!Php \in shims
    BY <1>4 DEF WinStepFacts, WinMoves, Term!Shimmed, WinAssumption
  <2>4. Ahead \notin {"backup", "forget"}
    BY <1>1, <1>4 DEF WinSteps, WinUndoes
  <2>5. backup' = backup
    BY <2>4 DEF WinStepFacts, WinMoves
  <2>6. Term!Php \in shims => Term!PathHolds(Bin)'
    <3>1. CASE Ahead = "path"
      <4>1. path' = Term!NewPath(op.kind)
        BY <3>1 DEF WinStepFacts, WinMoves
      <4>2. Term!Php \in shims => Bin \in Term!Range(path)
        BY <2>2 DEF Term!PathHolds
      <4>3. Term!Php \in shims => Bin \in Term!Range(Term!NewPath(op.kind))
        BY <1>1, <1>4, <4>2, NewPathLaws DEF WinTyped
      <4> QED
        BY <4>1, <4>3 DEF Term!PathHolds, Term!Range
    <3>2. CASE Ahead # "path"
      BY <2>2, <3>2 DEF WinStepFacts, WinMoves, Term!PathHolds, Term!Range
    <3> QED
      BY <3>1, <3>2
  <2> QED
    BY <2>2, <2>3, <2>5, <2>6
<1> QED
  BY <1>1, <1>2, <1>3, <1>4

\* Node stays found with a version to run, or is not there.
LEMMA WinStepNode ==
  ASSUME WinAssumption, WinTyped, WinAdvanced, NodeFound, WinStepFacts
  PROVE  NodeFound'
<1> USE DEF Term!EnablePhp, Term!DisablePhp, Term!EnableNode, Term!DisableNode,
   Term!SelectNode, Term!RemoveNode, Term!PhpKinds, Term!Kinds, Term!Enables
<1>1. /\ op'.kind = op.kind /\ op.kind \in Term!Kinds /\ Changing \in BOOLEAN /\ ~Term!Idle
      /\ op.ok => <<Ahead, Ahead'>> \in WinSteps(op.kind, Changing)
      /\ ~op.ok => op.kind \notin Term!PhpKinds /\ Changing
      /\ Term!Idle' <=> Ahead' = "end"
      /\ Changing' = Changing
      /\ ~Changing => op.kind = Term!RemoveNode /\ op.was # op.version
  BY DEF WinStepFacts, OnlyLeft, WinStages, WinTyped, Changing
<1> SUFFICES ASSUME Term!Idle' \/ op.kind \in Term!PhpKinds \/ ~Changing,
        "node" \notin torn'
             PROVE  /\ NodeShims \cap shims' # {} => Term!PathHolds(Bin)'
                    /\ NodeShims \subseteq shims' => selected' \in installed'
  BY <1>1 DEF NodeFound
<1>2. CASE op.kind \in Term!PhpKinds
  <2>1. "node" \notin torn
    BY <1>2 DEF WinStepFacts, Term!Integration
  <2>2. /\ NodeShims \cap shims # {} => Term!PathHolds(Bin)
        /\ NodeShims \subseteq shims => selected \in installed
    BY <1>2, <2>1 DEF NodeFound
  <2>3. NodeShims \cap shims' = NodeShims \cap shims /\ (NodeShims \subseteq shims'
            <=> NodeShims \subseteq shims)
    BY <1>2 DEF WinStepFacts, WinMoves, Term!Shimmed, WinAssumption
  <2>4. Ahead \notin {"select", "deselect", "reselect", "remove"}
    BY <1>1, <1>2 DEF WinSteps
  <2>5. selected' = selected /\ installed' = installed
    BY <2>4 DEF WinStepFacts, NodeMoves
  <2>6. NodeShims \cap shims # {} => Term!PathHolds(Bin)'
    <3>1. CASE Ahead = "path"
      <4>1. path' = Term!NewPath(op.kind)
        BY <3>1 DEF WinStepFacts, WinMoves
      <4>2. NodeShims \cap shims # {} => Bin \in Term!Range(path)
        BY <2>2 DEF Term!PathHolds
      <4>3. NodeShims \cap shims # {} => Bin \in Term!Range(Term!NewPath(op.kind))
        BY <1>1, <1>2, <4>2, NewPathLaws DEF WinTyped
      <4> QED
        BY <4>1, <4>3 DEF Term!PathHolds, Term!Range
    <3>2. CASE Ahead # "path"
      BY <2>2, <3>2 DEF WinStepFacts, WinMoves, Term!PathHolds, Term!Range
    <3> QED
      BY <3>1, <3>2
  <2> QED
    BY <2>2, <2>3, <2>5, <2>6
<1>3. CASE ~Changing
  <2>1. op.ok /\ Ahead = "remove"
    BY <1>1, <1>3 DEF WinSteps
  <2>2. "node" \notin torn
    BY <1>3 DEF WinStepFacts
  <2>3. /\ NodeShims \cap shims # {} => Term!PathHolds(Bin)
        /\ NodeShims \subseteq shims => selected \in installed
    BY <1>3, <2>2 DEF NodeFound
  <2>4. selected = op.was
    BY <1>1, <1>3, <2>1 DEF WinAdvanced
  <2>5. path' = path /\ shims' = shims /\ selected' = selected
            /\ installed' = installed \ {op.version}
    BY <2>1 DEF WinStepFacts, WinMoves, NodeMoves
  <2> QED
    BY <1>1, <1>3, <2>3, <2>4, <2>5 DEF Term!PathHolds, Term!Range
<1>4. CASE op.kind \notin Term!PhpKinds /\ Changing
  <2>1. Ahead' = "end"
    BY <1>1, <1>4
  <2>2. op.ok
    BY <1>4, <2>1 DEF WinStepFacts, Term!Integration
  <2>3. CASE op.kind \in Term!Enables
    <3>1. Ahead = "path"
      BY <1>1, <1>4, <2>1, <2>2, <2>3 DEF WinSteps
    <3>2. path' = Term!NewPath(op.kind) /\ shims' = shims /\ selected' = selected
              /\ installed' = installed
      BY <3>1 DEF WinStepFacts, WinMoves, NodeMoves
    <3>3. Bin \in Term!Range(Term!NewPath(op.kind))
      BY <1>1, <2>3, NewPathLaws DEF WinTyped
    <3>4. selected \in installed
      BY <1>1, <1>4, <2>2, <2>3, <3>1 DEF WinAdvanced
    <3> QED
      BY <3>2, <3>3, <3>4 DEF Term!PathHolds, Term!Range
  <2>4. CASE op.kind \notin Term!Enables
    <3>1. Ahead \in {"path", "remove"}
      BY <1>1, <1>4, <2>1, <2>2, <2>4 DEF WinSteps
    <3>2. shims' = shims /\ NodeShims \cap shims = {}
      BY <1>1, <1>4, <2>2, <2>4, <3>1 DEF WinAdvanced, Term!Shimmed, WinStepFacts, WinMoves
    <3> QED
      BY <3>2 DEF WinAssumption
  <2> QED
    BY <2>3, <2>4
<1> QED
  BY <1>2, <1>3, <1>4

\* The common entry goes with the last shim.
LEMMA WinStepBin ==
  ASSUME WinAssumption, WinTyped, WinAdvanced, BinUsed, WinStepFacts
  PROVE  BinUsed'
<1> USE DEF Term!EnablePhp, Term!DisablePhp, Term!EnableNode, Term!DisableNode,
   Term!SelectNode, Term!RemoveNode, Term!PhpKinds, Term!Kinds, Term!Enables
<1>1. /\ op'.kind = op.kind /\ op.kind \in Term!Kinds /\ Changing \in BOOLEAN /\ ~Term!Idle
      /\ op.ok => <<Ahead, Ahead'>> \in WinSteps(op.kind, Changing)
      /\ ~op.ok => Changing
      /\ Term!Idle' <=> Ahead' = "end"
      /\ Changing' = Changing
      /\ ~Changing => op.kind = Term!RemoveNode
  BY DEF WinStepFacts, OnlyLeft, WinStages, WinTyped, Changing
<1> SUFFICES ASSUME Term!Idle' \/ ~Changing, torn' = {}, Term!PathHolds(Bin)'
             PROVE  shims' # {}
  BY <1>1 DEF BinUsed
<1>2. CASE ~Changing
  <2>1. Ahead = "remove"
    BY <1>1, <1>2 DEF WinSteps
  <2>2. UNCHANGED <<path, shims, torn>>
    BY <1>2, <2>1 DEF WinStepFacts, WinMoves
  <2> QED
    BY <1>2, <2>2 DEF BinUsed, Term!PathHolds, Term!Range
<1>3. CASE Changing
  <2>1. Ahead' = "end"
    BY <1>1, <1>3
  <2>2. op.ok
    BY <1>3, <2>1 DEF WinStepFacts, Term!Integration
  <2>3. CASE op.kind \in Term!Enables
    <3>1. Ahead = "path"
      BY <1>1, <1>3, <2>1, <2>2, <2>3 DEF WinSteps
    <3>2. shims' = shims /\ Term!Shimmed(op.kind) \subseteq shims
      BY <1>1, <2>2, <2>3, <3>1 DEF WinAdvanced, WinStepFacts, WinMoves
    <3> QED
      BY <3>2 DEF Term!Shimmed, WinAssumption
  <2>4. CASE op.kind \notin Term!Enables /\ Ahead = "path"
    <3>1. op.kind = Term!DisableNode
      BY <1>1, <1>3, <2>1, <2>2, <2>4 DEF WinSteps
    <3>2. path' = Term!NewPath(op.kind) /\ shims' = shims
      BY <2>4 DEF WinStepFacts, WinMoves
    <3>3. Bin \in Term!Range(Term!NewPath(op.kind))
      BY <3>2 DEF Term!PathHolds, Term!Range
    <3>4. Term!Php \in shims
      BY <1>1, <3>1, <3>3, NewPathLaws DEF WinTyped
    <3> QED
      BY <3>2, <3>4
  <2>5. CASE op.kind \notin Term!Enables /\ Ahead # "path"
    <3>1. Ahead \in {"forget", "remove"}
      BY <1>1, <1>3, <2>1, <2>2, <2>5 DEF WinSteps
    <3>2. path' = path /\ shims' = shims
      BY <3>1 DEF WinStepFacts, WinMoves
    <3>3. Term!PathHolds(Bin)
      BY <3>2 DEF Term!PathHolds, Term!Range
    <3> QED
      BY <1>1, <1>3, <2>2, <3>1, <3>2, <3>3 DEF WinAdvanced
  <2> QED
    BY <2>3, <2>4, <2>5
<1> QED
  BY <1>1, <1>2, <1>3

\* A version selected by a failed change is still to be taken back.
LEMMA WinStepTakenBack ==
  ASSUME WinTyped, WinTakenBack, WinStepFacts
  PROVE  WinTakenBack'
<1> USE DEF Term!EnablePhp, Term!DisablePhp, Term!EnableNode, Term!DisableNode,
   Term!SelectNode, Term!RemoveNode
<1> SUFFICES ASSUME ~op.ok, op.undone, selected' # op.was PROVE Ahead' = "reselect"
  BY DEF WinTakenBack, WinStepFacts, OnlyLeft
<1>1. Ahead \in {"reselect", "restart"}
  BY DEF WinStepFacts, WinStages, WinUndoes
<1>2. Ahead = "reselect"
  BY <1>1 DEF WinStepFacts, WinStages
<1> QED
  BY <1>2 DEF WinStepFacts, NodeMoves

\* The requests that enclose the writes of Node's integration.
LEMMA WinJoins ==
  /\ <<"select">> \o <<"shim", "path">> = <<"select", "shim", "path">>
  /\ <<"deselect">> \o <<"unshim", "path">> \o <<"remove">>
       = <<"deselect", "unshim", "path", "remove">>
<1>1. \A a, b, c : <<a>> \o <<b, c>> = <<a, b, c>>
  <2> TAKE a, b, c
  <2> DEFINE S == {a, b, c}
             x == <<a>> \o <<b, c>>
             y == <<a, b, c>>
  <2>1. <<a>> \in Seq(S) /\ <<b, c>> \in Seq(S) /\ y \in Seq(S)
    OBVIOUS
  <2>2. x \in Seq(S) /\ Len(x) = 3 /\ x[1] = a /\ x[2] = b /\ x[3] = c
    BY <2>1, ConcatProperties
  <2>3. Len(y) = 3 /\ y[1] = a /\ y[2] = b /\ y[3] = c
    OBVIOUS
  <2>4. \A i \in 1..3 : i \in {1, 2, 3}
    OBVIOUS
  <2> HIDE DEF x, y
  <2>5. \A i \in 1..Len(x) : x[i] = y[i]
    BY <2>2, <2>3, <2>4
  <2>6. x = y
    BY <2>1, <2>2, <2>3, <2>5, SeqEqual
  <2> QED
    BY <2>6 DEF x, y
<1>2. \A a, b, c, d : <<a, b, c>> \o <<d>> = <<a, b, c, d>>
  <2> TAKE a, b, c, d
  <2> DEFINE S == {a, b, c, d}
             x == <<a, b, c>> \o <<d>>
             y == <<a, b, c, d>>
  <2>1. <<a, b, c>> \in Seq(S) /\ <<d>> \in Seq(S) /\ y \in Seq(S)
    OBVIOUS
  <2>2. x \in Seq(S) /\ Len(x) = 4 /\ x[1] = a /\ x[2] = b /\ x[3] = c /\ x[4] = d
    BY <2>1, ConcatProperties
  <2>3. Len(y) = 4 /\ y[1] = a /\ y[2] = b /\ y[3] = c /\ y[4] = d
    OBVIOUS
  <2>4. \A i \in 1..4 : i \in {1, 2, 3, 4}
    OBVIOUS
  <2> HIDE DEF x, y
  <2>5. \A i \in 1..Len(x) : x[i] = y[i]
    BY <2>2, <2>3, <2>4
  <2>6. x = y
    BY <2>1, <2>2, <2>3, <2>5, SeqEqual
  <2> QED
    BY <2>6 DEF x, y
<1>3. <<"select">> \o <<"shim", "path">> = <<"select", "shim", "path">>
  BY <1>1
<1>4. <<"deselect">> \o <<"unshim", "path">> = <<"deselect", "unshim", "path">>
  BY <1>1
<1>5. <<"deselect", "unshim", "path">> \o <<"remove">>
        = <<"deselect", "unshim", "path", "remove">>
  BY <1>2
<1> QED
  BY <1>3, <1>4, <1>5

\* What a request begins with.
WinFirst(kind, c) ==
  CASE kind \in {Term!EnablePhp, Term!EnableNode} -> "shim"
    [] kind \in {Term!DisablePhp, Term!DisableNode} -> "unshim"
    [] kind = Term!SelectNode -> "select"
    [] OTHER -> IF c THEN "deselect" ELSE "remove"

\* Every plan is a whole way forward.
LEMMA WinPlanFresh ==
  ASSUME WinAssumption, NEW kind \in Term!Kinds, NEW v, NEW c \in BOOLEAN,
         c <=> kind # Term!RemoveNode \/ v = selected
  PROVE  /\ Term!Plan(kind, v) \in WinForward(kind, c)
         /\ Term!Plan(kind, v) # <<>> /\ First(Term!Plan(kind, v)) = WinFirst(kind, c)
<1> USE DEF Term!EnablePhp, Term!DisablePhp, Term!EnableNode, Term!DisableNode,
   Term!SelectNode, Term!RemoveNode, Term!PhpKinds, Term!Kinds, Term!Enables
<1> DEFINE p == Term!Plan(kind, v)
<1>0. Windows
  BY DEF WinAssumption
<1>1. CASE kind = Term!EnablePhp
  <2>1. p = <<"shim", "backup", "path">>
    BY <1>0, <1>1 DEF Term!Plan, Term!WritePlan, Term!WindowsPlan
  <2>2. WinForward(kind, c)
          = {<<"shim", "backup", "path">>, <<"backup", "path">>, <<"path">>}
    BY <1>1 DEF WinForward
  <2>3. WinFirst(kind, c) = "shim"
    BY <1>1 DEF WinFirst
  <2>4. First(<<"shim", "backup", "path">>) = "shim" /\ <<"shim", "backup", "path">> # <<>>
    BY Firsts
  <2> QED
    BY <2>1, <2>2, <2>3, <2>4
<1>2. CASE kind = Term!DisablePhp
  <2>1. p = <<"unshim", "path", "forget">>
    BY <1>0, <1>2 DEF Term!Plan, Term!WritePlan, Term!WindowsPlan
  <2>2. WinForward(kind, c)
          = {<<"unshim", "path", "forget">>, <<"path", "forget">>, <<"forget">>}
    BY <1>2 DEF WinForward
  <2>3. WinFirst(kind, c) = "unshim"
    BY <1>2 DEF WinFirst
  <2>4. First(<<"unshim", "path", "forget">>) = "unshim"
        /\ <<"unshim", "path", "forget">> # <<>>
    BY Firsts
  <2> QED
    BY <2>1, <2>2, <2>3, <2>4
<1>3. CASE kind = Term!EnableNode
  <2>1. p = <<"shim", "path">>
    BY <1>0, <1>3 DEF Term!Plan, Term!WritePlan, Term!WindowsPlan
  <2>2. WinForward(kind, c) = {<<"shim", "path">>, <<"path">>}
    BY <1>3 DEF WinForward
  <2>3. WinFirst(kind, c) = "shim"
    BY <1>3 DEF WinFirst
  <2>4. First(<<"shim", "path">>) = "shim" /\ <<"shim", "path">> # <<>>
    BY Firsts
  <2> QED
    BY <2>1, <2>2, <2>3, <2>4
<1>4. CASE kind = Term!DisableNode
  <2>1. p = <<"unshim", "path">>
    BY <1>0, <1>4 DEF Term!Plan, Term!WritePlan, Term!WindowsPlan
  <2>2. WinForward(kind, c) = {<<"unshim", "path">>, <<"path">>}
    BY <1>4 DEF WinForward
  <2>3. WinFirst(kind, c) = "unshim"
    BY <1>4 DEF WinFirst
  <2>4. First(<<"unshim", "path">>) = "unshim" /\ <<"unshim", "path">> # <<>>
    BY Firsts
  <2> QED
    BY <2>1, <2>2, <2>3, <2>4
<1>5. CASE kind = Term!SelectNode
  <2>a. Term!WritePlan(kind) = <<"shim", "path">>
    BY <1>0, <1>5 DEF Term!WritePlan, Term!WindowsPlan
  <2>b. p = <<"select">> \o Term!WritePlan(kind)
    BY <1>5 DEF Term!Plan
  <2>1. p = <<"select", "shim", "path">>
    BY <2>a, <2>b, WinJoins
  <2>2. WinForward(kind, c)
          = {<<"select", "shim", "path">>, <<"shim", "path">>, <<"path">>}
    BY <1>5 DEF WinForward
  <2>3. WinFirst(kind, c) = "select"
    BY <1>5 DEF WinFirst
  <2>4. First(<<"select", "shim", "path">>) = "select"
            /\ <<"select", "shim", "path">> # <<>>
    BY Firsts
  <2> HIDE DEF p
  <2> QED
    BY <2>1, <2>2, <2>3, <2>4 DEF p
<1>6. CASE kind = Term!RemoveNode /\ c
  <2>0. kind = Term!RemoveNode /\ v = selected /\ kind # Term!SelectNode
    BY <1>6
  <2>a. Term!WritePlan(kind) = <<"unshim", "path">>
    BY <1>0, <1>6 DEF Term!WritePlan, Term!WindowsPlan
  <2>b. p = <<"deselect">> \o Term!WritePlan(kind) \o <<"remove">>
    <3> DEFINE W == Term!WritePlan(kind)
               X == <<"deselect">> \o W \o <<"remove">>
               Y == <<"select">> \o W
    <3>1. p = CASE kind = Term!SelectNode -> Y
                [] kind = Term!RemoveNode /\ v = selected -> X
                [] kind = Term!RemoveNode /\ v # selected -> <<"remove">>
                [] OTHER -> W
      BY DEF Term!Plan
    <3> HIDE DEF X, Y, W
    <3>2. p = X
      BY <2>0, <3>1
    <3> QED
      BY <3>2 DEF X, W
  <2>1. p = <<"deselect", "unshim", "path", "remove">>
    BY <2>a, <2>b, WinJoins
  <2>2. WinForward(kind, c)
          = {<<"deselect", "unshim", "path", "remove">>, <<"unshim", "path", "remove">>,
             <<"path", "remove">>, <<"remove">>}
    BY <1>6 DEF WinForward
  <2>3. WinFirst(kind, c) = "deselect"
    BY <1>6 DEF WinFirst
  <2>4. /\ First(<<"deselect", "unshim", "path", "remove">>) = "deselect"
        /\ <<"deselect", "unshim", "path", "remove">> # <<>>
    BY Firsts
  <2> HIDE DEF p
  <2> QED
    BY <2>1, <2>2, <2>3, <2>4 DEF p
<1>7. CASE kind = Term!RemoveNode /\ ~c
  <2>1. p = <<"remove">>
    BY <1>7 DEF Term!Plan
  <2>2. WinForward(kind, c) = {<<"remove">>}
    BY <1>7 DEF WinForward
  <2>3. WinFirst(kind, c) = "remove"
    BY <1>7 DEF WinFirst
  <2>4. First(<<"remove">>) = "remove" /\ <<"remove">> # <<>>
    BY Firsts
  <2> QED
    BY <2>1, <2>2, <2>3, <2>4
<1> QED
  BY <1>1, <1>2, <1>3, <1>4, <1>5, <1>6, <1>7

\* A request, refused or not, keeps the invariant.
LEMMA WinAsk ==
  ASSUME WinAssumption, WinInv, NEW kind \in Term!Kinds, NEW v \in Versions \cup {None},
         Term!Ask(kind, v)
  PROVE  WinInv'
<1> DEFINE refused == Term!Refused(kind) /\ (kind = Term!RemoveNode => v = selected)
           c == kind # Term!RemoveNode \/ v = selected
           left == IF refused THEN Term!RefusedPlan(kind, v) ELSE Term!Plan(kind, v)
<1>1. /\ op' = [kind |-> kind, ok |-> ~refused, profile |-> profile, rc |-> rc,
                version |-> v, was |-> selected, undone |-> TRUE, left |-> left]
      /\ Term!Idle
      /\ UNCHANGED <<profile, rc, path, backup, shims, installed, selected, herd,
                     overwritten, torn>>
      /\ kind \in {Term!SelectNode, Term!RemoveNode} => v \in installed
  BY DEF Term!Ask
<1>2. refused \in BOOLEAN /\ c \in BOOLEAN /\ (c <=> kind # Term!RemoveNode \/ v = selected)
  OBVIOUS
<1>3. refused => c /\ kind = Term!EnableNode
  BY DEF Term!Refused, WinInv, WinTyped, Term!Integration
<1>4. kind = Term!EnableNode /\ ~refused => selected \in installed
  BY DEF Term!Refused, Term!RemoveNode, Term!EnableNode
<1>5. /\ Term!Plan(kind, v) \in WinForward(kind, c)
      /\ Term!Plan(kind, v) # <<>> /\ First(Term!Plan(kind, v)) = WinFirst(kind, c)
  BY <1>2, WinPlanFresh
<1>6. refused => left = <<>>
  BY <1>3 DEF Term!RefusedPlan, Term!SelectNode, Term!RemoveNode, Term!EnableNode
<1>7. ~refused => left = Term!Plan(kind, v)
  OBVIOUS
<1> HIDE DEF refused, c, left
<1>8. /\ op'.kind = kind /\ (op'.ok <=> ~refused) /\ op'.version = v
      /\ op'.was = selected /\ op'.undone = TRUE /\ op'.left = left
      /\ OpShaped' /\ op'.ok \in BOOLEAN
  BY <1>1, <1>2 DEF OpShaped
<1>9. Changing' = c
  BY <1>2, <1>8 DEF Changing
<1>10. WinTyped'
  BY <1>1, <1>8 DEF WinTyped, OpShaped, WinInv, PathEntry
<1>11. Ahead' = IF refused THEN "end" ELSE WinFirst(kind, c)
  BY <1>5, <1>6, <1>7, <1>8 DEF Ahead, First
<1>12. WinPlaced'
  <2>1. CASE refused
    BY <1>6, <1>8, <2>1 DEF WinPlaced
  <2>2. CASE ~refused
    <3>1. op'.left \in WinForward(op'.kind, Changing') /\ op'.ok
      BY <1>5, <1>7, <1>8, <1>9, <2>2
    <3> QED
      BY <3>1 DEF WinPlaced
  <2> QED
    BY <2>1, <2>2
<1>a. kind \in Term!Kinds => kind = Term!RemoveNode \/ c
  BY <1>2
<1> USE DEF Term!EnablePhp, Term!DisablePhp, Term!EnableNode, Term!DisableNode,
   Term!SelectNode, Term!RemoveNode, Term!PhpKinds, Term!Kinds, Term!Enables
<1>b. /\ WinFirst(kind, c) \in {"shim", "unshim", "select", "deselect", "remove"}
      /\ WinFirst(kind, c) = "remove" => ~c
      /\ kind = Term!SelectNode => WinFirst(kind, c) = "select"
      /\ kind = Term!RemoveNode /\ c => WinFirst(kind, c) = "deselect"
  BY DEF WinFirst
<1>13. WinAdvanced'
  <2> SUFFICES ASSUME ~refused PROVE WinAdvanced'
    BY <1>8 DEF WinAdvanced
  <2>1. Ahead' \notin {"backup", "path", "forget"} /\ (Ahead' = "remove" => ~Changing')
    BY <1>9, <1>11, <1>b
  <2>2. selected' = op'.was
    BY <1>1, <1>8
  <2>3. /\ op'.kind = Term!SelectNode => op'.version \in installed' /\ Ahead' = "select"
        /\ op'.kind = Term!EnableNode => op'.was \in installed'
        /\ op'.kind = Term!RemoveNode /\ Changing' => Ahead' = "deselect"
    BY <1>1, <1>4, <1>8, <1>9, <1>11, <1>b
  <2> QED
    BY <2>1, <2>2, <2>3 DEF WinAdvanced
<1>14. PhpFound' /\ NodeFound' /\ BinUsed'
  <2>1. PhpFound'
    BY <1>1 DEF WinInv, PhpFound, Term!PathHolds, Term!Range
  <2>2. NodeFound'
    BY <1>1 DEF WinInv, NodeFound, Term!PathHolds, Term!Range
  <2>3. BinUsed'
    BY <1>1 DEF WinInv, BinUsed, Term!PathHolds, Term!Range
  <2> QED
    BY <2>1, <2>2, <2>3
<1>15. EntriesKept'
  <2>1. Ahead' \notin {"path", "forget"}
    BY <1>11, <1>b
  <2>2. /\ (Term!Range(path))' = Term!Range(path)
        /\ (Term!Entries(backup))' = Term!Entries(backup)
        /\ (Term!Without(path, Herd \cup {Bin}))' = Term!Without(path, Herd \cup {Bin})
    BY <1>1 DEF Term!Range, Term!Entries
  <2> QED
    BY <1>1, <2>1, <2>2 DEF WinInv, EntriesKept
<1>16. WinTakenBack'
  BY <1>1, <1>8 DEF WinTakenBack
<1> QED
  BY <1>10, <1>12, <1>13, <1>14, <1>15, <1>16 DEF WinInv

\* Where an operation in progress stands.
LEMMA WinWay ==
  ASSUME WinTyped, WinPlaced, ~Term!Idle
  PROVE  /\ Ahead = Turn /\ Changing \in BOOLEAN
         /\ op.ok => \E b : <<Ahead, b>> \in WinSteps(op.kind, Changing)
         /\ ~op.ok =>
              /\ Changing /\ op.kind \in {Term!SelectNode, Term!RemoveNode, Term!EnableNode}
              /\ op.kind = Term!EnableNode => ~op.undone
              /\ <<Ahead, First(Tail(op.left))>> \in WinUndoes(op.kind)
              /\ Tail(op.left) = <<>> \/ Tail(op.left) \in WinBackward(op.kind, op.undone)
<1>1. op.left # <<>> /\ Ahead = Turn /\ Ahead = First(op.left)
  BY DEF Ahead, Turn, First, Term!Idle
<1>2. Changing \in BOOLEAN /\ op.kind \in Term!Kinds /\ op.undone \in BOOLEAN
  BY DEF WinTyped, Changing
<1>3. ASSUME op.ok PROVE \E b : <<Ahead, b>> \in WinSteps(op.kind, Changing)
  <2>1. op.left \in WinForward(op.kind, Changing)
    BY <1>1, <1>3 DEF WinPlaced
  <2> QED
    BY <1>1, <1>2, <2>1, WinForwardOrder
<1>4. ASSUME ~op.ok
      PROVE  /\ Changing /\ op.kind \in {Term!SelectNode, Term!RemoveNode, Term!EnableNode}
             /\ op.kind = Term!EnableNode => ~op.undone
             /\ <<Ahead, First(Tail(op.left))>> \in WinUndoes(op.kind)
             /\ Tail(op.left) = <<>> \/ Tail(op.left) \in WinBackward(op.kind, op.undone)
  <2>1. op.left \in WinBackward(op.kind, op.undone) /\ Changing
    BY <1>1, <1>4 DEF WinPlaced
  <2> QED
    BY <1>1, <1>2, <2>1, WinBackwardOrder
<1> QED
  BY <1>1, <1>2, <1>3, <1>4

\* What the Agent takes back of a failed request.
LEMMA WinBack ==
  ASSUME WinAssumption, NEW kind \in Term!Kinds, NEW turn
  PROVE  Back(kind, turn) =
           CASE kind = Term!SelectNode -> <<"reselect">>
             [] kind = Term!RemoveNode /\ turn # "remove" -> <<"reselect">>
             [] kind = Term!RemoveNode /\ turn = "remove" /\ op.was = op.version
                  -> <<"reselect", "restart">>
             [] OTHER -> <<>>
<1>1. Term!UndoFiles(kind, turn) = <<>>
  BY DEF Term!UndoFiles, WinAssumption
<1>2. \/ Term!UndoAgent(kind, turn) = <<"reselect">>
      \/ Term!UndoAgent(kind, turn) = <<"reselect", "restart">>
      \/ Term!UndoAgent(kind, turn) = <<>>
  BY DEF Term!UndoAgent
<1>3. Back(kind, turn) = Term!UndoAgent(kind, turn)
  BY <1>1, <1>2, Joins DEF Back
<1> QED
  BY <1>3 DEF Term!UndoAgent, Term!SelectNode, Term!RemoveNode

\* A write of the backup that is cut short leaves entries of Herd, and none is lost that
\* is not counted.
LEMMA CutLaws ==
  ASSUME WinTyped, NEW at, Term!CutBackup(at), path' = path
  PROVE  /\ backup' \in Seq(Saved(Herd)) /\ (backup' # backup => at = "backup")
         /\ overwritten \subseteq overwritten'
         /\ Term!Entries(backup)
              \subseteq Term!Range(path) \cup Term!Entries(backup)' \cup overwritten'
<1>1. Term!HerdEntries \in Seq(Saved(Herd))
  BY HerdEntriesLaws DEF WinTyped
<1>2. CASE UNCHANGED <<backup, overwritten>>
  BY <1>2 DEF WinTyped, Term!Entries
<1>3. CASE at = "backup" /\ \E n \in 0..(Len(Term!HerdEntries) - 1) :
                                Term!SaveBackup(SubSeq(Term!HerdEntries, 1, n))
  <2>1. PICK n \in 0..(Len(Term!HerdEntries) - 1) :
                Term!SaveBackup(SubSeq(Term!HerdEntries, 1, n))
    BY <1>3
  <2>2. /\ backup' = SubSeq(Term!HerdEntries, 1, n)
        /\ overwritten' = overwritten \cup Dropped
    BY <2>1 DEF Term!SaveBackup, Term!Entries, Dropped
  <2>3. SubSeq(Term!HerdEntries, 1, n) \in Seq(Saved(Herd))
    BY <1>1
  <2> QED
    BY <1>3, <2>2, <2>3 DEF Dropped
<1> QED
  BY <1>2, <1>3 DEF Term!CutBackup

\* Only EnablePhp writes the backup.
LEMMA BackupOfPhp ==
  ASSUME WinTyped, WinPlaced, ~Term!Idle, Turn = "backup"
  PROVE  op.kind = Term!EnablePhp
<1>1. /\ Ahead = "backup"
      /\ op.ok => \E b : <<Ahead, b>> \in WinSteps(op.kind, Changing)
      /\ ~op.ok => <<Ahead, First(Tail(op.left))>> \in WinUndoes(op.kind)
  BY WinWay
<1>2. op.ok
  BY <1>1 DEF WinUndoes
<1> QED
  BY <1>1, <1>2 DEF WinSteps

\* A step that fails, an undo included, keeps the invariant.
LEMMA WinFail ==
  ASSUME WinAssumption, WinInv, Term!Fail
  PROVE  WinInv'
<1> USE DEF Term!EnablePhp, Term!DisablePhp, Term!EnableNode, Term!DisableNode,
   Term!SelectNode, Term!RemoveNode, Term!PhpKinds, Term!Kinds, Term!Enables
<1>1. /\ op'.kind = op.kind /\ op'.version = op.version
      /\ op'.was = op.was /\ ~op'.ok /\ op'.ok \in BOOLEAN /\ op'.undone \in BOOLEAN
      /\ op'.undone <=> op.undone /\ ~Term!Undoing(Turn)
      /\ OpShaped' /\ Turn # "restart" /\ ~Term!Idle /\ (Changing' <=> Changing)
      /\ op'.left = IF Term!Undoing(Turn) THEN Tail(op.left) ELSE Back(op.kind, Turn)
  BY FailOp DEF WinInv, WinTyped, OpShaped, Back
<1>2. /\ Ahead = Turn /\ Changing \in BOOLEAN
      /\ op.ok => \E b : <<Ahead, b>> \in WinSteps(op.kind, Changing)
      /\ ~op.ok =>
           /\ Changing /\ op.kind \in {Term!SelectNode, Term!RemoveNode, Term!EnableNode}
           /\ op.kind = Term!EnableNode => ~op.undone
           /\ <<Ahead, First(Tail(op.left))>> \in WinUndoes(op.kind)
           /\ Tail(op.left) = <<>> \/ Tail(op.left) \in WinBackward(op.kind, op.undone)
  <2>1. WinTyped /\ WinPlaced /\ ~Term!Idle
    BY <1>1 DEF WinInv
  <2> HIDE DEF Term!EnablePhp, Term!DisablePhp, Term!EnableNode, Term!DisableNode,
       Term!SelectNode, Term!RemoveNode, Term!PhpKinds, Term!Kinds, Term!Enables
  <2> QED
    BY <2>1, WinWay
<1>3. op.kind \in Term!Kinds /\ op.kind \in Term!Kinds
  BY DEF WinInv, WinTyped
<1>4. Back(op.kind, Turn) =
        CASE op.kind = Term!SelectNode -> <<"reselect">>
          [] op.kind = Term!RemoveNode /\ Turn # "remove" -> <<"reselect">>
          [] op.kind = Term!RemoveNode /\ Turn = "remove" /\ op.was = op.version
               -> <<"reselect", "restart">>
          [] OTHER -> <<>>
  <2> HIDE DEF Term!EnablePhp, Term!DisablePhp, Term!EnableNode, Term!DisableNode,
       Term!SelectNode, Term!RemoveNode, Term!PhpKinds, Term!Kinds, Term!Enables
  <2> QED
    BY <1>3, WinBack
<1>5. /\ UNCHANGED <<profile, rc, path, installed, selected, herd>>
      /\ torn' = torn \cup {Term!Integration(op.kind)} /\ Term!CutBackup(Turn)
  BY DEF Term!Fail, Turn
<1>6. /\ shims' \ Term!Shimmed(op.kind) = shims \ Term!Shimmed(op.kind)
      /\ shims' \subseteq shims \cup Term!Shimmed(op.kind)
  BY DEF Term!Fail
<1>7. WinTyped'
  <2>1. shims' \subseteq {Term!Php} \cup NodeShims
    BY <1>6 DEF WinInv, WinTyped, Term!Shimmed
  <2>2. torn' \subseteq {"php", "node"}
    BY <1>5 DEF WinInv, WinTyped, Term!Integration
  <2>3. backup' \in Seq(Saved(Herd))
    BY <1>5, CutLaws DEF WinInv
  <2> QED
    BY <1>1, <1>5, <2>1, <2>2, <2>3 DEF WinTyped, OpShaped, WinInv, PathEntry
<1>8. Term!Undoing(Turn) => ~op.ok /\ Turn = "reselect"
        /\ op.kind \in {Term!SelectNode, Term!RemoveNode}
  <2>1. \A b : <<"profileBack", b>> \notin WinSteps(op.kind, Changing)
                 /\ <<"rcBack", b>> \notin WinSteps(op.kind, Changing)
                 /\ <<"reselect", b>> \notin WinSteps(op.kind, Changing)
    BY DEF WinSteps
  <2>2. \A b : <<"profileBack", b>> \notin WinUndoes(op.kind)
                 /\ <<"rcBack", b>> \notin WinUndoes(op.kind)
    BY DEF WinUndoes
  <2>3. ASSUME NEW b, <<"reselect", b>> \in WinUndoes(op.kind)
        PROVE  op.kind \in {Term!SelectNode, Term!RemoveNode}
    BY <2>3 DEF WinUndoes
  <2> QED
    BY <1>2, <2>1, <2>2, <2>3 DEF Term!Undoing
<1>9. /\ Ahead' \in {"end", "reselect", "restart"}
      /\ ~Term!Undoing(Turn) /\ Back(op.kind, Turn) # <<>> => Ahead' = "reselect"
  <2>1. CASE Term!Undoing(Turn)
    <3>1. <<"reselect", First(Tail(op.left))>> \in WinUndoes(op.kind)
      BY <1>2, <1>8, <2>1
    <3>2. First(Tail(op.left)) \in {"end", "restart"}
      BY <3>1, <1>8, <2>1 DEF WinUndoes
    <3>3. Ahead' = First(Tail(op.left))
      BY <1>1, <2>1 DEF Ahead, First
    <3> QED
      BY <2>1, <3>2, <3>3
  <2>2. CASE ~Term!Undoing(Turn)
    <3>1. Ahead' = First(Back(op.kind, Turn))
      BY <1>1, <2>2 DEF Ahead, First
    <3>2. \/ Back(op.kind, Turn) = <<>> \/ Back(op.kind, Turn) = <<"reselect">>
          \/ Back(op.kind, Turn) = <<"reselect", "restart">>
      BY <1>4
    <3>3. /\ First(<<>>) = "end" /\ First(<<"reselect">>) = "reselect"
          /\ First(<<"reselect", "restart">>) = "reselect"
      BY Firsts
    <3> QED
      BY <3>1, <3>2, <3>3
  <2> QED
    BY <2>1, <2>2
<1>10. WinPlaced'
  <2>1. CASE Term!Undoing(Turn)
    <3>1. op'.left = <<>> \/ op'.left \in WinBackward(op.kind, op.undone)
      BY <1>1, <1>2, <1>8, <2>1
    <3>2. WinBackward(op.kind, op.undone) = WinBackward(op'.kind, op'.undone)
      BY <1>1, <1>8, <2>1 DEF WinBackward
    <3> QED
      BY <1>1, <1>2, <1>8, <2>1, <3>1, <3>2 DEF WinPlaced
  <2>2. CASE ~Term!Undoing(Turn)
    <3>1. op'.left = Back(op.kind, Turn)
      BY <1>1, <2>2
    <3>2. ~Changing => op.kind = Term!RemoveNode /\ Turn = "remove" /\ op.was # op.version
      <4>1. ASSUME ~Changing PROVE Turn = "remove"
        <5>1. op.kind = Term!RemoveNode /\ op.ok
          BY <1>2, <4>1 DEF Changing
        <5>2. WinSteps(op.kind, Changing) = {<<"remove", "end">>}
          BY <4>1, <5>1 DEF WinSteps
        <5> QED
          BY <1>2, <5>1, <5>2
      <4> QED
        BY <4>1 DEF Changing
    <3>3. ~Changing => op'.left = <<>>
      BY <1>4, <3>1, <3>2
    <3>4. CASE op.kind = Term!SelectNode
      <4>1. op'.left = <<"reselect">>
        BY <1>4, <3>1, <3>4
      <4>2. WinBackward(op'.kind, op'.undone) = {<<"reselect">>}
        BY <1>1, <3>4 DEF WinBackward
      <4>3. op'.left \in WinBackward(op'.kind, op'.undone)
        BY <4>1, <4>2
      <4>4. Changing'
        BY <1>1, <3>4 DEF Changing
      <4> QED
        BY <1>1, <4>3, <4>4 DEF WinPlaced
    <3>5. CASE op.kind = Term!RemoveNode
      <4>1. op'.left = <<"reselect">> \/ op'.left = <<"reselect", "restart">>
              \/ op'.left = <<>>
        BY <1>4, <3>1, <3>5
      <4>2. WinBackward(op'.kind, op'.undone)
              = {<<"reselect">>, <<"reselect", "restart">>, <<"restart">>}
        BY <1>1, <3>5 DEF WinBackward
      <4>3. op'.left = <<>> \/ op'.left \in WinBackward(op'.kind, op'.undone)
        BY <4>1, <4>2
      <4> QED
        BY <1>1, <3>3, <4>3 DEF WinPlaced
    <3>6. CASE op.kind \notin {Term!SelectNode, Term!RemoveNode}
      <4>1. op'.left = <<>>
        BY <1>4, <3>1, <3>6
      <4> QED
        BY <4>1 DEF WinPlaced
    <3> QED
      BY <3>4, <3>5, <3>6
  <2> QED
    BY <2>1, <2>2
<1>11. WinAdvanced'
  BY <1>1 DEF WinAdvanced
<1>12. PhpFound'
  <2> SUFFICES ASSUME "php" \notin torn'
               PROVE  IF Term!Php \in shims' THEN Term!PathHolds(Bin)' ELSE backup' = <<>>
    BY DEF PhpFound
  <2>1. op.kind \notin Term!PhpKinds /\ "php" \notin torn
    BY <1>5 DEF Term!Integration
  <2>2. IF Term!Php \in shims THEN Term!PathHolds(Bin) ELSE backup = <<>>
    BY <2>1 DEF PhpFound, WinInv
  <2>3. Term!Shimmed(op.kind) = NodeShims
    BY <2>1 DEF Term!Shimmed
  <2>4. Term!Php \in shims' <=> Term!Php \in shims
    BY <1>6, <2>3 DEF WinAssumption
  <2>5. Term!PathHolds(Bin)' <=> Term!PathHolds(Bin)
    BY <1>5 DEF Term!PathHolds, Term!Range
  <2>6. backup' = backup
    BY <1>1, <1>5, <2>1, CutLaws, BackupOfPhp DEF WinInv
  <2> QED
    BY <1>5, <2>2, <2>4, <2>5, <2>6
<1>13. NodeFound'
  <2> SUFFICES ASSUME "node" \notin torn'
               PROVE  /\ NodeShims \cap shims' # {} => Term!PathHolds(Bin)'
                      /\ NodeShims \subseteq shims' => selected' \in installed'
    BY DEF NodeFound
  <2>1. op.kind \in Term!PhpKinds /\ "node" \notin torn
    BY <1>5 DEF Term!Integration
  <2>2. /\ NodeShims \cap shims # {} => Term!PathHolds(Bin)
        /\ NodeShims \subseteq shims => selected \in installed
    BY <2>1 DEF NodeFound, WinInv
  <2>3. Term!Shimmed(op.kind) = {Term!Php}
    BY <2>1 DEF Term!Shimmed
  <2>4. shims' \cap NodeShims = shims \cap NodeShims
    BY <1>6, <2>3 DEF WinAssumption
  <2>5. Term!PathHolds(Bin)' <=> Term!PathHolds(Bin)
    BY <1>5 DEF Term!PathHolds, Term!Range
  <2> QED
    BY <1>5, <2>2, <2>4, <2>5
<1>14. BinUsed'
  BY <1>5 DEF BinUsed
<1>15. EntriesKept'
  <2>1. Ahead' \notin {"path", "forget"}
    BY <1>9
  <2>2. /\ (Term!Range(path))' = Term!Range(path)
        /\ (Term!Without(path, Herd \cup {Bin}))' = Term!Without(path, Herd \cup {Bin})
    BY <1>5 DEF Term!Range
  <2>3. /\ overwritten \subseteq overwritten'
        /\ Term!Entries(backup)
             \subseteq Term!Range(path) \cup Term!Entries(backup)' \cup overwritten'
    BY <1>5, CutLaws DEF WinInv
  <2> QED
    BY <1>5, <2>1, <2>2, <2>3 DEF WinInv, EntriesKept
<1>16. WinTakenBack'
  <2> SUFFICES ASSUME op.undone, ~Term!Undoing(Turn), selected # op.was
               PROVE  Ahead' = "reselect"
    BY <1>1, <1>5 DEF WinTakenBack
  <2>1. op.ok
    BY <1>2 DEF WinInv, WinTakenBack, Term!Undoing
  <2>2. op.kind = Term!SelectNode \/ (op.kind = Term!RemoveNode /\ Changing)
    BY <1>1, <2>1 DEF WinInv, WinAdvanced
  <2>3. Back(op.kind, Turn) = <<"reselect">> \/ Back(op.kind, Turn) = <<"reselect",
            "restart">>
    BY <1>4, <2>2 DEF Changing
  <2>4. <<"reselect">> # <<>> /\ <<"reselect", "restart">> # <<>>
    BY Firsts
  <2> QED
    BY <1>9, <2>3, <2>4
<1> QED
  BY <1>7, <1>10, <1>11, <1>12, <1>13, <1>14, <1>15, <1>16 DEF WinInv

\* Enabling Node again, after a version that could not be removed, keeps the invariant.
LEMMA WinRestart ==
  ASSUME WinAssumption, WinInv, Term!Restart
  PROVE  WinInv'
<1> USE DEF Term!EnablePhp, Term!DisablePhp, Term!EnableNode, Term!DisableNode,
   Term!SelectNode, Term!RemoveNode, Term!PhpKinds, Term!Kinds, Term!Enables
<1>1. /\ op'.kind = Term!EnableNode /\ op'.version = op.version
      /\ op'.was = op.was /\ op'.ok = op.ok /\ ~op'.undone /\ op'.undone \in BOOLEAN
      /\ op'.left = Term!WritePlan(Term!EnableNode)
      /\ OpShaped' /\ Turn = "restart" /\ ~Term!Idle
  BY RestartOp DEF WinInv, WinTyped, OpShaped
<1>2. op'.left = <<"shim", "path">>
  BY <1>1 DEF Term!WritePlan, Term!WindowsPlan, WinAssumption
<1>3. /\ Ahead = "restart" /\ Changing \in BOOLEAN
      /\ op.ok => \E b : <<Ahead, b>> \in WinSteps(op.kind, Changing)
      /\ ~op.ok => <<Ahead, First(Tail(op.left))>> \in WinUndoes(op.kind)
  <2>1. WinTyped /\ WinPlaced /\ ~Term!Idle
    BY <1>1 DEF WinInv
  <2> HIDE DEF Term!EnablePhp, Term!DisablePhp, Term!EnableNode, Term!DisableNode,
       Term!SelectNode, Term!RemoveNode, Term!PhpKinds, Term!Kinds, Term!Enables
  <2> QED
    BY <1>1, <2>1, WinWay
<1>4. ~op.ok
  BY <1>3 DEF WinSteps
<1>5. op.kind = Term!RemoveNode
  BY <1>3, <1>4 DEF WinUndoes
<1>6. UNCHANGED <<profile, rc, path, backup, shims, installed, selected, herd, overwritten,
                  torn>>
  BY DEF Term!Restart
<1>7. WinTyped'
  BY <1>1, <1>4, <1>6 DEF WinTyped, OpShaped, WinInv, PathEntry
<1>8. Changing'
  BY <1>1 DEF Changing
<1>9. <<"shim", "path">> # <<>> /\ First(<<"shim", "path">>) = "shim"
  BY Firsts
<1>10. ~Term!Idle' /\ Ahead' = "shim"
  BY <1>2, <1>9 DEF Term!Idle, Ahead, First
<1>11. WinPlaced'
  <2>1. WinBackward(op'.kind, op'.undone) = {<<"shim", "path">>, <<"path">>}
    BY <1>1 DEF WinBackward
  <2>2. op'.left \in WinBackward(op'.kind, op'.undone)
    BY <1>2, <2>1
  <2> QED
    BY <1>1, <1>4, <1>8, <2>2 DEF WinPlaced
<1>12. WinAdvanced'
  BY <1>1, <1>4 DEF WinAdvanced
<1>13. PhpFound'
  BY <1>5, <1>6 DEF WinInv, PhpFound, Term!PathHolds, Term!Range
<1>14. NodeFound' /\ BinUsed'
  BY <1>1, <1>8, <1>10 DEF NodeFound, BinUsed
<1>15. EntriesKept'
  <2>1. /\ (Term!Range(path))' = Term!Range(path)
        /\ (Term!Entries(backup))' = Term!Entries(backup)
        /\ (Term!Without(path, Herd \cup {Bin}))' = Term!Without(path, Herd \cup {Bin})
    BY <1>6 DEF Term!Range, Term!Entries
  <2> QED
    BY <1>6, <1>10, <2>1 DEF WinInv, EntriesKept
<1>16. WinTakenBack'
  BY <1>1 DEF WinTakenBack
<1> QED
  BY <1>7, <1>11, <1>12, <1>13, <1>14, <1>15, <1>16 DEF WinInv

\* The death of the Agent keeps the invariant.
LEMMA WinCrash ==
  ASSUME WinAssumption, WinInv, Term!Crash
  PROVE  WinInv'
<1>1. /\ op'.kind = op.kind /\ op'.version = op.version
      /\ op'.was = op.was /\ ~op'.ok /\ ~op'.undone
      /\ op'.ok \in BOOLEAN /\ op'.undone \in BOOLEAN
      /\ op'.left = <<>> /\ OpShaped' /\ ~Term!Idle
  BY CrashOp DEF WinInv, WinTyped, OpShaped
<1>2. /\ UNCHANGED <<profile, rc, path, shims, installed, selected, herd>>
      /\ torn' = torn \cup {Term!Integration(op.kind)} /\ Term!CutBackup(Turn)
  BY DEF Term!Crash, Turn
<1>3. WinTyped'
  <2>1. torn' \subseteq {"php", "node"}
    BY <1>2 DEF WinInv, WinTyped, Term!Integration
  <2>2. backup' \in Seq(Saved(Herd))
    BY <1>2, CutLaws DEF WinInv
  <2> QED
    BY <1>1, <1>2, <2>1, <2>2 DEF WinTyped, OpShaped, WinInv, PathEntry
<1>4. WinPlaced' /\ WinAdvanced' /\ WinTakenBack' /\ Ahead' = "end"
  BY <1>1 DEF WinPlaced, WinAdvanced, WinTakenBack, Ahead
<1>5. Term!PathHolds(Bin)' <=> Term!PathHolds(Bin)
  BY <1>2 DEF Term!PathHolds, Term!Range
<1>6. PhpFound'
  <2>1. op.kind \notin Term!PhpKinds => backup' = backup
    BY <1>1, <1>2, CutLaws, BackupOfPhp DEF WinInv, Term!PhpKinds
  <2>2. op.kind \in Term!PhpKinds => "php" \in torn'
    BY <1>2 DEF Term!Integration
  <2> QED
    BY <1>2, <1>5, <2>1, <2>2 DEF WinInv, PhpFound
<1>7. NodeFound'
  BY <1>2, <1>5 DEF WinInv, NodeFound, Term!Integration
<1>8. BinUsed'
  BY <1>2 DEF BinUsed
<1>9. EntriesKept'
  <2>1. /\ (Term!Range(path))' = Term!Range(path)
        /\ (Term!Without(path, Herd \cup {Bin}))' = Term!Without(path, Herd \cup {Bin})
    BY <1>2 DEF Term!Range
  <2>2. /\ overwritten \subseteq overwritten'
        /\ Term!Entries(backup)
             \subseteq Term!Range(path) \cup Term!Entries(backup)' \cup overwritten'
    BY <1>2, CutLaws DEF WinInv
  <2> QED
    BY <1>2, <1>4, <2>1, <2>2 DEF WinInv, EntriesKept
<1> QED
  BY <1>3, <1>4, <1>6, <1>7, <1>8, <1>9 DEF WinInv

\* An edit that leaves the entries of PATH, the common one's place among them and the
\* installed versions there keeps the invariant.
LEMMA WinEdit ==
  ASSUME WinInv, Term!Edit, UNCHANGED <<profile, rc>>, path' \in Seq(PathEntry),
         Term!Range(path) \subseteq Term!Range(path'),
         Bin \in Term!Range(path') => Bin \in Term!Range(path),
         Term!Without(path', Herd \cup {Bin}) = Term!Without(path, Herd \cup {Bin}),
         installed \subseteq installed', installed' \subseteq Versions,
         herd' = [profile |-> herd'.profile, rc |-> herd'.rc], herd'.rc \subseteq Herd,
         herd'.rc \subseteq herd.rc \cup Term!Range(path')
  PROVE  WinInv'
<1>1. /\ op'.kind = op.kind /\ op'.version = op.version
      /\ op'.was = op.was /\ op'.ok = op.ok /\ ~op'.undone /\ op'.undone \in BOOLEAN
      /\ op'.left = <<>>
      /\ OpShaped' /\ Term!Idle /\ Term!Idle' /\ UNCHANGED <<shims, selected, torn>>
  BY EditOp DEF WinInv, WinTyped, OpShaped
<1>2. UNCHANGED <<backup, overwritten>>
  BY DEF Term!Edit
<1>3. WinTyped'
  BY <1>1, <1>2 DEF WinTyped, OpShaped, WinInv, PathEntry
<1>4. WinPlaced' /\ WinAdvanced' /\ WinTakenBack' /\ Ahead' = "end"
  BY <1>1 DEF WinPlaced, WinAdvanced, WinTakenBack, Ahead
<1>5. Term!PathHolds(Bin)' <=> Term!PathHolds(Bin)
  BY DEF Term!PathHolds, Term!Range
<1>6. PhpFound'
  BY <1>1, <1>2, <1>5 DEF WinInv, PhpFound
<1>7. NodeFound'
  BY <1>1, <1>5 DEF WinInv, NodeFound
<1>8. BinUsed'
  BY <1>1, <1>5 DEF WinInv, BinUsed
<1>9. EntriesKept'
  <2>1. /\ (Term!Range(path))' = Term!Range(path')
        /\ (Term!Entries(backup))' = Term!Entries(backup)
        /\ (Term!Without(path, Herd \cup {Bin}))' = Term!Without(path', Herd \cup {Bin})
    BY <1>2 DEF Term!Range, Term!Entries
  <2> QED
    BY <1>2, <1>4, <2>1 DEF WinInv, EntriesKept
<1> QED
  BY <1>3, <1>4, <1>6, <1>7, <1>8, <1>9 DEF WinInv

\* The return of Herd is such an edit.
LEMMA WinHerdReturns ==
  ASSUME WinAssumption, WinInv, NEW entry \in Herd, Term!HerdReturns(entry)
  PROVE  WinInv'
<1> DEFINE new == <<entry>> \o path
           D == Herd \cup {Bin}
<1>1. /\ Term!Edit /\ installed' = installed /\ UNCHANGED <<profile, rc>>
      /\ path' = new /\ herd' = [herd EXCEPT !.rc = @ \cup {entry}]
  BY DEF Term!HerdReturns, WinAssumption
<1>2. entry \in PathEntry /\ entry \in D /\ path \in Seq(PathEntry) /\ entry # Bin
  BY DEF PathEntry, WinInv, WinTyped, WinAssumption
<1> HIDE DEF D
<1>3. /\ new \in Seq(PathEntry) /\ Term!Range(new) = Term!Range(path) \cup {entry}
      /\ Term!Without(new, D) = Term!Without(path, D)
  BY <1>2, FrontLaws
<1> HIDE DEF new
<1>4. /\ path' \in Seq(PathEntry) /\ Term!Range(path) \subseteq Term!Range(path')
      /\ Bin \in Term!Range(path') => Bin \in Term!Range(path)
      /\ Term!Without(path', D) = Term!Without(path, D)
      /\ entry \in Term!Range(path')
  BY <1>1, <1>2, <1>3
<1>5. /\ herd' = [profile |-> herd'.profile, rc |-> herd'.rc]
      /\ herd'.rc = herd.rc \cup {entry} /\ herd.rc \subseteq Herd
  BY <1>1 DEF WinInv, WinTyped
<1>6. installed \subseteq Versions
  BY DEF WinInv, WinTyped
<1> QED
  BY <1>1, <1>4, <1>5, <1>6, WinEdit DEF D

\* The installation of a version is one.
LEMMA WinInstall ==
  ASSUME WinAssumption, WinInv, NEW v \in Versions \ installed, Term!Install(v)
  PROVE  WinInv'
<1>1. Term!Edit /\ UNCHANGED <<profile, rc, path, herd>> /\ installed' = installed \cup {v}
  BY DEF Term!Install
<1>2. /\ path' \in Seq(PathEntry) /\ installed' \subseteq Versions
      /\ herd' = [profile |-> herd'.profile, rc |-> herd'.rc] /\ herd'.rc \subseteq Herd
      /\ herd'.rc = herd.rc
  BY <1>1 DEF WinInv, WinTyped
<1>3. Term!Range(path') = Term!Range(path)
        /\ Term!Without(path', Herd \cup {Bin}) = Term!Without(path, Herd \cup {Bin})
  BY <1>1
<1> QED
  BY <1>1, <1>2, <1>3, WinEdit

\* A step that changes nothing keeps the invariant.
LEMMA WinStutter ==
  ASSUME WinInv, UNCHANGED Term!vars
  PROVE  WinInv'
<1>1. UNCHANGED <<profile, rc, path, backup, shims, installed, selected, op, herd,
                  overwritten, torn>>
  BY DEF Term!vars
<1>2. WinTyped' /\ WinPlaced' /\ WinTakenBack'
  BY <1>1 DEF WinInv, WinTyped, WinPlaced, WinTakenBack, Changing, Ahead, PathEntry
<1>3. WinAdvanced'
  BY <1>1 DEF WinInv, WinAdvanced, Term!Idle, Changing, Ahead, Term!PathHolds, Term!Range
<1>4. PhpFound' /\ NodeFound' /\ BinUsed'
  BY <1>1 DEF WinInv, PhpFound, NodeFound, BinUsed, Term!Idle, Changing, Term!PathHolds,
     Term!Range
<1>5. EntriesKept'
  <2>1. /\ (Term!Range(path))' = Term!Range(path)
        /\ (Term!Entries(backup))' = Term!Entries(backup)
        /\ (Term!Without(path, Herd \cup {Bin}))' = Term!Without(path, Herd \cup {Bin})
        /\ Ahead' = Ahead
    BY <1>1 DEF Term!Range, Term!Entries, Ahead
  <2> QED
    BY <1>1, <2>1 DEF WinInv, EntriesKept
<1> QED
  BY <1>2, <1>3, <1>4, <1>5 DEF WinInv

\* A step that goes through keeps the invariant.
LEMMA WinStep ==
  ASSUME WinAssumption, WinInv, Term!Step
  PROVE  WinInv'
<1>1. WinStepFacts /\ OpShaped'
  BY WinStepSays DEF WinInv
<1>2. WinPlaced'
  BY <1>1 DEF WinStepFacts
<1> QED
  BY <1>1, <1>2, WinStepTyped, WinStepAdvanced, WinStepPhp, WinStepNode, WinStepBin,
     WinStepEntries, WinStepTakenBack DEF WinInv

\* A finite set as a list.
LEMMA SetLists ==
  ASSUME NEW S, IsFiniteSet(S)
  PROVE  Term!SetToSeq(S) \in Seq(S) /\ Term!Range(Term!SetToSeq(S)) = S
<1> DEFINE n == Cardinality(S)
           Good(f) == f \in [1..n -> S] /\ Term!IsInjective(f)
           s == Term!SetToSeq(S)
<1>1. n \in Nat /\ ExistsBijection(1..n, S)
  BY FS_CardinalityType
<1>2. Term!Cardinality(S) = Cardinality(S)
  BY DEF Term!Cardinality, Cardinality
<1>3. s = CHOOSE f : Good(f)
  BY <1>2 DEF Term!SetToSeq
<1>4. \A f : Term!IsInjective(f) <=> IsInjective(f)
  BY DEF Term!IsInjective, IsInjective
<1> HIDE DEF n, s
<1>5. \E f : Good(f)
  BY <1>1, <1>4 DEF ExistsBijection, Bijection, Injection
<1>6. Good(s)
  <2> HIDE DEF Good
  <2> QED
    BY <1>3, <1>5
<1>7. s \in Injection(1..n, S)
  BY <1>4, <1>6 DEF Injection
<1>8. IsFiniteSet(1..n) /\ Cardinality(1..n) = n
  BY <1>1, FS_Interval
<1>9. s \in Surjection(1..n, S)
  BY <1>7, <1>8, FS_Injection DEF n
<1>10. s \in Seq(S)
  BY <1>1, <1>6
<1>11. Term!Range(s) = S
  BY <1>6, <1>9 DEF Term!Range, Surjection
<1> QED
  BY <1>10, <1>11 DEF s

\* The invariant holds before the first request.
LEMMA WinInit ==
  ASSUME WinAssumption, Term!Init
  PROVE  WinInv
<1> DEFINE new == [php |-> FALSE, node |-> FALSE, active |-> {}, disabled |-> {},
                   cut |-> "no"]
           D == Herd \cup {Bin}
<1>1. PICK lines \in SUBSET Herd :
        /\ profile = new /\ rc = [profile EXCEPT !.active = {}]
        /\ path = Term!SetToSeq(lines) \o Own /\ herd = [profile |-> {}, rc |-> lines]
  BY DEF Term!Init, WinAssumption
<1>2. /\ profile \in Term!File /\ profile.cut = "no"
      /\ rc \in Term!File /\ rc.cut = "no"
  BY <1>1 DEF Term!File, Term!Cuts
<1>3. /\ op.kind = Term!DisablePhp /\ op.left = <<>> /\ op.ok = TRUE
      /\ op.version = None /\ op.was = None /\ op.undone = TRUE /\ OpShaped
  BY DEF Term!Init, OpShaped
<1>4. /\ shims = {} /\ installed = Versions /\ selected = None /\ torn = {}
      /\ backup = <<>> /\ overwritten = {}
  BY DEF Term!Init
<1> DEFINE s == Term!SetToSeq(lines)
<1>5. IsFiniteSet(lines)
  BY FS_Subset DEF WinAssumption
<1>6. s \in Seq(lines) /\ Term!Range(s) = lines
  BY <1>5, SetLists
<1>7. s \in Seq(PathEntry) /\ Own \in Seq(PathEntry)
  BY <1>6 DEF PathEntry, WinAssumption
<1> HIDE DEF s
<1>8. path = s \o Own /\ path \in Seq(PathEntry)
  BY <1>1, <1>7 DEF s
<1>9. Term!Range(path) = lines \cup Term!Range(Own)
  BY <1>6, <1>7, <1>8, Ranges
<1>10. Bin \notin Term!Range(path)
  BY <1>9 DEF WinAssumption
<1>11. Term!Without(path, D) = Own
  <2>1. Term!Range(s) \subseteq D /\ Term!Range(Own) \cap D = {}
    BY <1>6 DEF WinAssumption
  <2> HIDE DEF D
  <2>2. Term!Without(s, D) = <<>> /\ Term!Without(Own, D) = Own
    BY <1>7, <2>1, WithoutAll, WithoutNothing
  <2>3. Term!Without(path, D) = Term!Without(s, D) \o Term!Without(Own, D)
    BY <1>7, <1>8, WithoutCat
  <2> QED
    BY <1>7, <2>2, <2>3
<1>12. WinTyped
  <2>1. backup \in Seq(Saved(Herd))
    BY <1>4
  <2>2. herd = [profile |-> herd.profile, rc |-> herd.rc] /\ herd.rc \subseteq Herd
    BY <1>1
  <2>3. /\ op.kind \in Term!Kinds /\ op.ok \in BOOLEAN /\ op.undone \in BOOLEAN
        /\ op.version \in Versions \cup {None} /\ op.was \in Versions \cup {None}
    BY <1>3 DEF Term!Kinds, Term!PhpKinds
  <2>4. /\ shims \subseteq {Term!Php} \cup NodeShims /\ torn \subseteq {"php", "node"}
        /\ installed \subseteq Versions /\ selected \in Versions \cup {None}
    BY <1>4
  <2> QED
    BY <1>2, <1>3, <1>8, <2>1, <2>2, <2>3, <2>4 DEF WinTyped, OpShaped
<1>13. Term!Idle /\ Ahead = "end"
  BY <1>3 DEF Term!Idle, Ahead
<1>14. PhpFound /\ NodeFound /\ BinUsed
  BY <1>4, <1>10 DEF PhpFound, NodeFound, BinUsed, Term!PathHolds, WinAssumption
<1>15. EntriesKept
  <2>1. herd.rc = lines
    BY <1>1
  <2> QED
    BY <1>9, <1>11, <1>13, <2>1 DEF EntriesKept
<1> QED
  BY <1>3, <1>12, <1>13, <1>14, <1>15 DEF WinInv, WinPlaced, WinAdvanced, WinTakenBack

\* Every step keeps the invariant.
LEMMA WinNext ==
  ASSUME WinAssumption, WinInv, Term!Next
  PROVE  WinInv'
<1>1. \A kind \in {"php", "node"} : ~Term!CutMarker(kind)
  BY DEF Term!CutMarker, WinAssumption
<1> QED
  BY <1>1, WinAsk, WinStep, WinFail, WinRestart, WinCrash, WinHerdReturns, WinInstall,
     WinStutter DEF Term!Next, Term!Done

\* The invariant holds throughout.
LEMMA WinInvariance ==
  ASSUME WinAssumption
  PROVE  Term!Spec => []WinInv
<1>1. Term!Init => WinInv
  BY WinInit
<1>2. WinInv /\ [Term!Next]_Term!vars => WinInv'
  BY WinNext, WinStutter
<1> QED
  BY <1>1, <1>2, PTL DEF Term!Spec

\* It implies the types and what the run checks.
LEMMA WinShows ==
  ASSUME WinAssumption, WinInv
  PROVE  Term!TypeOK /\ Term!CommandsThere /\ Term!TheirsKept /\ Term!FailedChangeKeeps
<1> USE DEF WinInv
<1>1. Term!TypeOK
  BY DEF WinTyped, Term!TypeOK, PathEntry
<1>2. Term!IntegrationWhole
  BY DEF Term!IntegrationWhole, PhpFound, NodeFound, BinUsed, WinAssumption, WinTyped
<1>3. Term!EnabledNodeRuns
  BY DEF Term!EnabledNodeRuns, Term!NodeOn, NodeFound
<1>4. Term!TheirsKept
  BY DEF Term!TheirsKept, EntriesKept, WinAssumption
<1>5. Term!FailedChangeKeeps
  BY DEF Term!FailedChangeKeeps, WinTakenBack, Ahead, Term!Idle, WinAssumption
<1> QED
  BY <1>1, <1>2, <1>3, <1>4, <1>5 DEF Term!CommandsThere

\* On Windows, for any shims, versions, entries of Herd and of the user's own and numbers
\* of changes and faults: the common entry is in PATH while there is a shim for it and no
\* longer, `node` has a version to run (CommandsThere), no entry of Herd's or of the
\* user's own is lost (TheirsKept), and a change that fails selects no version
\* (FailedChangeKeeps).
THEOREM WindowsPathHolds ==
  ASSUME WinAssumption
  PROVE  Term!Spec
           => [](Term!TypeOK /\ Term!CommandsThere /\ Term!TheirsKept
           /\ Term!FailedChangeKeeps)
<1>1. WinInv => Term!TypeOK /\ Term!CommandsThere /\ Term!TheirsKept
        /\ Term!FailedChangeKeeps
  BY WinShows
<1> QED
  BY <1>1, WinInvariance, PTL
=============================================================================
