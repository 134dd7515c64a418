------------------------ MODULE RuntimeCatalogProofs ------------------------
(***************************************************************************)
(* What checks for Runtime updates accept, cache and answer, for any       *)
(* number of releases, restarts and failures; and what the checks offer    *)
(* and the receipts say of the packages, for any number of builds.         *)
(***************************************************************************)
EXTENDS RuntimeCatalog, Naturals, Sequences, NaturalsInduction, WellFoundedInduction, TLAPS

\* RuntimeOffers' own; what it shares with RuntimeCatalog by name stands for one of the
\* two at a time.
CONSTANTS
  Windows, OsVersion, App, Protocol, Versions, Listed, EntryFlaws, ReleaseFlaws,
  DocumentFlaws, MaxBuilds, MaxPublished, MaxTime, None
VARIABLES
  built, feed, accepted, dirs, removed, receipts, operations, bundle, clock, guessed, taken

Offers == INSTANCE RuntimeOffers

-----------------------------------------------------------------------------
(* Types, for any number of overlapping checks.                            *)

\* At first there are no files and no checks.
LEMMA TypeInit == Init => TypeOK /\ CatalogHeld
  <1> SUFFICES ASSUME Init PROVE TypeOK /\ CatalogHeld
    OBVIOUS
  <1>1. published \in 0..MaxSequence /\ crashes \in 0..MaxCrashes
    BY BoundsAssumption DEF Init
  <1>2. CatalogHeld
    BY DEF Init, CatalogHeld
  <1> QED
    BY <1>1, <1>2 DEF Init, TypeOK, States, Files

\* The files a catalog can be in.
LEMMA FileOfTyped == \A catalog \in Catalogs : FileOf(catalog) \in Files
  BY DEF Catalogs, FileOf, Files

\* What the endpoints serve are catalogs.
LEMMA Published ==
  ASSUME TypeOK
  PROVE  /\ [schema |-> 1, sequence |-> 1] \in Catalogs
         /\ \A n \in 1..published : [schema |-> 2, sequence |-> n] \in Catalogs
  BY BoundsAssumption DEF TypeOK, Catalogs

\* What a check creates and completes are inodes.
LEMMA InodeTyped ==
  \A catalog \in Catalogs, whole \in BOOLEAN, writer \in Checks \cup {Nothing} :
    [catalog |-> catalog, whole |-> whole, writer |-> writer] \in Inodes
  BY DEF Inodes

\* Writing to an inode leaves an inode.
LEMMA WrittenTyped ==
  ASSUME NEW c \in Checks, NEW inode \in Inodes \cup {Nothing}
  PROVE  Written(inode, c) \in Inodes \cup {Nothing}
  BY DEF Written, Inodes

\* Every step of a check keeps the types.
LEMMA CheckTyped ==
  ASSUME TypeOK, CatalogHeld, NEW c \in Checks, Check(c)
  PROVE  TypeOK' /\ CatalogHeld'
  <1> USE NothingAssumption, BoundsAssumption, FileOfTyped
      DEF TypeOK, CatalogHeld, States, Inodes, Goto, diskVars, checkVars, history
  <1>1. CASE Load(c)
    BY <1>1 DEF Load, Files
  <1>2. CASE FetchV2(c)
    BY <1>2, Published DEF FetchV2, Fetched, FetchedAcceptable, Acceptable
  <1>3. CASE FetchV2Fails(c)
    BY <1>3 DEF FetchV2Fails
  <1>4. CASE FetchV1(c)
    BY <1>4, Published DEF FetchV1, Fetched, FetchedAcceptable, Acceptable
  <1>5. CASE FetchV1Fails(c)
    BY <1>5 DEF FetchV1Fails
  <1>6. CASE CreatePart(c)
    BY <1>6 DEF CreatePart
  <1>7. CASE WritePart(c)
    BY <1>7, WrittenTyped DEF WritePart
  <1>8. CASE RemoveTarget(c)
    BY <1>8 DEF RemoveTarget
  <1>9. CASE RenamePart(c)
    BY <1>9 DEF RenamePart, Answer, Files
  <1>10. CASE WriteFails(c)
    BY <1>10 DEF WriteFails
  <1>11. CASE LoadCached(c)
    BY <1>11 DEF LoadCached, Answer, Files
  <1>12. CASE ReadCached(c)
    BY <1>12 DEF ReadCached, Answer, Files, CachedFile
  <1> QED
    BY <1>1, <1>2, <1>3, <1>4, <1>5, <1>6, <1>7, <1>8, <1>9, <1>10, <1>11, <1>12 DEF Check

\* Type correctness of every reachable state.
LEMMA TypeStep == TypeOK /\ CatalogHeld /\ [Next]_vars => (TypeOK /\ CatalogHeld)'
  <1> SUFFICES ASSUME TypeOK, CatalogHeld, [Next]_vars PROVE TypeOK' /\ CatalogHeld'
    OBVIOUS
  <1>1. CASE Publish
    BY <1>1, BoundsAssumption DEF Publish, TypeOK, CatalogHeld, diskVars, checkVars, history
  <1>2. CASE Restart
    <2>1. file' \in [Files -> Inodes \cup {Nothing}]
      BY <1>2 DEF Restart, TypeOK, Inodes
    <2> QED
      BY <1>2, <2>1, BoundsAssumption DEF Restart, TypeOK, CatalogHeld, States, Files
  <1>3. CASE UNCHANGED vars
    BY <1>3 DEF vars, TypeOK, CatalogHeld, diskVars, checkVars, history
  <1> QED
    BY <1>1, <1>2, <1>3, CheckTyped DEF Next

\* Every path, check and answer has its type, however checks overlap.
THEOREM TypeCorrect == Spec => []TypeOK
  BY TypeInit, TypeStep, PTL DEF Spec

-----------------------------------------------------------------------------
(* One check after the other.                                              *)

\* At first nothing is accepted.
LEMMA InvInit == Init => Inv
  <1> SUFFICES ASSUME Init PROVE Inv
    OBVIOUS
  <1>1. file["accepted"] = Nothing /\ \A c \in Checks : pc[c] = "idle"
    BY DEF Init, Files
  <1>2. FilesWhole /\ CatalogCoversAccepted /\ AnswersCoverAccepted
    BY <1>1 DEF Init, FilesWhole, CatalogCoversAccepted, AnswersCoverAccepted
  <1>3. KnowsAccepted /\ PersistsNewer /\ PeakHeld
    BY <1>1 DEF Init, KnowsAccepted, PersistsNewer, PeakHeld, LosesAccepted, Online, Persisting
  <1> QED
    BY <1>2, <1>3, TypeInit DEF Inv

\* Of one check, what holds of it holds of every check, in a step as well.
LEMMA OfTheCheck ==
  ASSUME OneAtATime, Inv, NEW c \in Checks, Check(c)
  PROVE  TypeOK' /\ CatalogHeld' /\ \A d \in Checks : d = c
  BY CheckTyped DEF Inv, OneAtATime

\* Nobody reads a ".part".
LEMMA CreatePartInv == ASSUME OneAtATime, Inv, NEW c \in Checks, CreatePart(c) PROVE Inv'
  <1>1. /\ pc[c] = "creating" /\ pc'[c] = "writing"
        /\ part'[at[c]] = [catalog |-> got[c], whole |-> FALSE, writer |-> c]
        /\ UNCHANGED <<file, known, got, at, answered, peak, lost>> /\ got[c] \in Catalogs
    BY DEF CreatePart, Goto, history, Inv, TypeOK, CatalogHeld
  <1>2. TypeOK' /\ CatalogHeld' /\ \A d \in Checks : d = c
    BY OfTheCheck DEF Check
  <1>3. FilesWhole' /\ CatalogCoversAccepted' /\ AnswersCoverAccepted'
    BY <1>1 DEF Inv, FilesWhole, CatalogCoversAccepted, AnswersCoverAccepted
  <1>4. KnowsAccepted' /\ PeakHeld'
    BY <1>1, <1>2 DEF Inv, KnowsAccepted, PeakHeld, LosesAccepted, Online
  <1>5. part'[at[c]] # Nothing
    BY <1>1, InodeTyped, NothingAssumption
  <1>6. PersistsNewer'
    BY <1>1, <1>2, <1>5 DEF Inv, PersistsNewer, Persisting
  <1> QED
    BY <1>2, <1>3, <1>4, <1>6 DEF Inv

\* The one who wrote it is the only writer: files in place stay as they are.
LEMMA WritePartInv == ASSUME OneAtATime, Inv, NEW c \in Checks, WritePart(c) PROVE Inv'
  <1>1. /\ pc[c] = "writing" /\ pc'[c] = "removing"
        /\ part'[at[c]] = Written(part[at[c]], c)
        /\ file' = [file EXCEPT ![at[c]] = Written(file[at[c]], c)]
        /\ UNCHANGED <<known, got, at, answered, peak, lost>>
    BY DEF WritePart, Goto, history, Inv, TypeOK
  <1>2. TypeOK' /\ CatalogHeld' /\ \A d \in Checks : d = c
    BY OfTheCheck DEF Check
  <1>3. Written(file[at[c]], c) = file[at[c]]
    BY NothingAssumption DEF Written, Inv, FilesWhole, TypeOK
  <1>4. file' = file
    BY <1>1, <1>3 DEF Inv, TypeOK
  <1>5. /\ part'[at[c]] # Nothing /\ part'[at[c]].catalog = got[c]
        /\ part'[at[c]].whole /\ part'[at[c]].writer = Nothing
    <2>1. /\ part[at[c]] \in Inodes /\ part[at[c]] # Nothing
          /\ part[at[c]].catalog = got[c] /\ part[at[c]].writer = c
      BY <1>1 DEF Inv, TypeOK, PersistsNewer, Persisting
    <2>2. part'[at[c]] = [part[at[c]] EXCEPT !.whole = TRUE, !.writer = Nothing]
      BY <1>1, <2>1 DEF Written
    <2>3. part'[at[c]] \in Inodes
      BY <2>1, <2>2 DEF Inodes
    <2> QED
      BY <2>1, <2>2, <2>3, NothingAssumption DEF Inodes
  <1>6. FilesWhole' /\ CatalogCoversAccepted' /\ AnswersCoverAccepted'
    BY <1>1, <1>4 DEF Inv, FilesWhole, CatalogCoversAccepted, AnswersCoverAccepted
  <1>7. KnowsAccepted' /\ PeakHeld'
    BY <1>1, <1>2, <1>4 DEF Inv, KnowsAccepted, PeakHeld, LosesAccepted, Online
  <1>8. PersistsNewer'
    BY <1>1, <1>2, <1>4, <1>5 DEF Inv, PersistsNewer, Persisting
  <1> QED
    BY <1>2, <1>6, <1>7, <1>8 DEF Inv

\* A catalog file in place is at least as new as the accepted state; the accepted
\* state in place is the catalog file's, and not older than the one before.
LEMMA RenamePartInv == ASSUME OneAtATime, Inv, NEW c \in Checks, RenamePart(c) PROVE Inv'
  <1>1. PICK catalog \in Catalogs : catalog = got[c]
    BY DEF Inv, TypeOK, CatalogHeld, RenamePart
  <1>0. PICK inode \in Inodes : inode = part[at[c]]
    BY DEF RenamePart, Inv, TypeOK
  <1>2. /\ pc[c] = "renaming" /\ file[at[c]] = Nothing
        /\ inode.catalog = catalog /\ inode.whole /\ inode.writer = Nothing
        /\ at[c] \in {FileOf(catalog), "accepted"}
        /\ known[c] = Nothing \/ NotOlder(catalog, known[c])
    BY <1>0, <1>1 DEF RenamePart, Inv, PersistsNewer, Persisting
  <1>3. inode # Nothing
    BY NothingAssumption
  <1>4. TypeOK' /\ CatalogHeld' /\ \A d \in Checks : d = c
    BY OfTheCheck DEF Check
  <1>5. file' = [file EXCEPT ![at[c]] = inode] /\ lost' = lost
    BY <1>0 DEF RenamePart
  <1>6. FileOf(catalog) \in {"v1", "v2"} /\ FileOf(catalog) \in Files
    BY DEF FileOf, Files
  <1>7. FilesWhole'
    BY <1>2, <1>5 DEF Inv, FilesWhole, TypeOK
  <1>8. CASE at[c] = "accepted"
    <2>1. /\ file'["accepted"] = inode /\ file'[FileOf(catalog)] = file[FileOf(catalog)]
          /\ file[FileOf(catalog)] # Nothing /\ file[FileOf(catalog)].catalog = catalog
          /\ file[FileOf(catalog)].whole
      BY <1>1, <1>2, <1>5, <1>6, <1>8
         DEF Inv, TypeOK, PersistsNewer, Persisting, Files, FilesWhole
    <2>2. peak' = catalog /\ answered' = catalog /\ pc'[c] = "idle"
      BY <1>1, <1>8 DEF RenamePart, Answer, Goto, Inv, TypeOK
    <2>3. catalog # Nothing /\ NotOlder(catalog, catalog)
      BY NothingAssumption, BoundsAssumption DEF NotOlder, Acceptable, Catalogs
    <2>4. CatalogCoversAccepted' /\ AnswersCoverAccepted'
      BY <2>1, <2>2, <2>3, <1>2 DEF CatalogCoversAccepted, AnswersCoverAccepted, NotOlder
    <2>5. KnowsAccepted' /\ PersistsNewer'
      BY <2>2, <1>4 DEF KnowsAccepted, PersistsNewer, Online, Persisting
    <2>6. PeakHeld'
      BY <2>1, <2>2, <1>2, <1>3, <1>4 DEF PeakHeld, LosesAccepted
    <2> QED
      BY <1>4, <1>7, <2>4, <2>5, <2>6 DEF Inv
  <1>9. CASE at[c] # "accepted"
    <2>1. /\ at[c] = FileOf(catalog) /\ file'["accepted"] = file["accepted"]
          /\ \A f \in Files \ {FileOf(catalog)} : file'[f] = file[f]
          /\ file'[FileOf(catalog)] = inode
      BY <1>2, <1>5, <1>6, <1>9 DEF Inv, TypeOK, Files
    <2>2. /\ pc'[c] = "creating" /\ at'[c] = "accepted"
          /\ UNCHANGED <<known, got, answered, peak>>
      BY <1>9 DEF RenamePart, Goto, Inv, TypeOK
    <2>3. known[c] = IF file["accepted"] = Nothing THEN Nothing ELSE file["accepted"].catalog
      BY <1>2, <1>9 DEF Inv, KnowsAccepted, Online, LosesAccepted
    <2>4. CatalogCoversAccepted'
      <3> SUFFICES ASSUME file["accepted"] # Nothing,
                          file'[FileOf(known[c])] # Nothing
                   PROVE  file'[FileOf(known[c])].whole
                          /\ Acceptable(file'[FileOf(known[c])].catalog, known[c])
        BY <2>1, <2>3 DEF CatalogCoversAccepted
      <3>1. CASE FileOf(known[c]) = FileOf(catalog)
        <4>1. known[c] # Nothing
          BY <2>3, NothingAssumption DEF Inv, TypeOK, Inodes, Files
        <4>2. Acceptable(catalog, known[c])
          BY <4>1, <1>2 DEF NotOlder
        <4> QED
          BY <3>1, <4>2, <2>1, <1>2
      <3>2. CASE FileOf(known[c]) # FileOf(catalog)
        BY <3>2, <2>1, <2>3 DEF Inv, CatalogCoversAccepted, FileOf, Files
      <3> QED
        BY <3>1, <3>2
    <2>5. AnswersCoverAccepted'
      BY <1>5, <2>2 DEF Inv, AnswersCoverAccepted
    <2>6. KnowsAccepted'
      BY <1>4, <2>1, <2>2, <2>3 DEF KnowsAccepted, Online, LosesAccepted
    <2>7. PersistsNewer'
      BY <1>1, <1>2, <1>3, <1>4, <2>1, <2>2 DEF PersistsNewer, Persisting
    <2>8. PeakHeld'
      BY <1>2, <1>4, <1>5, <1>9, <2>1, <2>2 DEF Inv, PeakHeld, LosesAccepted
    <2> QED
      BY <1>4, <1>7, <2>4, <2>5, <2>6, <2>7, <2>8 DEF Inv
  <1> QED
    BY <1>8, <1>9

\* A failed write leaves the accepted state or is what lost it.
LEMMA WriteFailsInv == ASSUME OneAtATime, Inv, NEW c \in Checks, WriteFails(c) PROVE Inv'
  <1>1. /\ pc'[c] = "cached" /\ lost' = (lost \/ LosesAccepted(c))
        /\ UNCHANGED <<file, part, known, got, at, answered, peak>>
    BY DEF WriteFails, Goto, diskVars, Inv, TypeOK
  <1>2. TypeOK' /\ CatalogHeld' /\ \A d \in Checks : d = c
    BY OfTheCheck DEF Check
  <1>3. lost \in BOOLEAN
    BY DEF Inv, TypeOK
  <1>4. FilesWhole' /\ CatalogCoversAccepted' /\ AnswersCoverAccepted'
    BY <1>1, <1>3 DEF Inv, FilesWhole, CatalogCoversAccepted, AnswersCoverAccepted
  <1>5. KnowsAccepted' /\ PersistsNewer'
    BY <1>1, <1>2 DEF KnowsAccepted, PersistsNewer, Online, Persisting
  <1>6. PeakHeld'
    BY <1>1, <1>2, <1>3 DEF Inv, PeakHeld, LosesAccepted
  <1> QED
    BY <1>2, <1>4, <1>5, <1>6 DEF Inv

\* The accepted state that is about to be replaced is the one the check knows.
LEMMA RemoveTargetInv == ASSUME OneAtATime, Inv, NEW c \in Checks, RemoveTarget(c) PROVE Inv'
  <1>1. /\ pc[c] = "removing" /\ pc'[c] = "renaming" /\ at[c] \in Files
        /\ file'[at[c]] = Nothing /\ \A f \in Files \ {at[c]} : file'[f] = file[f]
        /\ UNCHANGED <<part, known, got, at, answered, peak, lost>>
    BY DEF RemoveTarget, Goto, history, Inv, TypeOK
  <1>2. TypeOK' /\ CatalogHeld' /\ \A d \in Checks : d = c
    BY OfTheCheck DEF Check
  <1>3. "accepted" \in Files /\ \A x : FileOf(x) \in Files /\ FileOf(x) # "accepted"
    BY DEF Files, FileOf
  <1>4. /\ known[c] = IF file["accepted"] = Nothing THEN Nothing ELSE file["accepted"].catalog
        /\ ~LosesAccepted(c)
    BY <1>1 DEF Inv, KnowsAccepted, Online, LosesAccepted
  <1>5. FilesWhole'
    BY <1>1 DEF Inv, FilesWhole
  <1>6. CatalogCoversAccepted' /\ AnswersCoverAccepted'
    BY <1>1, <1>3 DEF Inv, CatalogCoversAccepted, AnswersCoverAccepted
  <1>7. KnowsAccepted'
    BY <1>1, <1>2, <1>3, <1>4 DEF KnowsAccepted, LosesAccepted
  <1>8. PersistsNewer'
    BY <1>1, <1>2, <1>3 DEF Inv, PersistsNewer, Persisting
  <1>9. PeakHeld'
    <2>1. ~lost => peak = known[c]
      BY <1>2, <1>4 DEF Inv, PeakHeld
    <2> QED
      BY <1>1, <1>2, <1>3, <1>4, <2>1 DEF PeakHeld, LosesAccepted
  <1> QED
    BY <1>2, <1>5, <1>6, <1>7, <1>8, <1>9 DEF Inv

\* What answers from the cache is not older than the accepted state read before.
LEMMA ReadCachedInv == ASSUME OneAtATime, Inv, NEW c \in Checks, ReadCached(c) PROVE Inv'
  <1> DEFINE inode == file[FileOf(known[c])]
  <1>1. /\ pc[c] = "reading" /\ pc'[c] = "idle"
        /\ UNCHANGED <<file, part, peak, lost>>
        /\ \/ answered' = Nothing
           \/ /\ answered' = inode.catalog /\ inode # Nothing
              /\ Acceptable(inode.catalog, known[c])
    BY DEF ReadCached, CachedFile, Answer, Goto, diskVars, history, Inv, TypeOK
  <1>2. TypeOK' /\ CatalogHeld' /\ \A d \in Checks : d = c
    BY OfTheCheck DEF Check
  <1>3. /\ file["accepted"] # Nothing /\ known[c] = file["accepted"].catalog
        /\ known[c] \in Catalogs
    BY <1>1 DEF Inv, KnowsAccepted, CatalogHeld, TypeOK
  <1>4. ~lost => peak = known[c]
    BY <1>1, <1>2, <1>3 DEF Inv, PeakHeld, LosesAccepted
  <1>5. AnswersCoverAccepted'
    <2>1. CASE answered' = Nothing
      BY <2>1 DEF AnswersCoverAccepted
    <2>2. CASE answered' = inode.catalog /\ inode # Nothing /\ Acceptable(inode.catalog, known[c])
      <3>1. inode \in Inodes /\ FileOf(known[c]) \in Files /\ FileOf(known[c]) # "accepted"
        BY <2>2 DEF Inv, TypeOK, FileOf, Files
      <3>2. inode.catalog \in Catalogs /\ FileOf(inode.catalog) = FileOf(known[c])
        BY <2>2, <3>1 DEF Inv, FilesWhole, Inodes
      <3>3. inode.catalog.schema = known[c].schema
        BY <1>3, <3>2 DEF FileOf, Catalogs
      <3>4. known[c].schema \in {1, 2}
        BY <1>3 DEF Catalogs
      <3>5. NotOlder(inode.catalog, known[c])
        BY <2>2, <3>3, <3>4 DEF NotOlder
      <3> HIDE DEF inode
      <3> QED
        BY <1>1, <1>3, <1>4, <2>2, <3>5, NothingAssumption DEF AnswersCoverAccepted, NotOlder
    <2> QED
      BY <1>1, <2>1, <2>2
  <1>6. FilesWhole' /\ CatalogCoversAccepted'
    BY <1>1 DEF Inv, FilesWhole, CatalogCoversAccepted
  <1>7. KnowsAccepted' /\ PersistsNewer'
    BY <1>1, <1>2 DEF KnowsAccepted, PersistsNewer, Online, Persisting
  <1>8. PeakHeld'
    BY <1>1, <1>2 DEF Inv, PeakHeld, LosesAccepted
  <1> QED
    BY <1>2, <1>5, <1>6, <1>7, <1>8 DEF Inv

\* A step that only reads disturbs nothing but what the check itself knows.
LEMMA ReadsOnly ==
  ASSUME OneAtATime, Inv, NEW c \in Checks, Check(c),
         UNCHANGED <<file, part, peak, lost>>, answered' \in {answered, Nothing},
         pc[c] # "renaming", pc'[c] # "renaming", KnowsAccepted', PersistsNewer'
  PROVE  Inv'
  <1>1. TypeOK' /\ CatalogHeld' /\ \A d \in Checks : d = c
    BY OfTheCheck
  <1>2. FilesWhole' /\ CatalogCoversAccepted' /\ AnswersCoverAccepted'
    BY DEF Inv, FilesWhole, CatalogCoversAccepted, AnswersCoverAccepted
  <1>3. PeakHeld'
    BY <1>1 DEF Inv, PeakHeld, LosesAccepted
  <1> QED
    BY <1>1, <1>2, <1>3 DEF Inv

\* A check begins by reading the accepted state.
LEMMA LoadInv == ASSUME OneAtATime, Inv, NEW c \in Checks, Load(c) PROVE Inv'
  <1>1. /\ pc[c] = "idle" /\ known[c] = Nothing /\ pc'[c] \in {"fetching", "cached"}
        /\ UNCHANGED <<file, part, got, at, answered, peak, lost>>
        /\ pc'[c] = "fetching" =>
             known'[c] = IF file["accepted"] = Nothing THEN Nothing ELSE file["accepted"].catalog
    BY DEF Load, Goto, diskVars, history, Inv, TypeOK
  <1>2. \A d \in Checks : d = c
    BY DEF OneAtATime
  <1>3. KnowsAccepted' /\ PersistsNewer'
    BY <1>1, <1>2 DEF KnowsAccepted, PersistsNewer, Online, Persisting, LosesAccepted
  <1> QED
    BY <1>1, <1>3, ReadsOnly DEF Check

\* What a check fetches is persisted only if it is not older than what is known.
LEMMA FetchedInv ==
  ASSUME OneAtATime, Inv, NEW c \in Checks, Check(c), NEW catalog, Fetched(c, catalog),
         pc[c] \in {"fetching", "fetchingV1"},
         known[c] = Nothing \/ catalog.schema >= known[c].schema
  PROVE  Inv'
  <1>1. /\ UNCHANGED <<file, part, known, answered, peak, lost>>
        /\ pc'[c] \in {"creating", "cached"}
        /\ pc'[c] = "creating" =>
             /\ got'[c] = catalog /\ at'[c] = FileOf(catalog)
             /\ known[c] = Nothing \/ Acceptable(catalog, known[c])
    BY DEF Fetched, FetchedAcceptable, Goto, diskVars, history, Inv, TypeOK
  <1>2. /\ \A d \in Checks : d = c
        /\ known[c] = IF file["accepted"] = Nothing THEN Nothing ELSE file["accepted"].catalog
    BY DEF OneAtATime, Inv, KnowsAccepted, Online, LosesAccepted
  <1>3. KnowsAccepted'
    BY <1>1, <1>2 DEF KnowsAccepted, LosesAccepted
  <1>4. FileOf(catalog) # "accepted"
    BY DEF FileOf
  <1>5. PersistsNewer'
    BY <1>1, <1>2, <1>4 DEF PersistsNewer, Persisting, NotOlder
  <1> QED
    BY <1>1, <1>3, <1>5, ReadsOnly

\* A fetch that fails falls back, to v1 only when no v2 has been accepted.
LEMMA FetchFailsInv ==
  ASSUME OneAtATime, Inv, NEW c \in Checks, FetchV2Fails(c) \/ FetchV1Fails(c)
  PROVE  Inv'
  <1>1. /\ pc[c] \in {"fetching", "fetchingV1"} /\ pc'[c] \in {"cached", "fetchingV1"}
        /\ pc'[c] = "fetchingV1" => known[c] = Nothing \/ known[c].schema # 2
        /\ UNCHANGED <<file, part, known, got, at, answered, peak, lost>>
    BY DEF FetchV2Fails, FetchV1Fails, Goto, diskVars, history, Inv, TypeOK
  <1>2. /\ \A d \in Checks : d = c
        /\ known[c] = IF file["accepted"] = Nothing THEN Nothing ELSE file["accepted"].catalog
        /\ known[c] = Nothing \/ known[c].schema \in {1, 2}
    BY <1>1 DEF OneAtATime, Inv, KnowsAccepted, Online, LosesAccepted, TypeOK, Catalogs
  <1>3. KnowsAccepted' /\ PersistsNewer'
    BY <1>1, <1>2 DEF KnowsAccepted, PersistsNewer, Persisting, LosesAccepted
  <1> QED
    BY <1>1, <1>3, ReadsOnly DEF Check

\* The cache is read against the accepted state on disk.
LEMMA LoadCachedInv == ASSUME OneAtATime, Inv, NEW c \in Checks, LoadCached(c) PROVE Inv'
  <1>1. /\ pc[c] = "cached" /\ pc'[c] \in {"reading", "idle"}
        /\ UNCHANGED <<file, part, peak, lost>> /\ answered' \in {answered, Nothing}
        /\ pc'[c] = "reading" =>
             file["accepted"] # Nothing /\ known'[c] = file["accepted"].catalog
    BY DEF LoadCached, Answer, Goto, diskVars, history, Inv, TypeOK
  <1>2. \A d \in Checks : d = c
    BY DEF OneAtATime
  <1>3. KnowsAccepted' /\ PersistsNewer'
    BY <1>1, <1>2 DEF KnowsAccepted, PersistsNewer, Online, Persisting
  <1> QED
    BY <1>1, <1>3, ReadsOnly DEF Check

\* Every step of the one check keeps the invariant.
LEMMA CheckInv == ASSUME OneAtATime, Inv, NEW c \in Checks, Check(c) PROVE Inv'
  <1>1. CASE FetchV2(c)
    <2>1. PICK sequence \in 1..published : Fetched(c, [schema |-> 2, sequence |-> sequence])
      BY <1>1 DEF FetchV2
    <2>2. pc[c] = "fetching" /\ (known[c] = Nothing \/ 2 >= known[c].schema)
      BY <1>1 DEF FetchV2, Inv, TypeOK, Catalogs
    <2> QED
      BY <2>1, <2>2, FetchedInv
  <1>2. CASE FetchV1(c)
    <2>1. pc[c] = "fetchingV1" /\ (known[c] = Nothing \/ 1 >= known[c].schema)
      BY <1>2 DEF FetchV1, Inv, KnowsAccepted
    <2> QED
      BY <1>2, <2>1, FetchedInv DEF FetchV1
  <1> QED
    BY <1>1, <1>2, LoadInv, FetchFailsInv, CreatePartInv, WritePartInv, RemoveTargetInv,
       RenamePartInv, WriteFailsInv, LoadCachedInv, ReadCachedInv DEF Check

\* A new release and a restart keep it as well.
LEMMA InvStep == ASSUME OneAtATime PROVE Inv /\ [Next]_vars => Inv'
  <1> SUFFICES ASSUME Inv, [Next]_vars PROVE Inv'
    OBVIOUS
  <1>0. TypeOK' /\ CatalogHeld'
    BY TypeStep DEF Inv
  <1>1. CASE Publish \/ UNCHANGED vars
    <2>1. UNCHANGED <<file, part, pc, known, got, at, answered, peak, lost>>
      BY <1>1 DEF Publish, vars, diskVars, checkVars, history
    <2> QED
      BY <1>0, <2>1
         DEF Inv, FilesWhole, KnowsAccepted, PersistsNewer, PeakHeld, LosesAccepted, Online,
             Persisting, CatalogCoversAccepted, AnswersCoverAccepted
  <1>2. CASE Restart
    <2>1. \A f \in Files : (file'[f] = Nothing <=> file[f] = Nothing)
             /\ (file[f] # Nothing => file'[f].catalog = file[f].catalog
                   /\ file'[f].whole = file[f].whole /\ file'[f].writer = Nothing)
      BY <1>2, NothingAssumption DEF Restart, Inv, TypeOK, Inodes
    <2>2. FilesWhole'
      BY <2>1 DEF Inv, FilesWhole
    <2>3. "accepted" \in Files /\ \A catalog : FileOf(catalog) \in Files
      BY DEF Files, FileOf
    <2>4. CatalogCoversAccepted'
      BY <2>1, <2>3 DEF Inv, CatalogCoversAccepted
    <2>5. AnswersCoverAccepted' /\ KnowsAccepted' /\ PersistsNewer'
      BY <1>2 DEF Restart, AnswersCoverAccepted, KnowsAccepted, PersistsNewer, Online, Persisting
    <2>6. PeakHeld'
      BY <1>2, <2>1, <2>3 DEF Restart, Inv, TypeOK, PeakHeld, LosesAccepted
    <2> QED
      BY <1>0, <2>2, <2>4, <2>5, <2>6 DEF Inv
  <1> QED
    BY <1>1, <1>2, CheckInv DEF Next

\* The accepted state stays readable, backed by a catalog that is not older, and
\* no answer is older than it, while one check follows the other (updater
\* 80-167, 686-783).
THEOREM AcceptedKept == ASSUME OneAtATime PROVE Spec => []AcceptedHolds
  <1>1. Inv => AcceptedHolds
    BY DEF Inv, AcceptedHolds, AcceptedReadable, FilesWhole, Files
  <1> QED
    BY <1>1, InvInit, InvStep, PTL DEF Spec

\* An accepted catalog is only followed by one that is not older, unless the
\* accepted state was lost, while one check follows the other.
THEOREM AcceptanceOnlyAdvances == ASSUME OneAtATime PROVE Spec => AcceptanceAdvances
  <1>1. Inv /\ [Next]_vars =>
          [~lost /\ peak # Nothing /\ peak' # peak => NotOlder(peak', peak)]_vars
    <2> SUFFICES ASSUME Inv, Next, ~lost, peak # Nothing, peak' # peak
                 PROVE  NotOlder(peak', peak)
      OBVIOUS
    <2>1. PICK c \in Checks : Check(c)
      BY DEF Next, Publish, Restart, history
    <2>2. RenamePart(c) /\ at[c] = "accepted" /\ peak' = got[c]
      BY <2>1 DEF Check, Load, FetchV2, Fetched, FetchV2Fails, FetchV1, FetchV1Fails, CreatePart,
           WritePart, RemoveTarget, RenamePart, WriteFails, LoadCached, ReadCached, history
    <2>3. known[c] = peak
      BY <2>2 DEF Inv, PeakHeld, LosesAccepted, RenamePart
    <2> QED
      BY <2>2, <2>3 DEF Inv, PersistsNewer, Persisting, RenamePart
  <1> QED
    BY <1>1, InvInit, InvStep, PTL DEF Spec, AcceptanceAdvances

-----------------------------------------------------------------------------
(* RuntimeOffers.                                                          *)

OfferedReleases ==
  [version : Versions, target : Offers!Targets, os : Offers!Oses,
   flaw : {"none"} \cup EntryFlaws \cup ReleaseFlaws, build : Nat, tag : Nat]
OfferedCatalogs ==
  [schema : {1, 2}, sequence : 1..MaxSequence, generated : Nat, expires : Nat,
   app : {App, App + 1}, releases : Seq(OfferedReleases), flaw : {"none"} \cup DocumentFlaws]
Receipts == [build : Nat, sequence : 1..MaxSequence]
Takings == [catalog : {1, 2} \X (1..MaxSequence), build : Nat]

\* The bounds are numbers, and None is no catalog and no receipt.
OfferAssumption ==
  /\ MaxBuilds \in Nat /\ MaxPublished \in Nat /\ MaxSequence \in Nat /\ MaxTime \in Nat
  /\ None \notin OfferedCatalogs /\ None \notin Receipts

\* What is published, accepted, installed and on record, by its shape.
OfferShaped ==
  /\ built \in Seq(Versions) /\ Len(built) <= MaxBuilds
  /\ feed \in [{1, 2} -> OfferedCatalogs \cup {None}] /\ accepted \in OfferedCatalogs \cup {None}
  /\ \A s \in {1, 2} : feed[s] # None => feed[s].schema = s
  /\ dirs \in [Versions -> Nat] /\ removed \subseteq Versions
  /\ receipts \in [Versions -> Receipts \cup {None}]
  /\ operations \subseteq [version : Versions, build : Nat]
  /\ bundle \in [Versions -> Receipts \cup {None}]
  /\ clock \in 0..MaxTime /\ published \in 0..MaxPublished
  /\ guessed \subseteq Versions /\ taken \in [Versions -> Takings \cup {None}]

\* b is a package that was built of version v.
BuiltOf(b, v) == b \in 1..Len(built) /\ built[b] = v
AllBuilt(c) == \A i \in DOMAIN c.releases : BuiltOf(c.releases[i].build, c.releases[i].version)

\* Everything that names a package names one of its own version.
NamesBuilds ==
  /\ \A s \in {1, 2} : feed[s] # None => AllBuilt(feed[s])
  /\ accepted # None => AllBuilt(accepted)
  /\ \A op \in operations : BuiltOf(op.build, op.version)
  /\ \A v \in Versions :
       /\ bundle[v] # None => BuiltOf(bundle[v].build, v)
       /\ dirs[v] # 0 => BuiltOf(dirs[v], v)
       /\ receipts[v] # None => dirs[v] # 0

\* A catalog has one release for a version and a target.
OneReleaseEach(c) ==
  \A i, j \in DOMAIN c.releases :
    i # j => Offers!Identity(c.releases[i]) # Offers!Identity(c.releases[j])

NotAfter(r, q) == r[1] < q[1] \/ (r[1] = q[1] /\ r[2] <= q[2])

\* What was installed online came from the accepted catalog or an older one; if
\* from the accepted one, it still has that package.
TakenBefore ==
  /\ accepted # None => OneReleaseEach(accepted)
  /\ \A v \in Versions : taken[v] # None =>
       /\ accepted # None /\ NotAfter(taken[v].catalog, Offers!Rank(accepted))
       /\ taken[v].catalog = Offers!Rank(accepted) =>
            \E i \in DOMAIN accepted.releases :
              /\ Offers!Identity(accepted.releases[i]) = <<v, Offers!Target>>
              /\ accepted.releases[i].build = taken[v].build

OfferInv == OfferShaped /\ NamesBuilds /\ Offers!ReceiptsTrue /\ TakenBefore

\* The number of the newest package exists: the least distance to the last one.
LEMMA LeastNumber ==
  ASSUME NEW T \in SUBSET Nat, T # {}
  PROVE  \E n \in T : \A m \in T : n <= m
<1> DEFINE R == OpToRel(<, Nat)
<1>1. IsWellFoundedOn(R, Nat)
  BY NatLessThanWellFounded
<1>2. \A m, n \in Nat : m < n => <<m, n>> \in R
  BY DEF OpToRel
<1> HIDE DEF R
<1>3. PICK n \in T : \A m \in T : ~ (<<m, n>> \in R)
  BY <1>1, WFMin
<1>4. ASSUME NEW m \in T PROVE n <= m
  <2>1. m \in Nat /\ n \in Nat
    OBVIOUS
  <2>2. ~(m < n)
    BY <1>2, <1>3, <2>1
  <2> QED
    BY <2>1, <2>2
<1> QED
  BY <1>4

\* A version that was built has a newest package.
LEMMA NewestBuilt ==
  ASSUME OfferShaped, NEW v \in Versions, Offers!Of(v) # {}
  PROVE  \E b \in Offers!Of(v) : \A o \in Offers!Of(v) : o <= b
<1> DEFINE Away(b) == Len(built) - b
           T == {Away(b) : b \in Offers!Of(v)}
<1>1. Len(built) \in Nat /\ Offers!Of(v) \subseteq 1..Len(built)
  BY DEF OfferShaped, Offers!Of, Offers!Builds
<1>2. T \in SUBSET Nat /\ T # {}
  BY <1>1
<1>3. PICK n \in T : \A m \in T : n <= m
  BY <1>2, LeastNumber
<1>4. PICK b \in Offers!Of(v) : n = Away(b)
  OBVIOUS
<1>5. ASSUME NEW o \in Offers!Of(v) PROVE o <= b
  <2>1. Away(b) <= Away(o)
    BY <1>3, <1>4
  <2> QED
    BY <1>1, <2>1
<1> QED
  BY <1>5

\* OfferInv holds at the start.
LEMMA OfferInit == OfferAssumption /\ Offers!Init => OfferInv
<1> SUFFICES ASSUME OfferAssumption, Offers!Init PROVE OfferInv
  OBVIOUS
<1> USE DEF OfferAssumption, Offers!Init
<1>1. feed \in [{1, 2} -> OfferedCatalogs \cup {None}] /\ \A s \in {1, 2} : feed[s] = None
  OBVIOUS
<1>2. OfferShaped
  BY <1>1 DEF OfferShaped
<1>3. NamesBuilds
  BY <1>1 DEF NamesBuilds
<1>4. Offers!ReceiptsTrue /\ TakenBefore
  BY DEF Offers!ReceiptsTrue, TakenBefore
<1> QED
  BY <1>2, <1>3, <1>4 DEF OfferInv

\* A newly built package leaves the others their numbers.
LEMMA OfferBuild ==
  ASSUME OfferAssumption, OfferInv, NEW v \in Versions, Offers!Build(v)
  PROVE  OfferInv'
<1> USE DEF OfferAssumption, Offers!Build, Offers!client
<1>1. /\ built \in Seq(Versions) /\ built' = Append(built, v) /\ Len(built') = Len(built) + 1
      /\ Len(built) < MaxBuilds /\ Len(built) \in Nat
  BY DEF OfferInv, OfferShaped
<1>2. \A b, w : BuiltOf(b, w) => BuiltOf(b, w)'
  BY <1>1 DEF BuiltOf
<1>3. \A c : AllBuilt(c) => AllBuilt(c)'
  BY <1>2 DEF AllBuilt
<1>4. OfferShaped'
  BY <1>1 DEF OfferInv, OfferShaped
<1>5. NamesBuilds'
  BY <1>2, <1>3 DEF OfferInv, NamesBuilds
<1>6. Offers!ReceiptsTrue' /\ TakenBefore'
  BY DEF OfferInv, Offers!ReceiptsTrue, TakenBefore
<1> QED
  BY <1>4, <1>5, <1>6 DEF OfferInv

\* A catalog that is published names packages that were built.
LEMMA OfferPublished ==
  ASSUME OfferAssumption, OfferInv, published < MaxPublished,
         NEW c \in OfferedCatalogs, AllBuilt(c), Offers!Publish(c)
  PROVE  OfferInv'
<1> USE DEF OfferAssumption, Offers!Publish, Offers!client
<1>1. c.schema \in {1, 2} /\ feed \in [{1, 2} -> OfferedCatalogs \cup {None}]
  BY DEF OfferInv, OfferShaped, OfferedCatalogs
<1>2. /\ feed' \in [{1, 2} -> OfferedCatalogs \cup {None}]
      /\ \A s \in {1, 2} : feed'[s] = IF s = c.schema THEN c ELSE feed[s]
  BY <1>1
<1>3. OfferShaped'
  BY <1>2 DEF OfferInv, OfferShaped
<1>4. \A d : AllBuilt(d)' = AllBuilt(d)
  BY DEF AllBuilt, BuiltOf
<1>5. \A b, w : BuiltOf(b, w)' = BuiltOf(b, w)
  BY DEF BuiltOf
<1>6. NamesBuilds'
  BY <1>2, <1>4, <1>5 DEF OfferInv, NamesBuilds
<1>7. Offers!ReceiptsTrue' /\ TakenBefore'
  BY DEF OfferInv, Offers!ReceiptsTrue, TakenBefore
<1> QED
  BY <1>3, <1>6, <1>7 DEF OfferInv

\* The release for each package of a platform is the newest of its version.
LEMMA OfferPackages ==
  ASSUME OfferAssumption, OfferInv, NEW m \in Offers!Manifests, NEW target \in Offers!Targets,
         \A i \in DOMAIN m : Offers!Of(m[i].version) # {}
  PROVE  /\ Offers!PackageReleases(m, target) \in Seq(OfferedReleases)
         /\ \A i \in DOMAIN Offers!PackageReleases(m, target) :
              BuiltOf(Offers!PackageReleases(m, target)[i].build,
                      Offers!PackageReleases(m, target)[i].version)
<1> DEFINE Newest(v) == CHOOSE b \in Offers!Of(v) : \A o \in Offers!Of(v) : o <= b
           Rel(i) == [version |-> m[i].version, target |-> target, os |-> m[i].os,
                      flaw |-> m[i].flaw, build |-> Newest(m[i].version), tag |-> 0]
<1>1. PICK n \in 0..2 : m \in [1..n -> Offers!Entries]
  BY DEF Offers!Manifests
<1>2. \A i \in 1..n : m[i] \in Offers!Entries /\ m[i].version \in Versions
                       /\ m[i].os \in Offers!Oses /\ m[i].flaw \in {"none"} \cup EntryFlaws
  BY <1>1 DEF Offers!Entries
<1>3. \A i \in 1..n : Newest(m[i].version) \in Offers!Of(m[i].version)
  BY <1>1, <1>2, NewestBuilt DEF OfferInv
<1>4. \A i \in 1..n : BuiltOf(Newest(m[i].version), m[i].version)
  BY <1>3 DEF BuiltOf, Offers!Of, Offers!Builds
<1>5. Offers!PackageReleases(m, target) = [i \in 1..n |-> Rel(i)]
  BY <1>1 DEF Offers!PackageReleases
<1>6. \A i \in 1..n : Newest(m[i].version) \in Nat
  <2> HIDE DEF Newest
  <2> QED
    BY <1>4 DEF BuiltOf, OfferInv, OfferShaped
<1>7. \A i \in 1..n : Rel(i) \in OfferedReleases /\ Rel(i).build = Newest(m[i].version)
                       /\ Rel(i).version = m[i].version
  <2> HIDE DEF Newest
  <2> QED
    BY <1>2, <1>6 DEF OfferedReleases
<1> HIDE DEF Rel, Newest
<1>8. [i \in 1..n |-> Rel(i)] \in Seq(OfferedReleases)
  BY <1>1, <1>7
<1> QED
  BY <1>1, <1>4, <1>5, <1>7, <1>8

\* The generator of the first schema.
LEMMA OfferGenerateV1 ==
  ASSUME OfferAssumption, OfferInv, Offers!GenerateV1
  PROVE  OfferInv'
<1>1. PICK mine \in Offers!Manifests, other \in {m \in Offers!Manifests : Len(m) = 1},
           expires \in Offers!Times, sequence \in 1..MaxSequence :
        /\ \A m \in {mine, other} : \A i \in DOMAIN m : Offers!Of(m[i].version) # {}
        /\ Offers!Publish(Offers!Document(1, sequence, expires, App,
             Offers!PackageReleases(mine, Offers!Target)
               \o Offers!PackageReleases(other, CHOOSE t \in Offers!Targets : t # Offers!Target)))
  BY DEF Offers!GenerateV1
<1> DEFINE a == Offers!PackageReleases(mine, Offers!Target)
           b == Offers!PackageReleases(other, CHOOSE t \in Offers!Targets : t # Offers!Target)
           c == Offers!Document(1, sequence, expires, App, a \o b)
<1>2. /\ Offers!Target \in Offers!Targets
      /\ (CHOOSE t \in Offers!Targets : t # Offers!Target) \in Offers!Targets
  <2>1. \E t \in Offers!Targets : t # Offers!Target
    BY DEF Offers!Targets, Offers!Target
  <2> QED
    BY <2>1 DEF Offers!Targets, Offers!Target
<1>3. /\ a \in Seq(OfferedReleases)
      /\ \A i \in DOMAIN a : BuiltOf(a[i].build, a[i].version)
  BY <1>1, <1>2, OfferPackages
<1>4. /\ b \in Seq(OfferedReleases)
      /\ \A i \in DOMAIN b : BuiltOf(b[i].build, b[i].version)
  BY <1>1, <1>2, OfferPackages
<1>5. Offers!Publish(c) /\ published < MaxPublished
  BY <1>1 DEF Offers!GenerateV1
<1> HIDE DEF a, b
<1>6. /\ a \o b \in Seq(OfferedReleases)
      /\ \A i \in DOMAIN (a \o b) : BuiltOf((a \o b)[i].build, (a \o b)[i].version)
  <2>1. a \o b \in Seq(OfferedReleases)
    BY <1>3, <1>4
  <2>2. \A i \in DOMAIN (a \o b) : (\E j \in DOMAIN a : (a \o b)[i] = a[j])
                                    \/ (\E j \in DOMAIN b : (a \o b)[i] = b[j])
    <3> TAKE i \in DOMAIN (a \o b)
    <3>1. i \in 1..(Len(a) + Len(b)) /\ Len(a) \in Nat /\ Len(b) \in Nat
      BY <1>3, <1>4
    <3>2. CASE i <= Len(a)
      BY <1>3, <1>4, <3>1, <3>2
    <3>3. CASE i > Len(a)
      <4>1. i - Len(a) \in DOMAIN b /\ (a \o b)[i] = b[i - Len(a)]
        BY <1>3, <1>4, <3>1, <3>3
      <4> QED
        BY <4>1
    <3> QED
      BY <3>1, <3>2, <3>3
  <2> QED
    BY <1>3, <1>4, <2>1, <2>2
<1>7. c \in OfferedCatalogs
  <2>1. expires \in Nat /\ clock \in Nat
    BY <1>1 DEF Offers!Times, OfferInv, OfferShaped, OfferAssumption
  <2> QED
    BY <1>1, <1>6, <2>1 DEF Offers!Document, OfferedCatalogs
<1>8. AllBuilt(c)
  <2>1. c.releases = a \o b
    BY DEF Offers!Document
  <2> HIDE DEF c
  <2> QED
    BY <1>6, <2>1 DEF AllBuilt
<1> HIDE DEF c
<1> QED
  BY <1>5, <1>7, <1>8, OfferPublished

\* The generator of the second schema takes packages of the release's version.
LEMMA OfferGenerateV2 ==
  ASSUME OfferAssumption, OfferInv, Offers!GenerateV2
  PROVE  OfferInv'
<1>1. PICK sequence \in 1..MaxSequence, expires \in Offers!Times, app \in {App, App + 1}, n \in 1..2 :
        \E index \in [1..n -> Offers!IndexEntries(sequence)] :
          Offers!Publish(Offers!Document(2, sequence, expires, app, index))
  BY DEF Offers!GenerateV2
<1>2. PICK index \in [1..n -> Offers!IndexEntries(sequence)] :
          Offers!Publish(Offers!Document(2, sequence, expires, app, index))
  BY <1>1
<1> DEFINE c == Offers!Document(2, sequence, expires, app, index)
<1>3. \A i \in 1..n : index[i] \in OfferedReleases /\ BuiltOf(index[i].build, index[i].version)
  <2> TAKE i \in 1..n
  <2>1. index[i] \in Offers!IndexEntries(sequence)
    OBVIOUS
  <2>2. \A k \in Offers!Builds : k \in Nat
    BY DEF Offers!Builds, OfferInv, OfferShaped
  <2>3. Offers!Target \in Offers!Targets /\ {sequence, sequence + 1} \subseteq Nat
    BY DEF Offers!Target, Offers!Targets, OfferAssumption
  <2> QED
    BY <2>1, <2>2, <2>3 DEF Offers!IndexEntries, OfferedReleases, BuiltOf, Offers!Builds
<1>4. index \in Seq(OfferedReleases) /\ DOMAIN index = 1..n
  BY <1>3
<1>5. c \in OfferedCatalogs
  <2>1. expires \in Nat /\ clock \in Nat
    BY DEF Offers!Times, OfferInv, OfferShaped, OfferAssumption
  <2> QED
    BY <1>4, <2>1 DEF Offers!Document, OfferedCatalogs
<1>6. AllBuilt(c)
  <2>1. c.releases = index
    BY DEF Offers!Document
  <2> HIDE DEF c
  <2> QED
    BY <1>3, <1>4, <2>1 DEF AllBuilt
<1>7. published < MaxPublished
  BY DEF Offers!GenerateV2
<1>8. Offers!Publish(c)
  BY <1>2
<1> HIDE DEF c
<1> QED
  BY <1>5, <1>6, <1>7, <1>8, OfferPublished

\* The names stay right when all that changes is what comes with the App.
LEMMA BundleNames ==
  ASSUME NamesBuilds, UNCHANGED <<built, feed, accepted, operations, dirs, receipts>>,
         \A v \in Versions : bundle'[v] # None => BuiltOf(bundle'[v].build, v)
  PROVE  NamesBuilds'
BY DEF NamesBuilds, AllBuilt, BuiltOf

\* An App is released, and time passes.
LEMMA OfferReleased ==
  ASSUME OfferAssumption, OfferInv,
         Offers!Tick \/ \E v \in Versions : Offers!BundlePackage(v)
  PROVE  OfferInv'
<1> USE DEF OfferAssumption, Offers!client
<1>1. CASE Offers!Tick
  <2>1. OfferShaped'
    BY <1>1 DEF Offers!Tick, OfferInv, OfferShaped
  <2> QED
    BY <1>1, <2>1 DEF Offers!Tick, OfferInv, NamesBuilds, AllBuilt, BuiltOf,
                      Offers!ReceiptsTrue, TakenBefore
<1>2. ASSUME NEW v \in Versions, Offers!BundlePackage(v)
      PROVE  OfferInv'
  <2> USE <1>2 DEF Offers!BundlePackage
  <2>1. PICK b \in Offers!Of(v) :
          bundle' = [bundle EXCEPT ![v] = [build |-> b, sequence |-> feed[2].sequence]]
    OBVIOUS
  <2>2. BuiltOf(b, v) /\ b \in Nat
    BY DEF Offers!Of, Offers!Builds, BuiltOf, OfferInv, OfferShaped
  <2>3. feed[2] \in OfferedCatalogs /\ feed[2].sequence \in 1..MaxSequence
    BY DEF OfferInv, OfferShaped, OfferedCatalogs
  <2> DEFINE r == [build |-> b, sequence |-> feed[2].sequence]
  <2>4. r \in Receipts /\ r.build = b
    BY <2>2, <2>3 DEF Receipts
  <2> HIDE DEF r
  <2>5. /\ bundle' \in [Versions -> Receipts \cup {None}]
        /\ \A w \in Versions : bundle'[w] = IF w = v THEN r ELSE bundle[w]
    BY <2>1, <2>4 DEF OfferInv, OfferShaped, r
  <2>6. OfferShaped'
    BY <2>5 DEF OfferInv, OfferShaped
  <2>7. NamesBuilds'
    <3>1. \A w \in Versions : bundle'[w] # None => BuiltOf(bundle'[w].build, w)
      BY <2>2, <2>4, <2>5 DEF OfferInv, NamesBuilds
    <3>2. UNCHANGED <<built, feed, accepted, operations, dirs, receipts>>
      OBVIOUS
    <3>3. NamesBuilds
      BY DEF OfferInv
    <3> QED
      BY <3>1, <3>2, <3>3, BundleNames
  <2> QED
    BY <2>6, <2>7 DEF OfferInv, Offers!ReceiptsTrue, TakenBefore
<1> QED
  BY <1>1, <1>2

\* What is on record after a look at a catalog: nothing changes but that releases
\* are guessed for what is there.
LEMMA OfferRecord ==
  ASSUME OfferAssumption, OfferInv, NEW c \in OfferedCatalogs, AllBuilt(c), Offers!Record(c),
         UNCHANGED <<built, dirs>>
  PROVE  /\ receipts' \in [Versions -> Receipts \cup {None}] /\ guessed' \subseteq Versions
         /\ \A v \in Versions : receipts'[v] # None => dirs[v] # 0
         /\ Offers!ReceiptsTrue'
<1> USE DEF OfferAssumption, Offers!Record
<1>1. /\ receipts \in [Versions -> Receipts \cup {None}] /\ guessed \subseteq Versions
      /\ \A v \in Versions : receipts[v] # None => dirs[v] # 0
      /\ \A v \in Versions : receipts[v] # None /\ v \notin guessed => receipts[v].build = dirs[v]
  BY DEF OfferInv, OfferShaped, NamesBuilds, Offers!ReceiptsTrue
<1>2. \A r \in Offers!Guesses(c) :
        r \in OfferedReleases /\ r.version \in Versions /\ r.build \in Nat /\ dirs[r.version] # 0
  <2>1. \A r \in Offers!ToSet(c.releases) : r \in OfferedReleases
    BY DEF Offers!ToSet, OfferedCatalogs
  <2> QED
    BY <2>1 DEF Offers!Guesses, Offers!Offered, OfferedReleases
<1>3. c.sequence \in 1..MaxSequence
  BY DEF OfferedCatalogs
<1>4. ASSUME NEW v \in Versions
      PROVE  \/ receipts'[v] = receipts[v] /\ (v \in guessed' <=> v \in guessed)
             \/ receipts'[v] \in Receipts /\ v \in guessed' /\ dirs[v] # 0
  <2>1. receipts'[v] = Offers!OnRecord(c)[v]
    OBVIOUS
  <2>2. CASE \E r \in Offers!Guesses(c) : r.version = v
    <3> DEFINE g == CHOOSE r \in Offers!Guesses(c) : r.version = v
    <3>1. g \in Offers!Guesses(c) /\ g.version = v
      BY <2>2
    <3>2. receipts'[v] = [build |-> g.build, sequence |-> c.sequence]
      BY <2>1, <2>2 DEF Offers!OnRecord
    <3> HIDE DEF g
    <3> QED
      BY <1>2, <1>3, <3>1, <3>2 DEF Receipts
  <2>3. CASE ~ \E r \in Offers!Guesses(c) : r.version = v
    BY <2>1, <2>3 DEF Offers!OnRecord
  <2> QED
    BY <2>2, <2>3
<1>5. receipts' = [v \in Versions |-> receipts'[v]] /\ guessed' \subseteq Versions
  BY <1>1, <1>2 DEF Offers!OnRecord
<1>6. receipts' \in [Versions -> Receipts \cup {None}]
  BY <1>1, <1>4, <1>5
<1>7. \A v \in Versions : receipts'[v] # None => dirs[v] # 0
  BY <1>1, <1>4
<1>8. Offers!ReceiptsTrue'
  BY <1>1, <1>4 DEF Offers!ReceiptsTrue
<1> QED
  BY <1>5, <1>6, <1>7, <1>8

\* A catalog is accepted only after the one accepted before.
LEMMA OfferCheck ==
  ASSUME OfferAssumption, OfferInv, Offers!Check
  PROVE  OfferInv'
<1>1. PICK schema \in {1, 2}, reachable \in BOOLEAN, flaw \in {"none"} \cup DocumentFlaws :
        /\ feed[schema] # None
        /\ schema = 1 => Offers!KnownOf(2) = None /\ (feed[2] = None \/ ~reachable)
        /\ LET c == [feed[schema] EXCEPT !.flaw = flaw] IN
           /\ Offers!Valid(c, App, Protocol, Offers!KnownOf(schema))
           /\ accepted' = c
           /\ Offers!Record(c)
        /\ UNCHANGED <<built, feed, published, dirs, removed, operations, bundle, clock, taken>>
  BY DEF Offers!Check
<1> DEFINE c == [feed[schema] EXCEPT !.flaw = flaw]
<1>2. /\ c \in OfferedCatalogs /\ c.schema = schema /\ c.releases = feed[schema].releases
      /\ c.sequence = feed[schema].sequence
  <2>1. feed[schema] \in OfferedCatalogs /\ feed[schema].schema = schema
    BY <1>1 DEF OfferInv, OfferShaped
  <2> QED
    BY <2>1 DEF OfferedCatalogs
<1>3. Offers!Valid(c, App, Protocol, Offers!KnownOf(schema)) /\ accepted' = c /\ Offers!Record(c)
  BY <1>1
<1>4. UNCHANGED <<built, feed, published, dirs, removed, operations, bundle, clock, taken>>
  BY <1>1
<1> HIDE DEF c
<1>5. AllBuilt(c)
  BY <1>1, <1>2 DEF AllBuilt, OfferInv, NamesBuilds
<1>6. /\ receipts' \in [Versions -> Receipts \cup {None}] /\ guessed' \subseteq Versions
      /\ \A v \in Versions : receipts'[v] # None => dirs[v] # 0
      /\ Offers!ReceiptsTrue'
  BY <1>2, <1>3, <1>4, <1>5, OfferRecord
<1>7. OfferShaped'
  BY <1>2, <1>3, <1>4, <1>6 DEF OfferInv, OfferShaped
<1>8. NamesBuilds'
  BY <1>3, <1>4, <1>5, <1>6 DEF OfferInv, NamesBuilds, AllBuilt, BuiltOf
<1>9. c # None /\ OneReleaseEach(c)
  BY <1>2, <1>3 DEF OfferAssumption, Offers!Valid, OneReleaseEach
<1>10. CASE accepted = None
  BY <1>3, <1>4, <1>6, <1>7, <1>8, <1>9, <1>10 DEF OfferInv, TakenBefore
<1>11. CASE accepted # None
  <2>1. accepted \in OfferedCatalogs /\ accepted.schema \in {1, 2} /\ accepted.sequence \in Nat
    BY <1>11 DEF OfferAssumption, OfferInv, OfferShaped, OfferedCatalogs
  <2>2. c.sequence \in Nat /\ c.schema \in Nat
    BY <1>2 DEF OfferAssumption, OfferedCatalogs
  <2>3. \/ c.schema > accepted.schema
        \/ c.schema = accepted.schema /\ (c.sequence > accepted.sequence \/ c = accepted)
    <3>1. CASE accepted.schema = schema
      <4>1. Offers!KnownOf(schema) = accepted
        BY <1>11, <3>1 DEF Offers!KnownOf
      <4>2. c.schema = accepted.schema /\ c.sequence >= accepted.sequence
            /\ (c.sequence = accepted.sequence => c = accepted)
        BY <1>3, <1>11, <4>1 DEF Offers!Valid
      <4> QED
        BY <2>1, <2>2, <4>2
    <3>2. CASE accepted.schema # schema
      <4>1. schema = 2 /\ accepted.schema = 1
        BY <1>1, <1>11, <2>1, <3>2 DEF Offers!KnownOf
      <4>2. c.schema = 2 /\ accepted.schema = 1
        BY <1>2, <4>1
      <4> QED
        BY <4>2
    <3> QED
      BY <3>1, <3>2
  <2>4. \A v \in Versions : taken[v] # None =>
          /\ NotAfter(taken[v].catalog, Offers!Rank(c))
          /\ taken[v].catalog = Offers!Rank(c) => c = accepted
    <3> SUFFICES ASSUME NEW v \in Versions, taken[v] # None
                 PROVE  /\ NotAfter(taken[v].catalog, Offers!Rank(c))
                        /\ taken[v].catalog = Offers!Rank(c) => c = accepted
      OBVIOUS
    <3> DEFINE q == taken[v].catalog
    <3>1. q \in {1, 2} \X (1..MaxSequence) /\ q[1] \in Nat /\ q[2] \in Nat
      BY DEF OfferAssumption, OfferInv, OfferShaped, Takings
    <3>2. NotAfter(q, Offers!Rank(accepted))
      BY DEF OfferInv, TakenBefore
    <3> HIDE DEF q
    <3>3. q[1] < accepted.schema \/ (q[1] = accepted.schema /\ q[2] <= accepted.sequence)
      BY <3>2 DEF NotAfter, Offers!Rank
    <3>4. q[1] < c.schema \/ (q[1] = c.schema /\ q[2] <= c.sequence)
      BY <2>1, <2>2, <2>3, <3>1, <3>3
    <3>5. q[1] = c.schema /\ q[2] = c.sequence => c = accepted
      BY <2>1, <2>2, <2>3, <3>1, <3>3
    <3>6. NotAfter(q, Offers!Rank(c)) /\ (q = Offers!Rank(c) => c = accepted)
      BY <3>4, <3>5 DEF NotAfter, Offers!Rank
    <3> QED
      BY <3>6 DEF q
  <2>5. TakenBefore'
    BY <1>3, <1>4, <1>9, <2>4 DEF OfferInv, TakenBefore
  <2> QED
    BY <1>6, <1>7, <1>8, <2>5 DEF OfferInv
<1> QED
  BY <1>10, <1>11

\* A download keeps which package it is of.
LEMMA OfferDownload ==
  ASSUME OfferAssumption, OfferInv, NEW v \in Versions, Offers!Download(v)
  PROVE  OfferInv'
<1> USE DEF Offers!Download, OfferAssumption
<1>1. accepted \in OfferedCatalogs /\ AllBuilt(accepted)
  BY DEF Offers!Cached, OfferInv, OfferShaped, NamesBuilds
<1>2. /\ receipts' \in [Versions -> Receipts \cup {None}] /\ guessed' \subseteq Versions
      /\ \A w \in Versions : receipts'[w] # None => dirs[w] # 0
      /\ Offers!ReceiptsTrue'
  BY <1>1, OfferRecord
<1>3. PICK r \in Offers!Offered(accepted) :
        r.version = v /\ operations' = operations \cup {[version |-> v, build |-> r.build]}
  OBVIOUS
<1>4. BuiltOf(r.build, v)
  BY <1>1, <1>3 DEF Offers!Offered, Offers!ToSet, AllBuilt
<1>5. r.build \in Nat
  BY <1>4 DEF BuiltOf, OfferInv, OfferShaped
<1>6. operations' \subseteq [version : Versions, build : Nat]
      /\ \A op \in operations' : op \in operations \/ (op.version = v /\ op.build = r.build)
  BY <1>3, <1>5 DEF OfferInv, OfferShaped
<1>7. UNCHANGED <<built, feed, published, accepted, dirs, removed, bundle, clock, taken>>
  OBVIOUS
<1> HIDE DEF Offers!Download
<1>8. OfferShaped'
  BY <1>2, <1>6, <1>7 DEF OfferInv, OfferShaped
<1>9. NamesBuilds'
  BY <1>2, <1>4, <1>6, <1>7 DEF OfferInv, NamesBuilds, AllBuilt, BuiltOf
<1> QED
  BY <1>2, <1>7, <1>8, <1>9 DEF OfferInv, TakenBefore

\* A package that is put in place with its own receipt, or without any.
LEMMA OfferPlace ==
  ASSUME OfferAssumption, OfferInv, NEW v \in Versions, NEW b \in Nat,
         b = 0 \/ BuiltOf(b, v),
         NEW receipt \in Receipts \cup {None}, receipt # None => receipt.build = b /\ b # 0,
         Offers!Place(v, b, receipt), UNCHANGED <<built, feed, accepted, bundle, clock, published>>,
         operations' \subseteq operations
  PROVE  /\ taken' \in [Versions -> Takings \cup {None}] => OfferShaped'
         /\ NamesBuilds' /\ Offers!ReceiptsTrue'
<1> USE DEF Offers!Place, OfferAssumption
<1>1. /\ dirs' \in [Versions -> Nat] /\ receipts' \in [Versions -> Receipts \cup {None}]
      /\ dirs'[v] = b /\ receipts'[v] = receipt
      /\ \A w \in Versions \ {v} : dirs'[w] = dirs[w] /\ receipts'[w] = receipts[w]
      /\ guessed' = guessed \ {v} /\ removed' \subseteq Versions /\ guessed' \subseteq Versions
  BY DEF OfferInv, OfferShaped
<1> HIDE DEF Offers!Place
<1>2. taken' \in [Versions -> Takings \cup {None}] => OfferShaped'
  BY <1>1 DEF OfferInv, OfferShaped
<1>3. NamesBuilds'
  BY <1>1 DEF OfferInv, NamesBuilds, AllBuilt, BuiltOf
<1>4. Offers!ReceiptsTrue'
  BY <1>1 DEF OfferInv, Offers!ReceiptsTrue
<1> QED
  BY <1>2, <1>3, <1>4

\* An installation from the catalog of the moment.
LEMMA OfferInstall ==
  ASSUME OfferAssumption, OfferInv, NEW op \in operations, Offers!Install(op)
  PROVE  OfferInv' /\ Offers!NeverOlderStep
<1> USE DEF OfferAssumption
<1>1. op.version \in Versions /\ op.build \in Nat /\ BuiltOf(op.build, op.version)
      /\ op.build # 0
  BY DEF OfferInv, OfferShaped, NamesBuilds, BuiltOf
<1>2. UNCHANGED <<built, feed, accepted, bundle, clock, published>> /\ operations' \subseteq operations
  BY DEF Offers!Install
<1>3. CASE UNCHANGED <<dirs, removed, receipts, guessed, taken>>
  <2>1. OfferShaped'
    BY <1>2, <1>3 DEF OfferInv, OfferShaped
  <2>2. NamesBuilds' /\ TakenBefore' /\ Offers!ReceiptsTrue'
    BY <1>2, <1>3 DEF OfferInv, NamesBuilds, AllBuilt, BuiltOf, TakenBefore, Offers!ReceiptsTrue
  <2> QED
    BY <1>3, <2>1, <2>2 DEF OfferInv, Offers!NeverOlderStep
<1>4. CASE Offers!StillOffered(op) /\ Offers!Installed(op, Offers!Rank(accepted))
  <2> DEFINE q == Offers!Rank(accepted)
             t == [catalog |-> q, build |-> op.build]
             receipt == Offers!Receipt(op.build, q[2])
  <2>1. /\ accepted # None /\ accepted \in OfferedCatalogs
        /\ q[1] = accepted.schema /\ q[2] = accepted.sequence
        /\ q \in {1, 2} \X (1..MaxSequence) /\ q[1] \in Nat /\ q[2] \in Nat
    BY <1>4 DEF Offers!StillOffered, Offers!Cached, OfferInv, OfferShaped, OfferedCatalogs, Offers!Rank
  <2>2. Offers!Place(op.version, op.build, receipt)
        /\ taken' = [taken EXCEPT ![op.version] = t]
    BY <1>4 DEF Offers!Installed
  <2>3. PICK i \in DOMAIN accepted.releases :
          /\ Offers!Identity(accepted.releases[i]) = <<op.version, Offers!Target>>
          /\ accepted.releases[i].build = op.build
    BY <1>4 DEF Offers!StillOffered, Offers!ToSet, Offers!Identity
  <2> HIDE DEF q
  <2>4. receipt \in Receipts /\ receipt.build = op.build /\ t \in Takings
        /\ t.catalog = q /\ t.build = op.build
    BY <1>1, <2>1 DEF Offers!Receipt, Receipts, Takings
  <2> HIDE DEF t, receipt
  <2>5. /\ taken' \in [Versions -> Takings \cup {None}]
        /\ taken'[op.version] = t
        /\ \A v \in Versions \ {op.version} : taken'[v] = taken[v]
    BY <1>1, <2>2, <2>4 DEF OfferInv, OfferShaped
  <2>6. OfferShaped' /\ NamesBuilds' /\ Offers!ReceiptsTrue'
    BY <1>1, <1>2, <2>2, <2>4, <2>5, OfferPlace
  <2>7. NotAfter(q, q)
    BY <2>1 DEF NotAfter
  <2>8. TakenBefore'
    <3>1. Offers!Rank(accepted)' = q
      BY <1>2 DEF Offers!Rank, q
    <3>2. accepted' = accepted
      BY <1>2
    <3>3. ASSUME NEW v \in Versions, taken'[v] # None
          PROVE  /\ NotAfter(taken'[v].catalog, q)
                 /\ taken'[v].catalog = q =>
                      \E j \in DOMAIN accepted.releases :
                        /\ Offers!Identity(accepted.releases[j]) = <<v, Offers!Target>>
                        /\ accepted.releases[j].build = taken'[v].build
      <4>1. CASE v = op.version
        BY <2>3, <2>4, <2>5, <2>7, <4>1
      <4>2. CASE v # op.version
        BY <2>5, <3>3, <4>2 DEF OfferInv, TakenBefore, q
      <4> QED
        BY <4>1, <4>2
    <3> QED
      BY <2>1, <3>1, <3>2, <3>3 DEF OfferInv, TakenBefore
  <2>9. Offers!NeverOlderStep
    <3> SUFFICES ASSUME NEW v \in Versions, taken'[v] # taken[v], taken[v] # None
                 PROVE  LET old == taken[v].catalog  new == taken'[v].catalog IN
                        \/ new[1] > old[1]
                        \/ new[1] = old[1] /\ new[2] > old[2]
      BY DEF Offers!NeverOlderStep
    <3>1. v = op.version /\ taken'[v] = t
      BY <2>5
    <3>2. /\ taken[v] \in Takings
          /\ taken[v].catalog \in {1, 2} \X (1..MaxSequence)
          /\ taken[v] = [catalog |-> taken[v].catalog, build |-> taken[v].build]
          /\ taken[v].catalog[1] \in Nat /\ taken[v].catalog[2] \in Nat
          /\ taken[v].catalog = <<taken[v].catalog[1], taken[v].catalog[2]>>
      BY DEF OfferInv, OfferShaped, Takings
    <3>3. NotAfter(taken[v].catalog, q)
      BY DEF OfferInv, TakenBefore, q
    <3>4. taken[v].catalog # q
      <4> SUFFICES ASSUME taken[v].catalog = q PROVE FALSE
        OBVIOUS
      <4>1. PICK j \in DOMAIN accepted.releases :
              /\ Offers!Identity(accepted.releases[j]) = <<v, Offers!Target>>
              /\ accepted.releases[j].build = taken[v].build
        BY DEF OfferInv, TakenBefore, q
      <4>2. i = j
        BY <2>1, <2>3, <3>1, <4>1 DEF OfferInv, TakenBefore, OneReleaseEach
      <4>3. taken[v].build = op.build
        BY <2>3, <4>1, <4>2
      <4> QED
        BY <3>1, <3>2, <4>3 DEF t
    <3>5. q = <<q[1], q[2]>>
      BY <2>1
    <3>6. q[1] > taken[v].catalog[1] \/ (q[1] = taken[v].catalog[1] /\ q[2] > taken[v].catalog[2])
      BY <2>1, <3>2, <3>3, <3>4, <3>5 DEF NotAfter
    <3> QED
      BY <2>4, <3>1, <3>6
  <2> QED
    BY <2>6, <2>8, <2>9 DEF OfferInv
<1> QED
  BY <1>3, <1>4 DEF Offers!Install

\* A file of the user's, a package of the App's, and a removal.
LEMMA OfferByHand ==
  ASSUME OfferAssumption, OfferInv, NEW v \in Versions,
         Offers!InstallFile(v) \/ Offers!InstallBundled(v) \/ Offers!RemoveRuntime(v)
  PROVE  OfferInv'
<1> USE DEF OfferAssumption
<1>1. /\ UNCHANGED <<built, feed, accepted, bundle, clock, published, taken>>
      /\ operations' \subseteq operations
  BY DEF Offers!InstallFile, Offers!InstallBundled, Offers!RemoveRuntime
<1>2. TakenBefore'
  BY <1>1 DEF OfferInv, TakenBefore
<1>3. taken' \in [Versions -> Takings \cup {None}]
  BY <1>1 DEF OfferInv, OfferShaped
<1>4. CASE Offers!InstallFile(v)
  <2>1. PICK b \in Offers!Of(v) : Offers!Place(v, b, None)
    BY <1>4 DEF Offers!InstallFile
  <2>2. BuiltOf(b, v) /\ b \in Nat
    BY DEF Offers!Of, Offers!Builds, BuiltOf, OfferInv, OfferShaped
  <2> QED
    BY <1>1, <1>2, <1>3, <2>1, <2>2, OfferPlace DEF OfferInv
<1>5. CASE Offers!RemoveRuntime(v)
  BY <1>1, <1>2, <1>3, <1>5, OfferPlace DEF OfferInv, Offers!RemoveRuntime
<1>6. CASE Offers!InstallBundled(v)
  <2>1. bundle[v] \in Receipts /\ BuiltOf(bundle[v].build, v) /\ bundle[v].build \in Nat
        /\ bundle[v].build # 0 /\ bundle[v] # None
    BY <1>6 DEF Offers!InstallBundled, OfferInv, OfferShaped, NamesBuilds, BuiltOf
  <2>2. CASE dirs[v] = 0
    <3>1. PICK receipt \in {bundle[v], None} : Offers!Place(v, bundle[v].build, receipt)
      BY <1>6, <2>2 DEF Offers!InstallBundled
    <3> QED
      BY <1>1, <1>2, <1>3, <2>1, <3>1, OfferPlace DEF OfferInv
  <2>3. CASE dirs[v] # 0
    <3>1. /\ receipts' = [receipts EXCEPT ![v] = bundle[v]]
          /\ guessed' = guessed \cup {v} /\ UNCHANGED <<dirs, removed>>
      BY <1>6, <2>3 DEF Offers!InstallBundled
    <3>2. /\ receipts' \in [Versions -> Receipts \cup {None}]
          /\ \A w \in Versions : w # v => receipts'[w] = receipts[w]
      BY <2>1, <3>1 DEF OfferInv, OfferShaped
    <3>3. OfferShaped'
      BY <1>1, <3>1, <3>2 DEF OfferInv, OfferShaped
    <3>4. NamesBuilds'
      BY <1>1, <2>3, <3>1, <3>2 DEF OfferInv, NamesBuilds, AllBuilt, BuiltOf
    <3>5. Offers!ReceiptsTrue'
      BY <3>1, <3>2 DEF OfferInv, Offers!ReceiptsTrue
    <3> QED
      BY <1>2, <3>3, <3>4, <3>5 DEF OfferInv
  <2> QED
    BY <2>2, <2>3
<1> QED
  BY <1>4, <1>5, <1>6

\* Every step keeps OfferInv, and installs from no older catalog.
LEMMA OfferStep ==
  ASSUME OfferAssumption, OfferInv, [Offers!Next]_Offers!vars
  PROVE  OfferInv' /\ (Offers!NeverOlderStep \/ UNCHANGED Offers!vars)
<1>1. CASE UNCHANGED Offers!vars
  <2>1. UNCHANGED <<built, feed, accepted, dirs, removed, receipts, operations, bundle, clock,
                    published, guessed, taken>>
    BY <1>1 DEF Offers!vars, Offers!client
  <2>2. OfferShaped'
    BY <2>1 DEF OfferInv, OfferShaped
  <2> QED
    BY <1>1, <2>1, <2>2 DEF OfferInv, NamesBuilds, AllBuilt, BuiltOf, Offers!ReceiptsTrue, TakenBefore
<1>2. CASE \E op \in operations : Offers!Install(op)
  BY <1>2, OfferInstall
<1>3. CASE UNCHANGED taken /\ OfferInv'
  BY <1>3 DEF Offers!NeverOlderStep
<1>4. CASE Offers!GenerateV1 \/ Offers!GenerateV2
  <2>1. UNCHANGED taken
    BY <1>4 DEF Offers!GenerateV1, Offers!GenerateV2, Offers!Publish
  <2> QED
    BY <1>3, <1>4, <2>1, OfferGenerateV1, OfferGenerateV2
<1>5. CASE Offers!Tick \/ Offers!Check
  <2>1. UNCHANGED taken
    BY <1>5 DEF Offers!Tick, Offers!Check
  <2> QED
    BY <1>3, <1>5, <2>1, OfferReleased, OfferCheck
<1>6. ASSUME NEW v \in Versions, Offers!Build(v) \/ Offers!BundlePackage(v) \/ Offers!Download(v)
      PROVE  UNCHANGED taken /\ OfferInv'
  <2>1. UNCHANGED taken
    BY <1>6 DEF Offers!Build, Offers!BundlePackage, Offers!Download
  <2> QED
    BY <1>6, <2>1, OfferBuild, OfferReleased, OfferDownload
<1>7. ASSUME NEW v \in Versions,
             Offers!InstallFile(v) \/ Offers!InstallBundled(v) \/ Offers!RemoveRuntime(v)
      PROVE  UNCHANGED taken /\ OfferInv'
  <2>1. UNCHANGED taken
    BY <1>7 DEF Offers!InstallFile, Offers!InstallBundled, Offers!RemoveRuntime
  <2> QED
    BY <1>7, <2>1, OfferByHand
<1> QED
  BY <1>1, <1>2, <1>3, <1>4, <1>5, <1>6, <1>7 DEF Offers!Next

\* OfferInv is an invariant of RuntimeOffers.
LEMMA OfferInvariance ==
  ASSUME OfferAssumption
  PROVE  Offers!Spec => []OfferInv
<1>1. Offers!Init => OfferInv
  BY OfferInit
<1>2. OfferInv /\ [Offers!Next]_Offers!vars => OfferInv'
  BY OfferStep
<1> QED
  BY <1>1, <1>2, PTL DEF Offers!Spec

\* A receipt names the package that the directory came from, whoever installed it
\* and whatever was published meanwhile, unless it was written for a Runtime that
\* was already there (crates/updater runtime_updates.rs, the Agent's installers).
THEOREM OfferReceiptsTrue ==
  ASSUME OfferAssumption
  PROVE  Offers!Spec => []Offers!ReceiptsTrue
<1>1. OfferInv => Offers!ReceiptsTrue
  BY DEF OfferInv
<1> QED
  BY <1>1, OfferInvariance, PTL

\* However long a download waits for its installation and whatever is published
\* meanwhile, a version is never installed from an older catalog than before, and
\* one catalog sequence stands for one package (validate_runtime_catalog,
\* install_runtime_download).
THEOREM OfferNeverOlder ==
  ASSUME OfferAssumption
  PROVE  Offers!Spec => Offers!NeverOlder
<1>1. OfferInv /\ [Offers!Next]_Offers!vars => [Offers!NeverOlderStep]_Offers!vars
  BY OfferStep
<1> QED
  BY <1>1, OfferInvariance, PTL DEF Offers!Spec, Offers!NeverOlder
=============================================================================
