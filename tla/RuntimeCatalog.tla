--------------------------- MODULE RuntimeCatalog ---------------------------
(***************************************************************************)
(* Checking for Runtime updates: the online Catalog v2 with its fallback   *)
(* to v1 and to the cached copy, and the two files that remember what was  *)
(* accepted.  The Agent answers every CheckRuntimeUpdates request in a     *)
(* task of its own and no lock orders them, so checks may overlap; each    *)
(* reads the accepted state before it fetches and writes it afterwards.    *)
(*                                                                         *)
(* write_file_atomically is four steps on a path and its ".part" sibling.  *)
(* A file is an inode: a writer goes on writing to it after another check  *)
(* has renamed it into place or unlinked it.  Removing the old ".part" and *)
(* creating the new one are one step here.                                 *)
(***************************************************************************)
EXTENDS Naturals

CONSTANTS
  Checks,       \* requests that may be in progress at the same time
  MaxSequence,  \* bound on the catalogSequence published as v2
  MaxCrashes,   \* bound on the restarts of the Agent
  Nothing       \* no such file, or no catalog

ASSUME BoundsAssumption == MaxSequence \in Nat \ {0} /\ MaxCrashes \in Nat

\* The published v1 catalog no longer changes.
Catalogs == [schema : {1}, sequence : {1}] \cup [schema : {2}, sequence : 1..MaxSequence]
Files == {"v1", "v2", "accepted"}
FileOf(catalog) == IF catalog.schema = 1 THEN "v1" ELSE "v2"

Inodes == [catalog : Catalogs, whole : BOOLEAN, writer : Checks \cup {Nothing}]

ASSUME NothingAssumption == Nothing \notin Catalogs \cup Checks \cup Inodes

VARIABLES
  published,  \* highest sequence of the Catalog v2 released so far, 0 if none
  file,       \* file[f]: the inode at the path of f, or Nothing
  part,       \* part[f]: the inode at its ".part" path, or Nothing
  pc,         \* control state of each check
  known,      \* the accepted catalog a check has read
  got,        \* the catalog a check has fetched and validated
  at,         \* the file a check is writing
  answered,   \* the last catalog a check returned, Nothing if it failed
  peak,       \* history: the last catalog whose acceptance was completed
  lost,       \* history: the accepted state was removed and not replaced
  crashes

diskVars == <<file, part>>
checkVars == <<pc, known, got, at>>
history == <<peak, lost>>
vars == <<published, diskVars, checkVars, answered, history, crashes>>

States == {"idle", "fetching", "fetchingV1", "creating", "writing", "removing",
           "renaming", "cached", "reading"}

\* The validator's rule for a catalog beside an accepted one of its schema.
Acceptable(catalog, accepted) ==
  accepted.schema = catalog.schema => catalog.sequence >= accepted.sequence

\* Fault: the sequence of a fetched catalog is not compared.
FetchedAcceptableAny(catalog, accepted) == catalog.schema \in {1, 2}

\* accepted is passed to the validator only if it is of the schema fetched.
FetchedAcceptable(catalog, accepted) ==
  accepted = Nothing \/ Acceptable(catalog, accepted)

Init ==
  /\ published = 0
  /\ file = [f \in Files |-> Nothing]
  /\ part = [f \in Files |-> Nothing]
  /\ pc = [c \in Checks |-> "idle"]
  /\ known = [c \in Checks |-> Nothing]
  /\ got = [c \in Checks |-> Nothing]
  /\ at = [c \in Checks |-> "v1"]
  /\ answered = Nothing
  /\ peak = Nothing
  /\ lost = FALSE
  /\ crashes = 0

Goto(c, state) == pc' = [pc EXCEPT ![c] = state]

\* The check is over; what it had read is dropped.
Answer(c, catalog) ==
  /\ Goto(c, "idle")
  /\ known' = [known EXCEPT ![c] = Nothing]
  /\ got' = [got EXCEPT ![c] = Nothing]
  /\ at' = [at EXCEPT ![c] = "v1"]
  /\ answered' = catalog

Publish ==
  /\ published < MaxSequence
  /\ published' = published + 1
  /\ UNCHANGED <<diskVars, checkVars, answered, history, crashes>>

-----------------------------------------------------------------------------
(* The online check.                                                       *)

Load(c) ==
  /\ pc[c] = "idle"
  /\ IF file["accepted"] = Nothing THEN Goto(c, "fetching") /\ UNCHANGED known
     ELSE IF file["accepted"].whole
       THEN known' = [known EXCEPT ![c] = file["accepted"].catalog] /\ Goto(c, "fetching")
     ELSE Goto(c, "cached") /\ UNCHANGED known
  /\ UNCHANGED <<published, diskVars, got, at, answered, history, crashes>>

\* A fetched catalog is validated and then persisted, or the check falls
\* back to the cache.
Fetched(c, catalog) ==
  /\ IF FetchedAcceptable(catalog, known[c])
       THEN /\ got' = [got EXCEPT ![c] = catalog]
            /\ at' = [at EXCEPT ![c] = FileOf(catalog)]
            /\ Goto(c, "creating")
       ELSE Goto(c, "cached") /\ UNCHANGED <<got, at>>
  /\ UNCHANGED <<published, diskVars, known, answered, history, crashes>>

\* The endpoint may still serve an older catalog (a release put back, a
\* stale mirror).
FetchV2(c) ==
  /\ pc[c] = "fetching"
  /\ \E sequence \in 1..published : Fetched(c, [schema |-> 2, sequence |-> sequence])

\* Fault: v1 is tried whatever was accepted before.
FetchV2FailsToV1(c) ==
  /\ pc[c] = "fetching"
  /\ Goto(c, "fetchingV1")
  /\ UNCHANGED <<published, diskVars, known, got, at, answered, history, crashes>>

\* Once v2 has been accepted its failure is not answered with v1.
FetchV2Fails(c) ==
  /\ pc[c] = "fetching"
  /\ Goto(c, IF known[c] # Nothing /\ known[c].schema = 2 THEN "cached" ELSE "fetchingV1")
  /\ UNCHANGED <<published, diskVars, known, got, at, answered, history, crashes>>

FetchV1(c) ==
  /\ pc[c] = "fetchingV1"
  /\ Fetched(c, [schema |-> 1, sequence |-> 1])

FetchV1Fails(c) ==
  /\ pc[c] = "fetchingV1"
  /\ Goto(c, "cached")
  /\ UNCHANGED <<published, diskVars, known, got, at, answered, history, crashes>>

-----------------------------------------------------------------------------
(* Persisting: the catalog file first, the accepted state second.          *)

\* Removes a ".part" another writer may have left, and creates a fresh one.
CreatePart(c) ==
  /\ pc[c] = "creating"
  /\ part' = [part EXCEPT ![at[c]] = [catalog |-> got[c], whole |-> FALSE, writer |-> c]]
  /\ Goto(c, "writing")
  /\ UNCHANGED <<published, file, known, got, at, answered, history, crashes>>

\* Written and synced, wherever the inode is by now.
Written(inode, c) ==
  IF inode # Nothing /\ inode.writer = c
    THEN [inode EXCEPT !.whole = TRUE, !.writer = Nothing] ELSE inode

WritePart(c) ==
  /\ pc[c] = "writing"
  /\ part' = [part EXCEPT ![at[c]] = Written(part[at[c]], c)]
  /\ file' = [file EXCEPT ![at[c]] = Written(file[at[c]], c)]
  /\ Goto(c, "removing")
  /\ UNCHANGED <<published, known, got, at, answered, history, crashes>>

RemoveTarget(c) ==
  /\ pc[c] = "removing"
  /\ file' = [file EXCEPT ![at[c]] = Nothing]
  /\ Goto(c, "renaming")
  /\ UNCHANGED <<published, part, known, got, at, answered, history, crashes>>

\* The accepted state is gone when a writer gives up here.
LosesAccepted(c) == pc[c] = "renaming" /\ at[c] = "accepted"

\* Moves whatever ".part" is there into place; the catalog file is followed
\* by the accepted state, which completes the acceptance.
RenamePart(c) ==
  /\ pc[c] = "renaming"
  /\ part[at[c]] # Nothing
  /\ file' = [file EXCEPT ![at[c]] = part[at[c]]]
  /\ part' = [part EXCEPT ![at[c]] = Nothing]
  /\ IF at[c] = "accepted"
       THEN peak' = got[c] /\ Answer(c, got[c])
       ELSE /\ at' = [at EXCEPT ![c] = "accepted"]
            /\ Goto(c, "creating")
            /\ UNCHANGED <<known, got, answered, peak>>
  /\ UNCHANGED <<published, lost, crashes>>

\* Fault: a catalog that cannot be stored ends the check at once.
WriteFailsSilently(c) ==
  /\ pc[c] \in {"creating", "writing", "removing", "renaming"}
  /\ lost' = (lost \/ LosesAccepted(c))
  /\ Goto(c, "idle")
  /\ UNCHANGED <<published, diskVars, known, got, at, answered, peak, crashes>>

\* Any of the calls may fail; a rename without its ".part" does.
WriteFails(c) ==
  /\ pc[c] \in {"creating", "writing", "removing", "renaming"}
  /\ lost' = (lost \/ LosesAccepted(c))
  /\ Goto(c, "cached")
  /\ UNCHANGED <<published, diskVars, known, got, at, answered, peak, crashes>>

-----------------------------------------------------------------------------
(* The cached catalog, when the online check failed.                       *)

LoadCached(c) ==
  /\ pc[c] = "cached"
  /\ IF file["accepted"] # Nothing /\ file["accepted"].whole
       THEN /\ known' = [known EXCEPT ![c] = file["accepted"].catalog]
            /\ Goto(c, "reading")
            /\ UNCHANGED <<got, at, answered>>
       ELSE Answer(c, Nothing)
  /\ UNCHANGED <<published, diskVars, history, crashes>>

CachedFile(accepted) == FileOf(accepted)

ReadCached(c) ==
  /\ pc[c] = "reading"
  /\ LET inode == file[CachedFile(known[c])] IN
       Answer(c, IF inode = Nothing THEN Nothing
                 ELSE IF inode.whole /\ Acceptable(inode.catalog, known[c])
                   THEN inode.catalog ELSE Nothing)
  /\ UNCHANGED <<published, diskVars, history, crashes>>

\* The Agent dies; at its next start it removes the ".part" files.
Restart ==
  /\ crashes < MaxCrashes
  /\ crashes' = crashes + 1
  /\ lost' = (lost \/ \E c \in Checks : LosesAccepted(c))
  /\ pc' = [c \in Checks |-> "idle"]
  /\ known' = [c \in Checks |-> Nothing]
  /\ got' = [c \in Checks |-> Nothing]
  /\ at' = [c \in Checks |-> "v1"]
  /\ answered' = Nothing
  /\ part' = [f \in Files |-> Nothing]
  /\ file' = [f \in Files |->
       IF file[f] = Nothing THEN Nothing ELSE [file[f] EXCEPT !.writer = Nothing]]
  /\ UNCHANGED <<published, peak>>

-----------------------------------------------------------------------------
Check(c) ==
  \/ Load(c) \/ FetchV2(c) \/ FetchV2Fails(c) \/ FetchV1(c) \/ FetchV1Fails(c)
  \/ CreatePart(c) \/ WritePart(c) \/ RemoveTarget(c) \/ RenamePart(c) \/ WriteFails(c)
  \/ LoadCached(c) \/ ReadCached(c)

Next == Publish \/ Restart \/ \E c \in Checks : Check(c)

Spec == Init /\ [][Next]_vars
-----------------------------------------------------------------------------
(* Properties.                                                             *)

\* Paths hold inodes, checks are in one of their states and hold no catalog
\* while they are idle.
TypeOK ==
  /\ published \in 0..MaxSequence
  /\ file \in [Files -> Inodes \cup {Nothing}]
  /\ part \in [Files -> Inodes \cup {Nothing}]
  /\ pc \in [Checks -> States]
  /\ known \in [Checks -> Catalogs \cup {Nothing}]
  /\ got \in [Checks -> Catalogs \cup {Nothing}]
  /\ \A c \in Checks : pc[c] = "idle" => known[c] = Nothing /\ got[c] = Nothing
  /\ at \in [Checks -> Files]
  /\ answered \in Catalogs \cup {Nothing}
  /\ peak \in Catalogs \cup {Nothing}
  /\ lost \in BOOLEAN
  /\ crashes \in 0..MaxCrashes

\* The accepted state is never a torn file: a torn one would make every later
\* check fail, online and cached, with no way back.
AcceptedReadable == file["accepted"] = Nothing \/ file["accepted"].whole

\* The cached catalog of the accepted schema is whole and at least as new as
\* the accepted state at every moment, so that a download that reads the two
\* in between finds either no catalog or one the accepted state admits.
CatalogCoversAccepted ==
  LET accepted == file["accepted"] IN
  accepted # Nothing =>
    LET cached == file[FileOf(accepted.catalog)] IN
    cached # Nothing => cached.whole /\ Acceptable(cached.catalog, accepted.catalog)

\* No catalog older than this one: not of a lower sequence, not v1 after v2.
NotOlder(catalog, than) == catalog.schema >= than.schema /\ Acceptable(catalog, than)

\* Unless the accepted state was lost, it is never replaced by an older one,
\* across fetches of old catalogs, failed writes and restarts.
AcceptanceAdvances ==
  [][~lost /\ peak # Nothing /\ peak' # peak => NotOlder(peak', peak)]_vars

\* Unless the accepted state was lost, no check answers, online or from the
\* cache, with a catalog older than the last one accepted.
AnswersCoverAccepted ==
  ~lost /\ answered # Nothing => peak # Nothing /\ NotOlder(answered, peak)

\* What was accepted is kept, backed by a catalog and answered with.
AcceptedHolds == AcceptedReadable /\ CatalogCoversAccepted /\ AnswersCoverAccepted

\* The accepted catalog on disk is never older than one accepted before.
SequenceNeverFalls ==
  file["accepted"] # Nothing /\ peak # Nothing =>
    NotOlder(file["accepted"].catalog, peak)

\* Once a Catalog v2 was accepted no v1 is accepted any more.
NeverBackToV1 == [][peak # Nothing /\ peak.schema = 2 => peak'.schema = 2]_vars
-----------------------------------------------------------------------------
(* The inductive invariant behind AcceptedHolds and AcceptanceAdvances, when  *)
(* one check follows the other.                                             *)

\* A check holds the catalog it persists, and the one it reads a cached copy for.
CatalogHeld ==
  \A c \in Checks :
    /\ pc[c] \in {"creating", "writing", "removing", "renaming"} => got[c] # Nothing
    /\ pc[c] = "reading" => known[c] # Nothing

OneAtATime == \A c, d \in Checks : c = d

\* What was renamed into place is whole, nobody writes to it any more, and a
\* catalog file holds a catalog of its schema.
FilesWhole ==
  \A f \in Files : file[f] # Nothing =>
    /\ file[f].whole /\ file[f].writer = Nothing
    /\ f # "accepted" => FileOf(file[f].catalog) = f

Online == {"fetching", "fetchingV1", "creating", "writing", "removing", "renaming"}
Persisting == {"creating", "writing", "removing", "renaming"}

\* From its first read until it removes it, a check knows the accepted state.
KnowsAccepted ==
  \A c \in Checks :
    /\ pc[c] \in Online /\ ~LosesAccepted(c) =>
         known[c] = IF file["accepted"] = Nothing THEN Nothing ELSE file["accepted"].catalog
    /\ pc[c] = "reading" => file["accepted"] # Nothing /\ known[c] = file["accepted"].catalog
    /\ pc[c] = "fetchingV1" => known[c] = Nothing \/ known[c].schema = 1

\* What a check persists is not older than what it knows; the catalog file
\* comes first and holds it when the accepted state is written.
PersistsNewer ==
  \A c \in Checks : pc[c] \in Persisting =>
    /\ known[c] = Nothing \/ NotOlder(got[c], known[c])
    /\ at[c] \in {FileOf(got[c]), "accepted"}
    /\ at[c] = "accepted" =>
         file[FileOf(got[c])] # Nothing /\ file[FileOf(got[c])].catalog = got[c]
    /\ pc[c] \in {"writing", "removing", "renaming"} =>
         part[at[c]] # Nothing /\ part[at[c]].catalog = got[c]
    /\ pc[c] = "writing" => part[at[c]].writer = c
    /\ pc[c] \in {"removing", "renaming"} =>
         part[at[c]].whole /\ part[at[c]].writer = Nothing
    /\ pc[c] = "renaming" => file[at[c]] = Nothing

\* The accepted state is the last one that was accepted, or the check that is
\* replacing it knows that one.
PeakHeld ==
  ~lost =>
    /\ \A c \in Checks : LosesAccepted(c) => known[c] = peak
    /\ (\A c \in Checks : ~LosesAccepted(c)) =>
         peak = IF file["accepted"] = Nothing THEN Nothing ELSE file["accepted"].catalog

Inv ==
  /\ TypeOK /\ CatalogHeld
  /\ FilesWhole /\ KnowsAccepted /\ PersistsNewer /\ PeakHeld
  /\ CatalogCoversAccepted /\ AnswersCoverAccepted
=============================================================================
