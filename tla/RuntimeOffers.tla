---------------------------- MODULE RuntimeOffers ----------------------------
(***************************************************************************)
(* From a built package to an installed Runtime: the maintainers' catalog  *)
(* generators (crates/runtime), what a client accepts of a catalog, what   *)
(* it offers, and what an installation keeps on record in the receipt of   *)
(* the Runtime's directory.                                                *)
(*                                                                         *)
(* A package is the number of its build, which stands for its contents and *)
(* its SHA-256.  A catalog stands for its own SHA-256.  A release or a     *)
(* manifest entry has at most one flaw, named after the field.  The writes *)
(* behind a check are RuntimeCatalog's, the transfer is ArtifactDownload's,*)
(* the directories are RuntimeInstall's.                                   *)
(***************************************************************************)
EXTENDS Naturals, Sequences, SequencesExt, FiniteSets

CONSTANTS
  Windows, OsVersion, App, Protocol,  \* the client
  Versions,     \* versions of one Runtime
  Listed,       \* those that macOS installs online
  EntryFlaws, ReleaseFlaws, DocumentFlaws,  \* flaws to try
  MaxBuilds, MaxPublished, MaxSequence, MaxTime,  \* bounds
  None

VARIABLES
  built,       \* built[b]: the version of which package b was built
  feed,        \* feed[s]: the catalog of schema s on the server, or None
  accepted,    \* the catalog that was accepted last and is cached, or None
  dirs,        \* dirs[v]: the package that the directory of v came from, or 0
  removed,     \* versions marked as removed by the user
  receipts,    \* receipts[v]: package and sequence on record there, or None
  operations,  \* verified downloads that wait for their installation
  bundle,      \* bundle[v]: what comes with the App
  clock,
  published,   \* catalogs published so far
  guessed,     \* history: receipts written for packages nobody looked at
  taken        \* history: taken[v]: catalog and package of its last online installation

client == <<accepted, removed, receipts, operations, guessed>>
vars == <<built, feed, published, client, dirs, bundle, clock, taken>>

Builds == 1..Len(built)
Of(v) == {b \in Builds : built[b] = v}
Targets == {"windows", "macos"}
Target == IF Windows THEN "windows" ELSE "macos"
Slack == 1  \* MAX_GENERATED_AT_FUTURE_SECONDS
MinimumProtocol == 33
ProtocolOf(schema) == IF schema = 1 THEN 36 ELSE 37

Init ==
  /\ built = <<>> /\ feed = <<None, None>> /\ published = 0 /\ accepted = None
  /\ dirs = [v \in Versions |-> 0] /\ receipts = [v \in Versions |-> None]
  /\ removed = {} /\ operations = {} /\ bundle = [v \in Versions |-> None] /\ clock = 0
  /\ guessed = {} /\ taken = [v \in Versions |-> None]

-----------------------------------------------------------------------------
\* What a catalog must be (validate_runtime_catalog).

ReleaseRefuses ==
  {"name", "platform", "version", "major", "minimumOsVersion", "fileName", "url", "size",
   "sha256", "signature", "sourceVerification", "fingerprint", "archiveFormat",
   "installMode", "healthCheckProfile"}

ReleaseValid(r, schema, sequence) ==
  /\ r.flaw \notin ReleaseRefuses
  /\ schema = 2 => r.tag \in 1..sequence

DocumentRefuses == {"signatureMissing", "product", "channel", "unsignedCommunityBuild",
                    "integrity", "expectedSchema"}

Identity(r) == <<r.version, r.target>>

Valid(c, app, protocol, known) ==
  /\ c.flaw \notin DocumentRefuses
  /\ c.sequence > 0
  /\ c.generated <= clock + Slack
  /\ c.expires > c.generated /\ c.expires > clock
  /\ c.app <= app
  /\ MinimumProtocol <= ProtocolOf(c.schema) /\ ProtocolOf(c.schema) <= protocol
  /\ known # None => /\ known.schema = c.schema
                     /\ c.sequence >= known.sequence
                     /\ c.sequence = known.sequence => c = known
  /\ c.releases # <<>>
  /\ \A i \in DOMAIN c.releases : ReleaseValid(c.releases[i], c.schema, c.sequence)
  /\ \A i, j \in DOMAIN c.releases :
       i # j => Identity(c.releases[i]) # Identity(c.releases[j])

-----------------------------------------------------------------------------
\* The maintainers.

Build(v) ==
  /\ Len(built) < MaxBuilds
  /\ built' = Append(built, v)
  /\ UNCHANGED <<feed, published, client, dirs, bundle, clock, taken>>

ManifestRefuses ==
  {"name", "version", "minimumOsVersion", "archiveUrl", "archiveSha256", "signatureUrl",
   "fingerprint", "keyUrl", "healthCheckProfile"}

ManifestValid(m) ==
  /\ m # <<>>
  /\ \A i \in DOMAIN m : m[i].flaw \notin ManifestRefuses
  /\ \A i, j \in DOMAIN m : i # j => m[i].version # m[j].version

\* The packages of one platform, as they lie in the package directory.
PackageReleases(m, target) ==
  [i \in DOMAIN m |->
     [version |-> m[i].version, target |-> target, os |-> m[i].os, flaw |-> m[i].flaw,
      build |-> CHOOSE b \in Of(m[i].version) : \A o \in Of(m[i].version) : o <= b, tag |-> 0]]

Document(schema, sequence, expires, app, releases) ==
  [schema |-> schema, sequence |-> sequence, generated |-> clock, expires |-> expires,
   app |-> app, releases |-> releases, flaw |-> "none"]

\* A generator validates what it writes for the oldest client it is meant for.
Generated(c) == Valid(c, c.app, ProtocolOf(c.schema), None)

Publish(c) ==
  /\ published' = published + 1
  /\ Generated(c)
  /\ feed' = [feed EXCEPT ![c.schema] = c]
  /\ UNCHANGED <<built, client, dirs, bundle, clock, taken>>

Oses == IF Windows THEN {OsVersion} ELSE {OsVersion, OsVersion + 1}
Entries == [version : Versions, os : Oses, flaw : {"none"} \cup EntryFlaws]
Manifests == UNION {[1..n -> Entries] : n \in 0..2}
Times == {clock, clock + 1}

GenerateV1 ==
  /\ published < MaxPublished
  /\ \E mine \in Manifests, other \in {m \in Manifests : Len(m) = 1}, expires \in Times,
        sequence \in 1..MaxSequence :
       LET both == PackageReleases(mine, Target)
                     \o PackageReleases(other, CHOOSE t \in Targets : t # Target) IN
       /\ \A m \in {mine, other} :
            ManifestValid(m) /\ \A i \in DOMAIN m : Of(m[i].version) # {}
       /\ Publish(Document(1, sequence, expires, App, both))

\* A release of the index with a package of its version; its URL names a catalog.
IndexEntries(sequence) ==
  {e \in [version : Versions, target : {Target}, os : Oses, build : Builds,
           tag : {sequence, sequence + 1}, flaw : {"none"} \cup ReleaseFlaws] :
     built[e.build] = e.version}

GenerateV2 ==
  /\ published < MaxPublished
  /\ \E sequence \in 1..MaxSequence, expires \in Times, app \in {App, App + 1},
        n \in 1..2 : \E index \in [1..n -> IndexEntries(sequence)] :
       Publish(Document(2, sequence, expires, app, index))

\* An App is released with packages of the day and the sequence of that day.
BundlePackage(v) ==
  /\ Of(v) # {} /\ feed[2] # None
  /\ \E b \in Of(v) : bundle' = [bundle EXCEPT ![v] = [build |-> b, sequence |-> feed[2].sequence]]
  /\ UNCHANGED <<built, feed, published, client, dirs, clock, taken>>

Tick ==
  /\ clock < MaxTime /\ clock' = clock + 1
  /\ UNCHANGED <<built, feed, published, client, dirs, bundle, taken>>

-----------------------------------------------------------------------------
\* The client: its check and its offers.

Cached == accepted # None /\ Valid(accepted, App, Protocol, accepted)

Rank(c) == <<c.schema, c.sequence>>

ForThisHost(r) == r.target = Target /\ (Windows \/ r.os <= OsVersion)

Offered(c) == {r \in ToSet(c.releases) : ForThisHost(r)}

\* In the first v2 catalog, a Runtime without a receipt passes for the release.
Guesses(c) ==
  IF c.schema = 2 /\ c.sequence = 1
    THEN {r \in Offered(c) : dirs[r.version] # 0 /\ receipts[r.version] = None}
    ELSE {}

OnRecord(c) ==
  [v \in Versions |->
     IF \E r \in Guesses(c) : r.version = v
       THEN [build |-> (CHOOSE r \in Guesses(c) : r.version = v).build, sequence |-> c.sequence]
       ELSE receipts[v]]

Record(c) ==
  /\ receipts' = OnRecord(c)
  /\ guessed' = guessed \cup {r.version : r \in Guesses(c)}

UpdateAvailable(c, r) ==
  LET receipt == OnRecord(c)[r.version] IN
  dirs[r.version] # 0 /\ c.schema = 2 /\ ~(receipt # None /\ receipt.build = r.build)

KnownOf(schema) == IF accepted # None /\ accepted.schema = schema THEN accepted ELSE None

\* v2, and v1 only if v2 cannot be had and was never accepted.
Check ==
  \E schema \in {1, 2}, reachable \in BOOLEAN, flaw \in {"none"} \cup DocumentFlaws :
    /\ feed[schema] # None
    /\ schema = 1 => KnownOf(2) = None /\ (feed[2] = None \/ ~reachable)
    /\ LET c == [feed[schema] EXCEPT !.flaw = flaw] IN
       /\ Valid(c, App, Protocol, KnownOf(schema))
       /\ accepted' = c
       /\ Record(c)
    /\ UNCHANGED <<built, feed, published, dirs, removed, operations, bundle, clock, taken>>

\* StartRuntimeDownload, up to the verified package.
Download(v) ==
  /\ Cached
  /\ Record(accepted)
  /\ \E r \in Offered(accepted) :
       /\ r.version = v /\ (dirs[v] # 0 => UpdateAvailable(accepted, r))
       /\ operations' = operations \cup
            {[version |-> v, build |-> r.build]}
  /\ Cardinality(operations') <= 2
  /\ UNCHANGED <<built, feed, published, accepted, dirs, removed, bundle, clock, taken>>

Supported(v) == Windows \/ v \in Listed

-----------------------------------------------------------------------------
\* Installing.

Place(v, build, receipt) ==
  /\ dirs' = [dirs EXCEPT ![v] = build]
  /\ receipts' = [receipts EXCEPT ![v] = receipt]
  /\ guessed' = guessed \ {v}
  /\ removed' = IF build = 0 THEN removed \cup {v} ELSE removed \ {v}

Receipt(build, sequence) == [build |-> build, sequence |-> sequence]

\* The package is looked up again in the catalog of this moment.
StillOffered(op) ==
  /\ Cached
  /\ \E r \in ToSet(accepted.releases) :
       r.target = Target /\ r.version = op.version /\ r.build = op.build

AlreadyInstalled(op) == receipts[op.version] # None /\ receipts[op.version].build = op.build

Installed(op, catalog) ==
  /\ Place(op.version, op.build, Receipt(op.build, catalog[2]))
  /\ taken' = [taken EXCEPT ![op.version] = [catalog |-> catalog, build |-> op.build]]

Install(op) ==
  /\ operations' = operations \ {op}
  /\ IF Supported(op.version) /\ StillOffered(op) /\ ~AlreadyInstalled(op)
       THEN Installed(op, Rank(accepted))
       ELSE UNCHANGED <<dirs, removed, receipts, guessed, taken>>
  /\ UNCHANGED <<built, feed, published, accepted, bundle, clock>>

\* InstallPhpRuntime and its like install a file that the user has; they
\* write no receipt.
InstallFile(v) ==
  /\ dirs[v] = 0
  /\ \E b \in Of(v) : Place(v, b, None)
  /\ UNCHANGED <<built, feed, published, accepted, operations, bundle, clock, taken>>

\* The Desktop's start: a missing Runtime is installed unless it was removed; on
\* Windows one without a receipt gets that of the App.
InstallBundled(v) ==
  /\ bundle[v] # None
  /\ v \notin removed
  /\ IF dirs[v] = 0
       THEN Place(v, bundle[v].build, IF Windows THEN bundle[v] ELSE None)
       ELSE /\ Windows /\ receipts[v] = None
            /\ receipts' = [receipts EXCEPT ![v] = bundle[v]]
            /\ guessed' = guessed \cup {v}
            /\ UNCHANGED <<dirs, removed>>
  /\ UNCHANGED <<built, feed, published, accepted, operations, bundle, clock, taken>>

RemoveRuntime(v) ==
  /\ dirs[v] # 0
  /\ Place(v, 0, None)
  /\ UNCHANGED <<built, feed, published, accepted, operations, bundle, clock, taken>>

Next ==
  \/ GenerateV1 \/ GenerateV2 \/ Tick \/ Check
  \/ \E v \in Versions : Build(v) \/ BundlePackage(v) \/ Download(v)
                           \/ InstallFile(v) \/ InstallBundled(v) \/ RemoveRuntime(v)
  \/ \E op \in operations : Install(op)

Spec == Init /\ [][Next]_vars

-----------------------------------------------------------------------------
TypeOK ==
  /\ built \in Seq(Versions) /\ Len(built) <= MaxBuilds
  /\ \A s \in {1, 2} : feed[s] # None => feed[s].schema = s
  /\ accepted = None \/ accepted.sequence \in 1..MaxSequence
  /\ dirs \in [Versions -> 0..Len(built)] /\ clock \in 0..MaxTime /\ published \in 0..MaxPublished
  /\ \A v \in Versions : receipts[v] # None => dirs[v] # 0
  /\ \A op \in operations : built[op.build] = op.version
  /\ guessed \cup removed \subseteq Versions /\ DOMAIN taken = Versions /\ DOMAIN bundle = Versions

\* A receipt names the package that the directory came from, so that whether an
\* update is available is decided by what is installed; only receipts that were
\* written for a Runtime somebody else had put there may be wrong.
ReceiptsTrue ==
  \A v \in Versions : receipts[v] # None /\ v \notin guessed => receipts[v].build = dirs[v]

\* However long a download waits for its installation and whatever is published
\* meanwhile, a version is never installed from an older catalog than before,
\* and one catalog sequence stands for one package.
NeverOlderStep ==
  \A v \in Versions : taken'[v] # taken[v] /\ taken[v] # None =>
    LET old == taken[v].catalog  new == taken'[v].catalog IN
    \/ new[1] > old[1]
    \/ new[1] = old[1] /\ new[2] > old[2]
NeverOlder == [][NeverOlderStep]_vars
=============================================================================
