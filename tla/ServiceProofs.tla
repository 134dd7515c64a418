---------------------------- MODULE ServiceProofs ----------------------------
(***************************************************************************)
(* Theorems about components that MCServices runs side by side, each for   *)
(* every value of its constants.  A component is an instance under a name  *)
(* of its own; constants and variables of the same name stand for one      *)
(* component at a time.                                                    *)
(***************************************************************************)
EXTENDS Naturals, Integers, SequenceTheorems, FiniteSetTheorems, NaturalsInduction,
        WellFoundedInduction, TLAPS

CONSTANTS
  Installer, Segmented, Size, Releases, Absent,   \* of ArtifactDownload
  Domains, Callers, None, MaxCas, MaxRuns,        \* of LocalCa
  Homes, FirstHome, Names, DomainOf, Outside, Bad, Php, DefaultPhp, Linked,
  MaxChanges,                                     \* of SiteHomes
  Windows, Tasks, Kinds, MaxAgents, MaxRequests,  \* of AgentLifecycle
  MaxFaults

VARIABLES
  newest, running, target, partial, segments, pending, at, wanted, fetched, cancelled,
  outcome, faultless, failures, spoiled, interrupted, mishaps,
  ca, certs, callers, lock, trusted, secured, raced, lost, made, runs, faults,
  home, entries, rows, linked, files, certificates, domains, loaded, pools, shares, phase,
  job, damage, changes,
  agents, endpoint, web, mariadb, desktop, startLock, tray, displaced, halted, requests,
  troubles

Download == INSTANCE ArtifactDownload
Ca == INSTANCE LocalCa
Home == INSTANCE SiteHomes
Life == INSTANCE AgentLifecycle

-----------------------------------------------------------------------------
(* ArtifactDownload.                                                       *)

Chunk == Download!Chunk
Pieces == Download!Pieces
Whole == Download!Whole
NoSegments == Download!NoSegments

USE DEF Chunk, Pieces, Whole, NoSegments

\* Releases are numbered as they are published; Absent is neither a release, nor
\* a file, nor what a segment may hold.
DownloadAssumption ==
  /\ Installer \in BOOLEAN /\ Segmented \in BOOLEAN
  /\ Size \in Nat \ {0} /\ MaxFaults \in Nat
  /\ Releases \subseteq Nat \ {0} /\ 1 \in Releases
  /\ Absent \notin Releases /\ Absent \notin Seq(Chunk)
  /\ Absent \notin Chunk /\ Absent # "short"

\* A finished file, and one that may still be short.
Full == [Pieces -> Chunk]
File == {s \in Seq(Chunk) : Len(s) <= Size}

\* What is on disk has the shape of a file.
Shaped ==
  /\ newest \in Releases /\ wanted \in Releases /\ running \in Releases \cup {0}
  /\ target \in [Releases -> Full \cup {Absent}]
  /\ partial \in [Releases -> File \cup {Absent}]
  /\ segments \in [Releases -> [Pieces -> Chunk \cup {"short", Absent}]]
  /\ pending \in Releases \cup {Absent}
  /\ fetched \in File
  /\ spoiled \subseteq Releases

\* Where the attempt is says what it has: what was hashed is what the ".part" holds.
InStep ==
  /\ at # "idle" => outcome = "none"
  /\ at = "body" => ~Segmented /\ partial[wanted] = fetched
  /\ at \in {"segments", "combined", "cleanup"} => Segmented
  /\ at = "combined" => partial[wanted] \in Full
  /\ at = "manifest" => Installer
  /\ ~Installer => pending = Absent
  /\ ~Segmented => \A r \in Releases : segments[r] = NoSegments

\* OnlyVerified, with the steps between the verification and the delivery.
Verified ==
  /\ at \in {"cleanup", "delivered", "manifest"} => target[wanted] = Whole
  /\ at \in {"transfer", "body", "segments", "combined"} => target[wanted] = Absent
  /\ Download!OnlyVerified

\* A finished file has no ".part" beside it, and no ".resume" either unless their
\* removal was interrupted.
Tidy ==
  /\ \A r \in Releases : target[r] # Absent =>
       /\ partial[r] = Absent
       /\ r \notin interrupted /\ ~(at = "cleanup" /\ r = wanted) => segments[r] = NoSegments
  /\ Download!NothingLeft

\* Nothing lies on disk of a release that no attempt has wanted yet.
Untouched ==
  /\ wanted <= newest
  /\ \A r \in Releases : r > wanted => partial[r] = Absent /\ segments[r] = NoSegments

Clean(r) ==
  /\ partial[r] # Absent => \A i \in 1..Len(partial[r]) : partial[r][i] = "right"
  /\ \A i \in Pieces : segments[r][i] # "wrong"

\* Once an undisturbed attempt has failed, all that is left is right.
Purged ==
  /\ failures \in {0, 1}
  /\ failures = 1 => \A r \in Releases : r >= wanted => Clean(r)

DownloadInv == Shaped /\ InStep /\ Verified /\ Tidy /\ Untouched /\ Purged

\* A file of full length is a finished file, and the other way round.
LEMMA FullFiles ==
  ASSUME DownloadAssumption
  PROVE  /\ \A f \in Full : f \in File /\ Len(f) = Size
         /\ \A f \in File : Len(f) = Size => f \in Full
         /\ Whole \in Full
         /\ \A f \in File : Len(f) = Size /\ (\A i \in 1..Len(f) : f[i] = "right") => f = Whole
<1>1. \A f \in Full : f \in File /\ Len(f) = Size
  BY DEF Full, File, Pieces, Download!Pieces, DownloadAssumption
<1>2. \A f \in File : Len(f) = Size => f \in Full
  BY DEF Full, File, Pieces, Download!Pieces, DownloadAssumption
<1>3. Whole \in Full
  BY DEF Whole, Download!Whole, Full, Pieces, Download!Pieces, Chunk, Download!Chunk
<1>4. ASSUME NEW f \in File, Len(f) = Size, \A i \in 1..Len(f) : f[i] = "right"
      PROVE  f = Whole
  <2>1. f \in Full
    BY <1>2, <1>4
  <2>2. \A i \in Pieces : f[i] = "right"
    BY <1>4 DEF Pieces, Download!Pieces
  <2> QED
    BY <2>1, <2>2 DEF Full, Whole, Download!Whole, Pieces
<1> QED
  BY <1>1, <1>2, <1>3, <1>4

\* A file that a chunk is added to is a file of one chunk more; without its last
\* chunk it is one still.
LEMMA FileOps ==
  ASSUME DownloadAssumption, NEW f \in File
  PROVE  /\ <<>> \in File
         /\ \A c \in Chunk : Len(f) < Size =>
              /\ Append(f, c) \in File
              /\ Len(Append(f, c)) = Len(f) + 1
              /\ Append(f, c)[Len(f) + 1] = c
              /\ \A i \in 1..Len(f) : Append(f, c)[i] = f[i]
         /\ f # <<>> => Download!Front(f) \in File
<1>1. f \in Seq(Chunk) /\ Len(f) \in Nat /\ Len(f) <= Size /\ Size \in Nat
  BY DEF File, DownloadAssumption
<1>2. <<>> \in File
  BY DEF File, DownloadAssumption
<1>3. ASSUME NEW c \in Chunk, Len(f) < Size
      PROVE  /\ Append(f, c) \in File
             /\ Len(Append(f, c)) = Len(f) + 1
             /\ Append(f, c)[Len(f) + 1] = c
             /\ \A i \in 1..Len(f) : Append(f, c)[i] = f[i]
  BY <1>1, <1>3 DEF File
<1>4. f # <<>> => Download!Front(f) \in File
  BY <1>1 DEF File, Download!Front
<1> QED
  BY <1>2, <1>3, <1>4

\* The constants that files are compared with.
LEMMA Contents ==
  ASSUME DownloadAssumption
  PROVE  /\ Whole \in Full /\ Whole # Absent /\ Absent \notin Full /\ Absent \notin File
         /\ NoSegments \in [Pieces -> Chunk \cup {"short", Absent}]
         /\ \A i \in Pieces : NoSegments[i] = Absent
         /\ Absent \notin {"right", "wrong", "short"}
         /\ \A f \in Full : f \in File
<1>1. Whole \in Full /\ \A f \in Full : f \in File
  BY FullFiles
<1>2. Absent \notin File
  BY DEF File, DownloadAssumption
<1>3. Absent \notin {"right", "wrong", "short"}
  BY DEF DownloadAssumption, Download!Chunk
<1>4. NoSegments \in [Pieces -> Chunk \cup {"short", Absent}] /\ \A i \in Pieces : NoSegments[i] = Absent
  BY DEF Download!NoSegments
<1> QED
  BY <1>1, <1>2, <1>3, <1>4

\* It holds at the start.
LEMMA DownloadInit ==
  ASSUME DownloadAssumption, Download!Init
  PROVE  DownloadInv
<1> USE DownloadAssumption, Contents, FileOps DEF DownloadAssumption
<1>1. Shaped
  <2>1. <<>> \in File
    BY DEF File
  <2> QED
    BY <2>1 DEF Shaped, Download!Init
<1>2. InStep
  BY DEF InStep, Download!Init
<1>3. Verified
  BY DEF Verified, Download!OnlyVerified, Download!Init
<1>4. Tidy
  BY DEF Tidy, Download!NothingLeft, Download!Init
<1>5. Untouched
  BY DEF Untouched, Download!Init
<1>6. Purged
  BY DEF Purged, Download!Init
<1> QED
  BY <1>1, <1>2, <1>3, <1>4, <1>5, <1>6 DEF DownloadInv

\* The steps that leave the files and what may be beside them as they are.
LEMMA DownloadQuiet ==
  ASSUME DownloadAssumption, DownloadInv,
         \/ Download!Publish \/ Download!Begin \/ Download!Cancel
         \/ Download!SelectCancelled \/ Download!SelectUpToDate \/ Download!SelectFails
         \/ Download!WriteManifestFails \/ Download!Install
  PROVE  DownloadInv'
<1> USE DownloadAssumption, Contents DEF DownloadAssumption, DownloadInv, Download!files,
      Download!attempt, Download!history, Download!Done, Download!Fault
<1>0. <<>> \in File
  BY DEF File
<1>9. UNCHANGED <<partial, segments>> => \A r : Clean(r)' <=> Clean(r)
  BY DEF Clean
<1>1. CASE Download!Publish
  <2>1. Shaped' /\ InStep' /\ Verified' /\ Tidy'
    <3>1. Shaped'
      BY <1>1 DEF Download!Publish, Shaped
    <3>2. InStep'
      BY <1>1 DEF Download!Publish, InStep
    <3>3. Verified'
      BY <1>1 DEF Download!Publish, Verified, Download!OnlyVerified
    <3>4. Tidy'
      BY <1>1 DEF Download!Publish, Tidy, Download!NothingLeft
    <3> QED
      BY <3>1, <3>2, <3>3, <3>4
  <2>2. Untouched' /\ Purged'
    BY <1>1, <1>9 DEF Download!Publish, Shaped, Untouched, Purged
  <2> QED
    BY <2>1, <2>2
<1>2. CASE Download!Begin
  <2>1. Shaped' /\ InStep' /\ Verified' /\ Tidy'
    <3>1. Shaped'
      BY <1>0, <1>2 DEF Download!Begin, Shaped
    <3>2. InStep'
      BY <1>0, <1>2 DEF Download!Begin, Shaped, InStep
    <3>3. Verified'
      BY <1>2 DEF Download!Begin, Verified, Download!OnlyVerified
    <3>4. Tidy'
      BY <1>2 DEF Download!Begin, Tidy, Download!NothingLeft
    <3> QED
      BY <3>1, <3>2, <3>3, <3>4
  <2>2. Untouched' /\ Purged'
    <3>1. Untouched'
      BY <1>2 DEF Download!Begin, Shaped, Untouched
    <3>2. Purged'
      <4>1. /\ wanted' = newest /\ failures' = failures /\ partial' = partial /\ segments' = segments
        BY <1>2 DEF Download!Begin
      <4>2. \A r \in Releases : r >= newest => r >= wanted
        BY DEF Shaped, Untouched
      <4> QED
        BY <1>9, <4>1, <4>2 DEF Purged
    <3> QED
      BY <3>1, <3>2
  <2> QED
    BY <2>1, <2>2
<1>3. CASE Download!Cancel \/ Download!SelectCancelled \/ Download!SelectUpToDate \/ Download!SelectFails
  <2>1. Shaped' /\ InStep' /\ Verified' /\ Tidy'
    BY <1>0, <1>3 DEF Download!Cancel, Download!SelectCancelled, Download!SelectUpToDate, Download!SelectFails, Shaped, InStep, Verified, Tidy, Download!OnlyVerified, Download!NothingLeft
  <2>2. Untouched' /\ Purged'
    BY <1>3, <1>9 DEF Download!Cancel, Download!SelectCancelled, Download!SelectUpToDate, Download!SelectFails, Shaped, Untouched, Purged
  <2> QED
    BY <2>1, <2>2
<1>4. CASE Download!WriteManifestFails
  <2>1. Shaped' /\ InStep' /\ Verified' /\ Tidy'
    BY <1>0, <1>4 DEF Download!WriteManifestFails, Shaped, InStep, Verified, Tidy, Download!OnlyVerified, Download!NothingLeft
  <2>2. Untouched' /\ Purged'
    BY <1>4, <1>9 DEF Download!WriteManifestFails, Shaped, Untouched, Purged
  <2> QED
    BY <2>1, <2>2
<1>5. CASE Download!Install
  <2>1. Shaped' /\ InStep' /\ Verified' /\ Tidy'
    BY <1>0, <1>5 DEF Download!Install, Shaped, InStep, Verified, Tidy, Download!OnlyVerified, Download!NothingLeft
  <2>2. Untouched' /\ Purged'
    BY <1>5, <1>9 DEF Download!Install, Shaped, Untouched, Purged
  <2> QED
    BY <2>1, <2>2
<1> QED
  BY <1>1, <1>2, <1>3, <1>4, <1>5

\* A file stays clean whose ".part" is kept or dropped, and of which no segment gets wrong.
LEMMA CleanKept ==
  ASSUME NEW r, partial'[r] \in {partial[r], Absent}, Clean(r),
         \A i \in Pieces : segments'[r][i] = "wrong" => segments[r][i] = "wrong"
  PROVE  Clean(r)'
BY DEF Clean

\* A clean file of full length is the one that was published.
LEMMA CleanIsWhole ==
  ASSUME DownloadAssumption, NEW r, Clean(r), partial[r] \in File, Len(partial[r]) = Size
  PROVE  partial[r] = Whole
<1>1. partial[r] # Absent
  BY Contents
<1> QED
  BY <1>1, FullFiles DEF Clean

\* A failure that leaves nothing of its release leaves only what is right.
LEMMA PurgedByFailure ==
  ASSUME DownloadAssumption, wanted \in Releases, wanted' = wanted, Untouched', failures' \in {0, 1},
         partial'[wanted] = Absent, segments'[wanted] = NoSegments
  PROVE  Purged'
<1>1. \A r \in Releases : r >= wanted => partial'[r] = Absent /\ segments'[r] = NoSegments
  BY DEF Untouched, DownloadAssumption
<1>2. \A r \in Releases : r >= wanted => Clean(r)'
  BY <1>1, Contents DEF Clean
<1> QED
  BY <1>2 DEF Purged

\* The steps before and after the transfer.
LEMMA DownloadAround ==
  ASSUME DownloadAssumption, DownloadInv,
         Download!Prepare \/ Download!DeliverPackage \/ Download!RemoveManifest \/
         Download!WriteManifest
  PROVE  DownloadInv'
<1> USE DownloadAssumption, Contents DEF DownloadAssumption, DownloadInv, Download!files,
      Download!attempt, Download!history, Download!Done, Download!DoneBadly, Download!Fault,
      Download!Fine, Download!Go, Download!SetPartial
<1>0. <<>> \in File
  BY DEF File
<1>1. CASE Download!Prepare
  <2>1. Shaped'
    BY <1>0, <1>1 DEF Download!Prepare, Shaped, InStep
  <2>3. InStep'
    BY <1>0, <1>1 DEF Download!Prepare, Shaped, InStep
  <2>4. Verified'
    BY <1>0, <1>1 DEF Download!Prepare, Shaped, InStep, Verified, Download!OnlyVerified
  <2>5. Tidy'
    BY <1>0, <1>1 DEF Download!Prepare, Shaped, InStep, Verified, Tidy, Download!OnlyVerified, Download!NothingLeft
  <2>2. Untouched' /\ Purged'
    BY <1>1, CleanKept DEF Download!Prepare, Shaped, InStep, Untouched, Purged
  <2> QED
    BY <2>1, <2>2, <2>3, <2>4, <2>5
<1>2. CASE Download!DeliverPackage
  <2>1. Shaped' /\ InStep' /\ Verified' /\ Tidy'
    BY <1>0, <1>2 DEF Download!DeliverPackage,
       Shaped, InStep, Verified, Tidy, Download!OnlyVerified, Download!NothingLeft
  <2>2. Untouched' /\ Purged'
    BY <1>2, CleanKept DEF Download!DeliverPackage, Shaped, InStep, Untouched, Purged
  <2> QED
    BY <2>1, <2>2
<1>3. CASE Download!RemoveManifest \/ Download!WriteManifest
  <2>1. Shaped' /\ InStep' /\ Verified' /\ Tidy'
    BY <1>0, <1>3 DEF Download!RemoveManifest, Download!WriteManifest,
       Shaped, InStep, Verified, Tidy, Download!OnlyVerified, Download!NothingLeft
  <2>2. Untouched' /\ Purged'
    BY <1>3, CleanKept DEF Download!RemoveManifest, Download!WriteManifest, Shaped, InStep, Untouched, Purged
  <2> QED
    BY <2>1, <2>2
<1> QED
  BY <1>1, <1>2, <1>3

\* The steps of a transfer in one stream.
LEMMA DownloadStreamed ==
  ASSUME DownloadAssumption, DownloadInv,
         Download!TransferCancelled \/ Download!FinishPartial \/ Download!Respond \/
         Download!RespondFails \/ Download!ReceiveChunk \/ Download!BodyFails \/
         Download!FinishBody
  PROVE  DownloadInv'
<1> USE DownloadAssumption, Contents DEF DownloadAssumption, DownloadInv, Download!files,
      Download!attempt, Download!history, Download!Done, Download!DoneBadly, Download!Fault,
      Download!Fine, Download!Go, Download!SetPartial
<1>0. <<>> \in File
  BY DEF File
<1>1. CASE Download!TransferCancelled
  <2>1. Shaped' /\ InStep' /\ Verified' /\ Tidy'
    BY <1>0, <1>1 DEF Download!TransferCancelled,
       Shaped, InStep, Verified, Tidy, Download!OnlyVerified, Download!NothingLeft
  <2>2. Untouched' /\ Purged'
    BY <1>1, CleanKept DEF Download!TransferCancelled, Shaped, InStep, Untouched, Purged
  <2> QED
    BY <2>1, <2>2
<1>2. CASE Download!FinishPartial
  <2>1. Shaped'
    <3>1. /\ target' = target \/ target' = [target EXCEPT ![wanted] = Whole]
          /\ spoiled' \subseteq spoiled
          /\ partial' = [partial EXCEPT ![wanted] = Absent]
          /\ fetched' \in {fetched, <<>>}
          /\ UNCHANGED <<newest, running, segments, pending, wanted>>
      BY <1>2 DEF Download!FinishPartial, Download!Finish, Download!Failed, InStep
    <3> QED
      BY <1>0, <3>1 DEF Shaped
  <2>3. InStep'
    BY <1>0, <1>2 DEF Download!FinishPartial, Download!Finish, Download!Failed, Shaped, InStep
  <2>4. Verified'
    BY <1>0, <1>2 DEF Download!FinishPartial, Download!Finish, Download!Failed, Shaped, InStep, Verified, Download!OnlyVerified
  <2>5. Tidy'
    BY <1>0, <1>2 DEF Download!FinishPartial, Download!Finish, Download!Failed, Shaped, InStep, Verified, Tidy, Download!OnlyVerified, Download!NothingLeft
  <2>2. Untouched'
    BY <1>2, Contents DEF Download!FinishPartial, Download!Finish, Download!Failed, Shaped, InStep, Untouched
  <2>6. Purged'
    <3>1. CASE partial[wanted] = Whole
      BY <1>2, <3>1, CleanKept DEF Download!FinishPartial, Download!Finish, Download!Failed, Shaped, Purged
    <3>2. CASE partial[wanted] # Whole
      <4>1. failures # 1
        BY <1>2, <3>2, CleanIsWhole DEF Download!FinishPartial, Download!Finish, Download!Failed, Shaped, InStep, Purged
      <4>2. failures' \in {0, 1} /\ wanted' = wanted
        BY <1>2, <3>2, <4>1 DEF Download!FinishPartial, Download!Finish, Download!Failed, Purged
      <4>3. partial'[wanted] = Absent /\ segments'[wanted] = NoSegments
        BY <1>2, <3>2 DEF Download!FinishPartial, Download!Finish, Download!Failed, Shaped, InStep
      <4> QED
        BY <2>2, <4>2, <4>3, PurgedByFailure DEF Shaped
    <3> QED
      BY <3>1, <3>2
  <2> QED
    BY <2>1, <2>2, <2>3, <2>4, <2>5, <2>6
<1>3. CASE Download!Respond
  <2>1. Shaped'
    BY <1>0, <1>3, FileOps DEF Download!Respond, Shaped, InStep
  <2>3. InStep'
    BY <1>0, <1>3, FileOps DEF Download!Respond, Shaped, InStep
  <2>4. Verified'
    BY <1>0, <1>3, FileOps DEF Download!Respond, Shaped, InStep, Verified, Download!OnlyVerified
  <2>5. Tidy'
    BY <1>0, <1>3, FileOps DEF Download!Respond, Shaped, InStep, Verified, Tidy, Download!OnlyVerified, Download!NothingLeft
  <2>2. Untouched'
    BY <1>3, Contents, FileOps DEF Download!Respond, Shaped, InStep, Untouched
  <2>6. Purged'
    <3>1. failures' = failures /\ wanted' = wanted
      BY <1>3 DEF Download!Respond
    <3>2. ASSUME NEW r \in Releases, Clean(r)
          PROVE  Clean(r)'
      <4>1. segments'[r] = segments[r] /\ partial'[r] \in {partial[r], <<>>}
        BY <1>3 DEF Download!Respond, Shaped
      <4> QED
        BY <3>2, <4>1 DEF Clean
    <3> QED
      BY <3>1, <3>2 DEF Purged
  <2> QED
    BY <2>1, <2>2, <2>3, <2>4, <2>5, <2>6
<1>4. CASE Download!RespondFails
  <2>1. Shaped' /\ InStep' /\ Verified' /\ Tidy'
    BY <1>0, <1>4 DEF Download!RespondFails, Download!AfterFailure,
       Shaped, InStep, Verified, Tidy, Download!OnlyVerified, Download!NothingLeft
  <2>2. Untouched' /\ Purged'
    BY <1>4, CleanKept DEF Download!RespondFails, Download!AfterFailure, Shaped, InStep, Untouched, Purged
  <2> QED
    BY <2>1, <2>2
<1>5. CASE Download!ReceiveChunk
  <2>0. PICK c \in Chunk : Download!Receive(c) /\ ((c = "right" /\ Download!Fine) \/ failures' = 0)
    BY <1>5 DEF Download!ReceiveChunk, Download!Chunk
  <2>1. /\ Append(fetched, c) \in File /\ partial[wanted] = fetched /\ wanted \in Releases
        /\ Len(Append(fetched, c)) = Len(fetched) + 1
        /\ Append(fetched, c)[Len(fetched) + 1] = c
        /\ \A i \in 1..Len(fetched) : Append(fetched, c)[i] = fetched[i]
    BY <2>0, FileOps DEF Download!Receive, Shaped, InStep
  <2>2. /\ partial' = [partial EXCEPT ![wanted] = Append(fetched, c)]
        /\ fetched' = Append(fetched, c) /\ at = "body"
        /\ UNCHANGED <<newest, running, target, segments, pending, at, wanted, cancelled, outcome,
                       spoiled, interrupted>>
    BY <2>0, <2>1 DEF Download!Receive
  <2> HIDE <1>5
  <2>3. Shaped'
    BY <2>1, <2>2 DEF Shaped
  <2>4. InStep'
    BY <2>1, <2>2 DEF Shaped, InStep
  <2>5. Verified'
    BY <2>2 DEF Verified, Download!OnlyVerified
  <2>6. Tidy'
    BY <2>2 DEF Shaped, Verified, Tidy, Download!NothingLeft
  <2>7. Untouched'
    BY <2>2 DEF Shaped, Untouched
  <2>8. ASSUME NEW r \in Releases, Clean(r), c = "right"
        PROVE  Clean(r)'
    <3>1. CASE r # wanted
      BY <2>2, <2>8, <3>1, CleanKept DEF Shaped
    <3>2. CASE r = wanted
      <4>1. \A i \in 1..Len(fetched) : fetched[i] = "right"
        BY <2>1, <2>8, <3>2 DEF Clean, Shaped
      <4>2. \A i \in 1..Len(Append(fetched, c)) : Append(fetched, c)[i] = "right"
        <5>1. Len(fetched) \in Nat
          BY DEF Shaped, File
        <5> QED
          BY <2>1, <2>8, <4>1, <5>1
      <4>3. partial'[r] = Append(fetched, c) /\ segments'[r] = segments[r]
        BY <2>1, <2>2, <3>2 DEF Shaped
      <4> QED
        BY <2>8, <4>2, <4>3 DEF Clean
    <3> QED
      BY <3>1, <3>2
  <2>9. Purged'
    BY <2>0, <2>2, <2>8 DEF Purged
  <2> QED
    BY <2>3, <2>4, <2>5, <2>6, <2>7, <2>9
<1>6. CASE Download!BodyFails
  <2>1. Shaped' /\ InStep' /\ Verified' /\ Tidy'
    BY <1>0, <1>6, FileOps DEF Download!BodyFails, Download!AfterFailure,
       Shaped, InStep, Verified, Tidy, Download!OnlyVerified, Download!NothingLeft
  <2>2. Untouched' /\ Purged'
    BY <1>6, CleanKept, FileOps DEF Download!BodyFails, Download!AfterFailure, Shaped, InStep, Untouched, Purged
  <2> QED
    BY <2>1, <2>2
<1>7. CASE Download!FinishBody
  <2>1. Shaped'
    <3>1. /\ target' = target \/ target' = [target EXCEPT ![wanted] = Whole]
          /\ spoiled' \subseteq spoiled
          /\ partial' = [partial EXCEPT ![wanted] = Absent]
          /\ fetched' \in {fetched, <<>>}
          /\ UNCHANGED <<newest, running, segments, pending, wanted>>
      BY <1>7 DEF Download!FinishBody, Download!Finish, Download!Failed, InStep
    <3> QED
      BY <1>0, <3>1 DEF Shaped
  <2>3. InStep'
    BY <1>0, <1>7 DEF Download!FinishBody, Download!Finish, Download!Failed, Shaped, InStep
  <2>4. Verified'
    BY <1>0, <1>7 DEF Download!FinishBody, Download!Finish, Download!Failed, Shaped, InStep, Verified, Download!OnlyVerified
  <2>5. Tidy'
    BY <1>0, <1>7 DEF Download!FinishBody, Download!Finish, Download!Failed, Shaped, InStep, Verified, Tidy, Download!OnlyVerified, Download!NothingLeft
  <2>2. Untouched'
    BY <1>7, Contents DEF Download!FinishBody, Download!Finish, Download!Failed, Shaped, InStep, Untouched
  <2>6. Purged'
    <3>1. CASE fetched = Whole
      BY <1>7, <3>1, CleanKept DEF Download!FinishBody, Download!Finish, Download!Failed, Shaped, Purged
    <3>2. CASE fetched # Whole
      <4>1. failures # 1
        BY <1>7, <3>2, CleanIsWhole DEF Download!FinishBody, Download!Finish, Download!Failed, Shaped, InStep, Purged
      <4>2. failures' \in {0, 1} /\ wanted' = wanted
        BY <1>7, <3>2, <4>1 DEF Download!FinishBody, Download!Finish, Download!Failed, Purged
      <4>3. partial'[wanted] = Absent /\ segments'[wanted] = NoSegments
        BY <1>7, <3>2 DEF Download!FinishBody, Download!Finish, Download!Failed, Shaped, InStep
      <4> QED
        BY <2>2, <4>2, <4>3, PurgedByFailure DEF Shaped
    <3> QED
      BY <3>1, <3>2
  <2> QED
    BY <2>1, <2>2, <2>3, <2>4, <2>5, <2>6
<1> QED
  BY <1>1, <1>2, <1>3, <1>4, <1>5, <1>6, <1>7

\* A segment is set: no other file is concerned, and none of a finished release.
LEMMA SegmentSet ==
  ASSUME DownloadAssumption, DownloadInv, at = "segments", NEW i \in Pieces,
         NEW content \in Chunk \cup {"short", Absent}, Download!SetSegment(i, content),
         \/ UNCHANGED <<at, fetched, outcome>>
         \/ at' = "idle" /\ fetched' = <<>> /\ outcome' = "failed",
         UNCHANGED <<newest, running, target, partial, pending, wanted, spoiled, interrupted>>
  PROVE  /\ Shaped' /\ InStep' /\ Verified' /\ Tidy' /\ Untouched'
         /\ content # "wrong" => \A r \in Releases : Clean(r) => Clean(r)'
<1> USE DownloadAssumption, Contents DEF DownloadAssumption, DownloadInv
<1>0. <<>> \in File
  BY DEF File
<1>1. /\ wanted \in Releases /\ Segmented
      /\ segments' \in [Releases -> [Pieces -> Chunk \cup {"short", Absent}]]
      /\ \A r \in Releases \ {wanted} : segments'[r] = segments[r]
      /\ segments'[wanted] = [segments[wanted] EXCEPT ![i] = content]
  BY DEF Download!SetSegment, Shaped, InStep
<1>2. Shaped'
  BY <1>0, <1>1 DEF Shaped
<1>3. InStep'
  BY <1>1 DEF InStep
<1>4. Verified'
  BY DEF Verified, Download!OnlyVerified
<1>5. Tidy'
  BY <1>1 DEF Verified, Tidy, Download!NothingLeft
<1>6. Untouched'
  BY <1>1 DEF Untouched
<1>7. ASSUME NEW r \in Releases, Clean(r), content # "wrong"
      PROVE  Clean(r)'
  <2>1. \A j \in Pieces : segments'[r][j] = "wrong" => segments[r][j] = "wrong"
    BY <1>1, <1>7 DEF Shaped
  <2> QED
    BY <1>7, <2>1, CleanKept
<1> QED
  BY <1>2, <1>3, <1>4, <1>5, <1>6, <1>7

\* The steps that fetch segments.
LEMMA DownloadSegments ==
  ASSUME DownloadAssumption, DownloadInv,
         \/ \E i \in Pieces :
              Download!CreateSegment(i) \/ Download!FetchSegment(i) \/ Download!FetchSegmentBadly(i)
         \/ Download!SegmentsFail
  PROVE  DownloadInv'
<1> USE DownloadAssumption, Contents DEF DownloadAssumption, Download!attempt, Download!Fault, Download!Fine
<1>1. ASSUME NEW i \in Pieces, Download!CreateSegment(i) \/ Download!FetchSegment(i)
      PROVE  DownloadInv'
  <2>1. PICK content \in {"short", "right"} : Download!SetSegment(i, content)
    BY <1>1 DEF Download!CreateSegment, Download!FetchSegment
  <2>2. content \in Chunk \cup {"short", Absent} /\ content # "wrong"
    BY DEF Download!Chunk
  <2>3. /\ at = "segments" /\ UNCHANGED <<at, fetched, outcome, failures>>
        /\ UNCHANGED <<newest, running, target, partial, pending, wanted, spoiled, interrupted>>
    BY <1>1 DEF Download!CreateSegment, Download!FetchSegment
  <2>4. Shaped' /\ InStep' /\ Verified' /\ Tidy' /\ Untouched' /\ \A r \in Releases : Clean(r) => Clean(r)'
    BY <2>1, <2>2, <2>3, SegmentSet
  <2> QED
    BY <2>3, <2>4 DEF DownloadInv, Purged
<1>2. ASSUME NEW i \in Pieces, Download!FetchSegmentBadly(i)
      PROVE  DownloadInv'
  <2>1. PICK content \in {Absent, "wrong"} : Download!SetSegment(i, content)
    BY <1>2 DEF Download!FetchSegmentBadly
  <2>2. content \in Chunk \cup {"short", Absent}
    BY DEF Download!Chunk
  <2>3. /\ at = "segments" /\ UNCHANGED <<at, fetched, outcome>> /\ failures' = 0
        /\ UNCHANGED <<newest, running, target, partial, pending, wanted, spoiled, interrupted>>
    BY <1>2 DEF Download!FetchSegmentBadly
  <2>4. Shaped' /\ InStep' /\ Verified' /\ Tidy' /\ Untouched'
    BY <2>1, <2>2, <2>3, SegmentSet
  <2> QED
    BY <2>3, <2>4 DEF DownloadInv, Purged
<1>3. CASE Download!SegmentsFail
  <2>1. /\ at = "segments" /\ at' = "idle" /\ fetched' = <<>> /\ outcome' = "failed" /\ failures' = 0
        /\ UNCHANGED <<newest, running, target, partial, pending, wanted, spoiled, interrupted>>
    BY <1>3 DEF Download!SegmentsFail, Download!Done
  <2>2. \E i \in Pieces, content \in Chunk \cup {"short", Absent} : Download!SetSegment(i, content)
    <3>1. CASE UNCHANGED segments
      <4>1. PICK i \in Pieces : TRUE
        BY DEF Download!Pieces
      <4>2. segments' = [segments EXCEPT ![wanted][i] = segments[wanted][i]]
        BY <3>1 DEF DownloadInv, Shaped
      <4>3. segments[wanted][i] \in Chunk \cup {"short", Absent}
        BY DEF DownloadInv, Shaped
      <4> QED
        BY <4>2, <4>3 DEF Download!SetSegment
    <3>2. CASE ~ UNCHANGED segments
      BY <1>3, <3>2 DEF Download!SegmentsFail
    <3> QED
      BY <3>1, <3>2
  <2>3. Shaped' /\ InStep' /\ Verified' /\ Tidy' /\ Untouched'
    BY <2>1, <2>2, SegmentSet
  <2> QED
    BY <2>1, <2>3 DEF DownloadInv, Purged
<1> QED
  BY <1>1, <1>2, <1>3

\* Segments that are all there are a file of full length.
LEMMA Combined ==
  ASSUME DownloadAssumption, Shaped, Download!Fetched
  PROVE  segments[wanted] \in Full /\ segments[wanted] \in File
BY FullFiles DEF Shaped, Download!Fetched, Full, File

\* The steps before and after the segments are fetched.
LEMMA DownloadCombined ==
  ASSUME DownloadAssumption, DownloadInv,
         \/ Download!ScanSegments \/ Download!SegmentsCancelled
         \/ Download!Combine \/ Download!CombineFails
         \/ Download!FinishCombined \/ Download!CleanupSegments
  PROVE  DownloadInv'
<1> USE DownloadAssumption, Contents DEF DownloadAssumption, Download!files, Download!attempt,
      Download!history, Download!Done, Download!DoneBadly, Download!Fault, Download!Fine, Download!Go,
      Download!SetPartial, Download!DropSegments
<1>0. <<>> \in File /\ wanted \in Releases
  BY DEF File, DownloadInv, Shaped
<1>1. CASE Download!ScanSegments
  <2>1. /\ partial' = [partial EXCEPT ![wanted] = Absent]
        /\ segments' \in [Releases -> [Pieces -> Chunk \cup {"short", Absent}]]
        /\ \A r \in Releases \ {wanted} : segments'[r] = segments[r]
        /\ \A j \in Pieces : segments'[wanted][j] = "wrong" => segments[wanted][j] = "wrong"
        /\ at = "transfer" /\ Segmented /\ at' = "segments"
        /\ UNCHANGED <<newest, running, target, pending, wanted, fetched, outcome, spoiled, interrupted, failures>>
    BY <1>1 DEF Download!ScanSegments, DownloadInv, Shaped
  <2> HIDE <1>1
  <2>2. Shaped' /\ InStep' /\ Verified' /\ Tidy'
    BY <2>1 DEF DownloadInv, Shaped, InStep, Verified, Tidy, Download!OnlyVerified, Download!NothingLeft
  <2>3. Untouched'
    BY <2>1 DEF DownloadInv, Shaped, Untouched
  <2>4. ASSUME NEW r \in Releases, Clean(r)
        PROVE  Clean(r)'
    <3>1. /\ \A j \in Pieces : segments'[r][j] = "wrong" => segments[r][j] = "wrong"
          /\ partial'[r] \in {partial[r], Absent}
      BY <2>1 DEF DownloadInv, Shaped
    <3> QED
      BY <2>4, <3>1, CleanKept
  <2>5. Purged'
    BY <2>1, <2>4 DEF DownloadInv, Purged
  <2> QED
    BY <2>2, <2>3, <2>5 DEF DownloadInv
<1>2. CASE Download!SegmentsCancelled
  <2>1. /\ partial' = [partial EXCEPT ![wanted] = Absent]
        /\ segments' = [segments EXCEPT ![wanted] = NoSegments]
        /\ Segmented /\ at' = "idle" /\ fetched' = <<>> /\ outcome' = "cancelled"
        /\ UNCHANGED <<newest, running, target, pending, wanted, spoiled, interrupted, failures>>
    BY <1>2 DEF Download!SegmentsCancelled
  <2> HIDE <1>2
  <2>2. Shaped' /\ InStep' /\ Verified' /\ Tidy'
    BY <1>0, <2>1 DEF DownloadInv, Shaped, InStep, Verified, Tidy, Download!OnlyVerified, Download!NothingLeft
  <2>3. Untouched'
    BY <2>1 DEF DownloadInv, Shaped, Untouched
  <2>4. ASSUME NEW r \in Releases, Clean(r)
        PROVE  Clean(r)'
    <3>1. /\ \A j \in Pieces : segments'[r][j] = "wrong" => segments[r][j] = "wrong"
          /\ partial'[r] \in {partial[r], Absent}
      BY <2>1 DEF DownloadInv, Shaped
    <3> QED
      BY <2>4, <3>1, CleanKept
  <2>5. Purged'
    BY <2>1, <2>4 DEF DownloadInv, Purged
  <2> QED
    BY <2>2, <2>3, <2>5 DEF DownloadInv
<1>3. CASE Download!Combine
  <2>1. /\ at = "segments" /\ at' = "combined" /\ Segmented
        /\ partial' = [partial EXCEPT ![wanted] = segments[wanted]]
        /\ UNCHANGED <<newest, running, target, segments, pending, wanted, fetched, outcome, spoiled,
                       interrupted, failures>>
        /\ segments[wanted] \in Full /\ segments[wanted] \in File
    BY <1>3, Combined DEF Download!Combine, DownloadInv, InStep
  <2> HIDE <1>3
  <2>2. Shaped' /\ InStep'
    BY <2>1 DEF DownloadInv, Shaped, InStep
  <2>3. Verified' /\ Tidy'
    BY <2>1 DEF DownloadInv, Shaped, Verified, Tidy, Download!OnlyVerified, Download!NothingLeft
  <2>4. Untouched'
    BY <2>1 DEF DownloadInv, Shaped, Untouched
  <2>5. ASSUME NEW r \in Releases, Clean(r)
        PROVE  Clean(r)'
    <3>1. CASE r = wanted
      <4>1. Len(segments[wanted]) = Size /\ partial'[r] = segments[wanted] /\ segments'[r] = segments[wanted]
        BY <2>1, <3>1, FullFiles DEF DownloadInv, Shaped
      <4>2. \A j \in Pieces : segments[wanted][j] = "right"
        BY <2>1, <2>5, <3>1 DEF Clean, Full, Download!Chunk
      <4> QED
        BY <4>1, <4>2 DEF Clean, Download!Pieces
    <3>2. CASE r # wanted
      BY <2>1, <2>5, <3>2, CleanKept DEF DownloadInv, Shaped
    <3> QED
      BY <3>1, <3>2
  <2>6. Purged'
    BY <2>1, <2>5 DEF DownloadInv, Purged
  <2> QED
    BY <2>2, <2>3, <2>4, <2>6 DEF DownloadInv
<1>4. CASE Download!CombineFails
  <2>1. PICK left \in File \cup {Absent} : partial' = [partial EXCEPT ![wanted] = left]
    BY <1>4, Combined, FileOps, FullFiles DEF Download!CombineFails, Download!AfterFailure, DownloadInv
  <2>2. /\ at = "segments" /\ at' = "idle" /\ Segmented /\ fetched' = <<>> /\ outcome' = "failed"
        /\ failures' = 0
        /\ UNCHANGED <<newest, running, target, segments, pending, wanted, spoiled, interrupted>>
    BY <1>4 DEF Download!CombineFails, DownloadInv, InStep
  <2> HIDE <1>4
  <2>3. Shaped' /\ InStep'
    BY <1>0, <2>1, <2>2 DEF DownloadInv, Shaped, InStep
  <2>4. Verified' /\ Tidy'
    BY <2>1, <2>2 DEF DownloadInv, Shaped, Verified, Tidy, Download!OnlyVerified, Download!NothingLeft
  <2>5. Untouched' /\ Purged'
    BY <2>1, <2>2 DEF DownloadInv, Shaped, Untouched, Purged
  <2> QED
    BY <2>3, <2>4, <2>5 DEF DownloadInv
<1>5. CASE Download!FinishCombined
  <2>1. /\ at = "combined" /\ Segmented /\ partial' = [partial EXCEPT ![wanted] = Absent]
        /\ UNCHANGED <<newest, running, pending, wanted, interrupted>>
    BY <1>5 DEF Download!FinishCombined, Download!Finish, Download!Failed, DownloadInv, InStep
  <2>2. CASE partial[wanted] = Whole
    <3>1. /\ target' = [target EXCEPT ![wanted] = Whole] /\ spoiled' = spoiled \ {wanted}
          /\ at' = "cleanup" /\ UNCHANGED <<segments, fetched, outcome, failures>>
      BY <1>5, <2>2 DEF Download!FinishCombined, Download!Finish
    <3> HIDE <1>5
    <3>2. Shaped' /\ InStep'
      BY <2>1, <3>1 DEF DownloadInv, Shaped, InStep
    <3>3. Verified' /\ Tidy'
      BY <2>1, <3>1 DEF DownloadInv, Shaped, InStep, Verified, Tidy, Download!OnlyVerified, Download!NothingLeft
    <3>4. Untouched' /\ Purged'
      BY <2>1, <3>1, CleanKept DEF DownloadInv, Shaped, Untouched, Purged
    <3> QED
      BY <3>2, <3>3, <3>4 DEF DownloadInv
  <2>3. CASE partial[wanted] # Whole
    <3>1. /\ at' = "idle" /\ fetched' = <<>> /\ outcome' = "failed"
          /\ segments' = [segments EXCEPT ![wanted] = NoSegments]
          /\ failures' = IF faultless THEN failures + 1 ELSE failures
          /\ UNCHANGED <<target, spoiled>>
      BY <1>5, <2>3 DEF Download!FinishCombined, Download!Failed
    <3> HIDE <1>5
    <3>2. Shaped' /\ InStep'
      BY <1>0, <2>1, <3>1 DEF DownloadInv, Shaped, InStep
    <3>3. Verified' /\ Tidy'
      BY <2>1, <3>1 DEF DownloadInv, Shaped, InStep, Verified, Tidy, Download!OnlyVerified, Download!NothingLeft
    <3>4. Untouched'
      BY <2>1, <3>1 DEF DownloadInv, Shaped, Untouched
    <3>5. failures # 1
      <4>1. partial[wanted] \in File /\ Len(partial[wanted]) = Size
        BY <2>1, FullFiles DEF DownloadInv, InStep
      <4>2. ~Clean(wanted)
        BY <2>3, <4>1, CleanIsWhole
      <4>3. wanted \in Releases /\ wanted >= wanted
        BY DEF DownloadInv, Shaped
      <4> QED
        BY <1>0, <4>2, <4>3 DEF DownloadInv, Purged
    <3>6. failures' \in {0, 1}
      BY <3>1, <3>5 DEF DownloadInv, Purged
    <3>7. partial'[wanted] = Absent /\ segments'[wanted] = NoSegments
      BY <1>0, <2>1, <3>1 DEF DownloadInv, Shaped
    <3>8. Purged'
      BY <1>0, <2>1, <3>4, <3>6, <3>7, PurgedByFailure
    <3> QED
      BY <3>2, <3>3, <3>4, <3>8 DEF DownloadInv
  <2> QED
    BY <2>2, <2>3
<1>6. CASE Download!CleanupSegments
  <2>1. /\ at = "cleanup" /\ at' = "delivered" /\ Segmented
        /\ UNCHANGED <<newest, running, target, partial, pending, wanted, fetched, outcome, spoiled>>
    BY <1>6 DEF Download!CleanupSegments, DownloadInv, InStep
  <2>2. \/ /\ segments' = [segments EXCEPT ![wanted] = NoSegments]
           /\ interrupted' = interrupted \ {wanted} /\ failures' = failures
        \/ segments' = segments /\ interrupted' = interrupted \cup {wanted} /\ failures' = 0
    BY <1>6 DEF Download!CleanupSegments
  <2> HIDE <1>6
  <2>3. Shaped' /\ InStep'
    BY <2>1, <2>2 DEF DownloadInv, Shaped, InStep
  <2>4. Verified' /\ Tidy'
    BY <2>1, <2>2 DEF DownloadInv, Shaped, InStep, Verified, Tidy, Download!OnlyVerified, Download!NothingLeft
  <2>5. Untouched'
    BY <2>1, <2>2 DEF DownloadInv, Shaped, Untouched
  <2>6. ASSUME NEW r \in Releases, Clean(r)
        PROVE  Clean(r)'
    <3>1. \A j \in Pieces : segments'[r][j] = "wrong" => segments[r][j] = "wrong"
      BY <2>2 DEF DownloadInv, Shaped
    <3> QED
      BY <2>1, <2>6, <3>1, CleanKept
  <2>7. Purged'
    BY <2>1, <2>2, <2>6 DEF DownloadInv, Purged
  <2> QED
    BY <2>3, <2>4, <2>5, <2>7 DEF DownloadInv
<1> QED
  BY <1>1, <1>2, <1>3, <1>4, <1>5, <1>6

\* The process ends, or the disk damages a file.
LEMMA DownloadWorld ==
  ASSUME DownloadAssumption, DownloadInv, Download!Restart \/ Download!Damage
  PROVE  DownloadInv'
<1> USE DownloadAssumption, Contents DEF DownloadAssumption, Download!attempt, Download!Done, Download!Fault
<1>0. <<>> \in File /\ wanted \in Releases /\ "wrong" \in Chunk
  BY DEF File, DownloadInv, Shaped, Download!Chunk
<1>1. CASE Download!Restart
  <2>1. /\ partial' = partial \/ partial' = [r \in Releases |-> Absent]
        /\ interrupted' = IF at = "cleanup" THEN interrupted \cup {wanted} ELSE interrupted
        /\ at' = "idle" /\ fetched' = <<>> /\ outcome' = "none" /\ failures' = 0
        /\ UNCHANGED <<newest, running, target, segments, pending, wanted, spoiled>>
    BY <1>1 DEF Download!Restart
  <2> HIDE <1>1
  <2>2. Shaped' /\ InStep'
    BY <1>0, <2>1 DEF DownloadInv, Shaped, InStep
  <2>3. Verified' /\ Tidy'
    BY <2>1 DEF DownloadInv, Shaped, Verified, Tidy, Download!OnlyVerified, Download!NothingLeft
  <2>4. Untouched' /\ Purged'
    BY <2>1 DEF DownloadInv, Shaped, Untouched, Purged
  <2> QED
    BY <2>2, <2>3, <2>4 DEF DownloadInv
<1>2. CASE Download!Damage
  <2>1. /\ at = "idle" /\ failures' = 0
        /\ UNCHANGED <<newest, running, partial, pending, at, wanted, fetched, outcome, interrupted>>
    BY <1>2 DEF Download!Damage
  <2>2. PICK r \in Releases :
          \/ /\ target[r] = Whole /\ target' = [target EXCEPT ![r][1] = "wrong"]
             /\ spoiled' = spoiled \cup {r} /\ UNCHANGED segments
          \/ /\ \E i \in Pieces : segments[r][i] = "right" /\ segments' = [segments EXCEPT ![r][i] = "wrong"]
             /\ UNCHANGED <<target, spoiled>>
    BY <1>2 DEF Download!Damage
  <2> HIDE <1>2
  <2>3. CASE /\ target[r] = Whole /\ target' = [target EXCEPT ![r][1] = "wrong"]
             /\ spoiled' = spoiled \cup {r} /\ UNCHANGED segments
    <3>1. PICK damaged \in Full : target' = [target EXCEPT ![r] = damaged]
      <4>1. [Whole EXCEPT ![1] = "wrong"] \in Full
        BY <1>0 DEF Full
      <4>2. target' = [target EXCEPT ![r] = [Whole EXCEPT ![1] = "wrong"]]
        BY <2>3 DEF DownloadInv, Shaped
      <4> QED
        BY <4>1, <4>2
    <3>2. Shaped'
      <4>1. target' \in [Releases -> Full \cup {Absent}]
        BY <3>1 DEF DownloadInv, Shaped
      <4>2. spoiled' \subseteq Releases /\ UNCHANGED segments
        BY <2>3 DEF DownloadInv, Shaped
      <4> QED
        BY <2>1, <4>1, <4>2 DEF DownloadInv, Shaped
    <3>5. InStep'
      BY <2>1, <2>3 DEF DownloadInv, InStep
    <3>3. Verified' /\ Tidy'
      BY <2>1, <2>3, <3>1 DEF DownloadInv, Shaped, Verified, Tidy, Download!OnlyVerified, Download!NothingLeft
    <3>4. Untouched' /\ Purged'
      BY <2>1, <2>3 DEF DownloadInv, Shaped, Untouched, Purged
    <3> QED
      BY <3>2, <3>3, <3>4, <3>5 DEF DownloadInv
  <2>4. CASE /\ \E i \in Pieces : segments[r][i] = "right" /\ segments' = [segments EXCEPT ![r][i] = "wrong"]
             /\ UNCHANGED <<target, spoiled>>
    <3>1. PICK i \in Pieces : segments[r][i] = "right" /\ segments' = [segments EXCEPT ![r][i] = "wrong"]
      BY <2>4
    <3>2. /\ segments' \in [Releases -> [Pieces -> Chunk \cup {"short", Absent}]]
          /\ \A s \in Releases \ {r} : segments'[s] = segments[s]
          /\ segments[r] # NoSegments
      BY <1>0, <3>1 DEF DownloadInv, Shaped
    <3>3. Shaped' /\ InStep'
      BY <2>1, <2>4, <3>2 DEF DownloadInv, Shaped, InStep
    <3>4. Verified' /\ Tidy'
      BY <2>1, <2>4, <3>2 DEF DownloadInv, Shaped, Verified, Tidy, Download!OnlyVerified, Download!NothingLeft
    <3>5. Untouched' /\ Purged'
      BY <2>1, <2>4, <3>2 DEF DownloadInv, Shaped, Untouched, Purged
    <3> QED
      BY <3>3, <3>4, <3>5 DEF DownloadInv
  <2> QED
    BY <2>2, <2>3, <2>4
<1> QED
  BY <1>1, <1>2

\* Every step keeps the invariant.
LEMMA DownloadStep ==
  ASSUME DownloadAssumption, DownloadInv, [Download!Next]_Download!vars
  PROVE  DownloadInv'
<1>1. CASE UNCHANGED Download!vars
  BY <1>1 DEF Download!vars, Download!files, Download!attempt, Download!history, DownloadInv, Shaped, InStep,
              Verified, Download!OnlyVerified, Tidy, Download!NothingLeft, Untouched, Purged, Clean
<1>2. CASE Download!Next
  BY <1>2, DownloadQuiet, DownloadAround, DownloadStreamed, DownloadSegments, DownloadCombined, DownloadWorld
     DEF Download!Next
<1> QED
  BY <1>1, <1>2

\* DownloadInv is an invariant of ArtifactDownload.
LEMMA DownloadInvariance ==
  ASSUME DownloadAssumption
  PROVE  Download!Spec => []DownloadInv
<1>1. Download!Init => DownloadInv
  BY DownloadInit
<1>2. DownloadInv /\ [Download!Next]_Download!vars => DownloadInv'
  BY DownloadStep
<1> QED
  BY <1>1, <1>2, PTL DEF Download!Spec

\* Whatever was resumed, retried, cancelled, damaged or cut off: only a file that
\* matches its SHA-256 is delivered or named by the pending manifest, what an
\* attempt leaves makes at most one further attempt fail, and one that ends well or
\* is cancelled leaves nothing (download_cached_runtime_update, windows_download.rs,
\* download_app_update).
THEOREM DownloadsAreVerified ==
  ASSUME DownloadAssumption
  PROVE  Download!Spec => []Download!DownloadsHold
<1>1. DownloadInv => Download!DownloadsHold
  BY DEF DownloadInv, Verified, Tidy, Purged, Download!DownloadsHold, Download!RetrySucceeds
<1> QED
  BY <1>1, DownloadInvariance, PTL

-----------------------------------------------------------------------------
(* LocalCa.                                                                *)

\* No caller is None.
CaAssumption == None \notin Callers /\ MaxCas \in Nat

\* What may be left of the operations that make a CA, the last n of them, ...
Make7 == <<Ca!Op("remove", "crt"), Ca!Op("remove", "key"), Ca!Op("remove", "sha256"),
           Ca!Op("clear", "certs"), Ca!Op("write", "crt"), Ca!Op("write", "key"), Ca!Op("write", "sha256")>>
Make6 == <<Ca!Op("remove", "key"), Ca!Op("remove", "sha256"),
           Ca!Op("clear", "certs"), Ca!Op("write", "crt"), Ca!Op("write", "key"), Ca!Op("write", "sha256")>>
Make5 == <<Ca!Op("remove", "sha256"),
           Ca!Op("clear", "certs"), Ca!Op("write", "crt"), Ca!Op("write", "key"), Ca!Op("write", "sha256")>>
Make4 == <<Ca!Op("clear", "certs"), Ca!Op("write", "crt"), Ca!Op("write", "key"), Ca!Op("write", "sha256")>>
Make3 == <<Ca!Op("write", "crt"), Ca!Op("write", "key"), Ca!Op("write", "sha256")>>
Make2 == <<Ca!Op("write", "key"), Ca!Op("write", "sha256")>>
Make1 == <<Ca!Op("write", "sha256")>>
Making == {Make7, Make6, Make5, Make4, Make3, Make2, Make1}

\* ... of those that sign a certificate, and of those that remove one.
Sign4 == <<Ca!Op("unsign", "crt"), Ca!Op("unsign", "key"), Ca!Op("sign", "crt"), Ca!Op("sign", "key")>>
Sign3 == <<Ca!Op("unsign", "key"), Ca!Op("sign", "crt"), Ca!Op("sign", "key")>>
Sign2 == <<Ca!Op("sign", "crt"), Ca!Op("sign", "key")>>
Sign1 == <<Ca!Op("sign", "key")>>
Signing == {Sign4, Sign3, Sign2, Sign1}
Unsign2 == <<Ca!Op("unsign", "crt"), Ca!Op("unsign", "key")>>
Unsign1 == <<Ca!Op("unsign", "key")>>
Unsigning == {Unsign2, Unsign1}

\* A request is at the operations of its step, and one at most has the lock.
Requested(c) ==
  LET r == callers[c] IN
  /\ r.step # "idle" => r.domain \in Domains
  /\ r.step \in {"https", "serve", "files", "unsecure"} => lock = c
  /\ r.step = "serve" => r.domain \in secured
  /\ \/ r.todo = <<>>
     \/ r.todo \in Making /\ r.step \in {"ca", "https", "serve"} /\ r.new \in 1..MaxCas
     \/ r.todo \in Signing /\ r.step = "files"
     \/ r.todo \in Unsigning /\ r.step = "unsecure"

Steps == {"idle", "ca", "trust", "ask", "https", "serve", "files", "unsecure"}
Requests == [step : Steps, domain : Domains \cup {None}, new : Nat,
             todo : Making \cup Signing \cup Unsigning \cup {<<>>}]

CaShaped ==
  /\ Ca!TypeOK
  /\ callers \in [Callers -> Requests]
  /\ made \in 0..MaxCas
  /\ \A c \in Callers : Requested(c)

\* A CA is made by one request while no other works on files.
Alone ==
  \A c, o \in Callers : c # o /\ Ca!Working(c) /\ Ca!Working(o) => Ca!Complete /\ callers[c].todo \notin Making

\* How far the CA is that c makes: until it is done, it does not look complete.
Underway(c) ==
  LET n == Len(callers[c].todo)  new == callers[c].new IN
  /\ ~Ca!Complete
  /\ n \in {6, 5, 4} => ca["crt"] = 0
  /\ n \in {5, 4, 3} => ca["key"] = 0
  /\ n \in {4, 3, 2, 1} => ca["sha256"] = 0
  /\ n \in {3, 2, 1} => \A d \in Domains : certs[d] = Ca!NoCert
  /\ n \in {2, 1} => ca["crt"] = new
  /\ n = 1 => ca["key"] = new

\* Only a complete CA signs.
Signed(c) ==
  /\ Ca!Complete
  /\ Len(callers[c].todo) = 1 => certs[callers[c].domain].crt = ca["crt"]

\* Once a request has found a CA to trust, or has trusted it, it stays.
Relied ==
  /\ (\E c \in Callers : callers[c].step \in {"trust", "ask", "https", "files"}) \/ secured # {} => Ca!Complete
  /\ (\E c \in Callers : callers[c].step \in {"ask", "https", "files"}) \/ secured # {} => ca["crt"] \in trusted

CaInv ==
  /\ CaShaped
  /\ ~raced =>
       /\ Alone
       /\ \A c \in Callers : callers[c].todo \in Making => Underway(c)
       /\ \A c \in Callers : callers[c].todo \in Signing => Signed(c)
       /\ Ca!CertificatesVerify
       /\ ~lost => Relied

\* The operations that make a CA, one after the other.
LEMMA MakingOps ==
  ASSUME NEW t \in Making
  PROVE  /\ Len(t) \in 1..7 /\ t # <<>>
         /\ Tail(t) \in Making \cup {<<>>}
         /\ (Tail(t) = <<>>) <=> (Len(t) = 1)
         /\ Tail(t) # <<>> => Len(Tail(t)) = Len(t) - 1
         /\ Len(t) = 7 => Head(t) = Ca!Op("remove", "crt")
         /\ Len(t) = 6 => Head(t) = Ca!Op("remove", "key")
         /\ Len(t) = 5 => Head(t) = Ca!Op("remove", "sha256")
         /\ Len(t) = 4 => Head(t) = Ca!Op("clear", "certs")
         /\ Len(t) = 3 => Head(t) = Ca!Op("write", "crt")
         /\ Len(t) = 2 => Head(t) = Ca!Op("write", "key")
         /\ Len(t) = 1 => Head(t) = Ca!Op("write", "sha256")
<1>7. CASE t = Make7
  BY <1>7 DEF Making, Make7, Make6
<1>6. CASE t = Make6
  BY <1>6 DEF Making, Make6, Make5
<1>5. CASE t = Make5
  BY <1>5 DEF Making, Make5, Make4
<1>4. CASE t = Make4
  BY <1>4 DEF Making, Make4, Make3
<1>3. CASE t = Make3
  BY <1>3 DEF Making, Make3, Make2
<1>2. CASE t = Make2
  BY <1>2 DEF Making, Make2, Make1
<1>1. CASE t = Make1
  BY <1>1 DEF Making, Make1
<1> QED
  BY <1>7, <1>6, <1>5, <1>4, <1>3, <1>2, <1>1 DEF Making

\* The operations that sign a certificate.
LEMMA SigningOps ==
  ASSUME NEW t \in Signing
  PROVE  /\ Len(t) \in 1..4 /\ t # <<>>
         /\ Tail(t) \in Signing \cup {<<>>}
         /\ (Tail(t) = <<>>) <=> (Len(t) = 1)
         /\ Tail(t) # <<>> => Len(Tail(t)) = Len(t) - 1
         /\ Len(t) = 4 => Head(t) = Ca!Op("unsign", "crt")
         /\ Len(t) = 3 => Head(t) = Ca!Op("unsign", "key")
         /\ Len(t) = 2 => Head(t) = Ca!Op("sign", "crt")
         /\ Len(t) = 1 => Head(t) = Ca!Op("sign", "key")
<1>4. CASE t = Sign4
  BY <1>4 DEF Signing, Sign4, Sign3
<1>3. CASE t = Sign3
  BY <1>3 DEF Signing, Sign3, Sign2
<1>2. CASE t = Sign2
  BY <1>2 DEF Signing, Sign2, Sign1
<1>1. CASE t = Sign1
  BY <1>1 DEF Signing, Sign1
<1> QED
  BY <1>4, <1>3, <1>2, <1>1 DEF Signing

\* The operations that remove one.
LEMMA UnsigningOps ==
  ASSUME NEW t \in Unsigning
  PROVE  /\ Len(t) \in 1..2 /\ t # <<>>
         /\ Tail(t) \in Unsigning \cup {<<>>}
         /\ (Tail(t) = <<>>) <=> (Len(t) = 1)
         /\ Tail(t) # <<>> => Len(Tail(t)) = Len(t) - 1
         /\ Len(t) = 2 => Head(t) = Ca!Op("unsign", "crt")
         /\ Len(t) = 1 => Head(t) = Ca!Op("unsign", "key")
<1>2. CASE t = Unsign2
  BY <1>2 DEF Unsigning, Unsign2, Unsign1
<1>1. CASE t = Unsign1
  BY <1>1 DEF Unsigning, Unsign1
<1> QED
  BY <1>2, <1>1 DEF Unsigning

\* Who makes a CA has its last file still to write, and nobody else writes one.
LEMMA Regenerating ==
  ASSUME NEW c, callers[c].todo \in Making \cup Signing \cup Unsigning \cup {<<>>}
  PROVE  Ca!Regenerates(c) <=> callers[c].todo \in Making
<1>1. ASSUME NEW t \in Making
      PROVE  \E i \in DOMAIN t : t[i].what = "write"
  BY DEF Making, Make7, Make6, Make5, Make4, Make3, Make2, Make1, Ca!Op
<1>2. ASSUME NEW t \in Signing \cup Unsigning \cup {<<>>}
      PROVE  \A i \in DOMAIN t : t[i].what # "write"
  BY DEF Signing, Unsigning, Sign4, Sign3, Sign2, Sign1, Unsign2, Unsign1, Ca!Op
<1> QED
  BY <1>1, <1>2 DEF Ca!Regenerates

\* Two operations are the same when both their parts are.
LEMMA OpFields == \A what, file : Ca!Op(what, file).what = what /\ Ca!Op(what, file).file = file
BY DEF Ca!Op

\* The three kinds of operations are apart.
LEMMA OpsApart ==
  /\ <<>> \notin Making /\ <<>> \notin Signing /\ <<>> \notin Unsigning
  /\ Making \cap Signing = {} /\ Making \cap Unsigning = {} /\ Signing \cap Unsigning = {}
<1>1. \A t \in Making : t # <<>> /\ Head(t).what \in {"remove", "clear", "write"}
  BY MakingOps DEF Ca!Op
<1>2. \A t \in Signing \cup Unsigning : t # <<>> /\ Head(t).what \in {"unsign", "sign"}
  BY SigningOps, UnsigningOps DEF Ca!Op
<1>3. ASSUME NEW u \in Signing, u \in Unsigning
      PROVE  FALSE
  <2>1. /\ Len(u) = 1 => Head(u) = Ca!Op("sign", "key")
        /\ Len(u) = 2 => Head(u) = Ca!Op("sign", "crt")
    BY <1>3, SigningOps
  <2>2. /\ Len(u) \in 1..2
        /\ Len(u) = 1 => Head(u) = Ca!Op("unsign", "key")
        /\ Len(u) = 2 => Head(u) = Ca!Op("unsign", "crt")
    BY <1>3, UnsigningOps
  <2> QED
    BY <2>1, <2>2, OpFields
<1> QED
  BY <1>1, <1>2, <1>3

\* CaInv holds at the start.
LEMMA CaInit ==
  ASSUME CaAssumption, Ca!Init
  PROVE  CaInv
<1>1. \A c \in Callers : callers[c] = Ca!Idle
  BY DEF Ca!Init
<1>2. CaShaped
  <2>1. Ca!TypeOK
    BY DEF Ca!Init, Ca!TypeOK, Ca!NoCert, Ca!Files, CaAssumption
  <2>2. callers \in [Callers -> Requests]
    <3>1. Ca!Idle \in Requests
      BY DEF Ca!Idle, Requests, Steps
    <3> QED
      BY <3>1 DEF Ca!Init
  <2>3. \A c \in Callers : Requested(c)
    BY <1>1 DEF Requested, Ca!Idle
  <2> QED
    BY <2>1, <2>2, <2>3 DEF CaShaped, Ca!Init, CaAssumption
<1>3. ~Ca!Complete
  BY DEF Ca!Complete, Ca!Init, Ca!Files
<1>4. Alone /\ (\A c \in Callers : callers[c].todo = <<>>)
  BY <1>1 DEF Alone, Ca!Working, Ca!Idle
<1>5. Relied
  BY <1>1 DEF Relied, Ca!Init, Ca!Idle
<1> QED
  BY <1>2, <1>3, <1>4, <1>5, OpsApart DEF CaInv, Ca!CertificatesVerify

\* Requests that go on without a file operation, or end, disturb no other.
LEMMA CaCalm ==
  ASSUME CaInv, UNCHANGED <<ca, certs>>, raced => raced',
         \A o \in Callers :
           \/ callers'[o].todo = <<>>
           \/ /\ callers'[o].todo = callers[o].todo /\ callers'[o].new = callers[o].new
              /\ callers'[o].domain = callers[o].domain
  PROVE  ~raced' =>
           /\ Alone'
           /\ \A o \in Callers : callers'[o].todo \in Making => Underway(o)'
           /\ \A o \in Callers : callers'[o].todo \in Signing => Signed(o)'
           /\ Ca!CertificatesVerify'
<1> SUFFICES ASSUME ~raced
             PROVE  /\ Alone'
                    /\ \A o \in Callers : callers'[o].todo \in Making => Underway(o)'
                    /\ \A o \in Callers : callers'[o].todo \in Signing => Signed(o)'
                    /\ Ca!CertificatesVerify'
  OBVIOUS
<1>1. Alone'
  BY OpsApart DEF CaInv, Alone, Ca!Working, Ca!Complete
<1>2. ASSUME NEW o \in Callers, callers'[o].todo \in Making
      PROVE  Underway(o)'
  <2>1. callers'[o].todo = callers[o].todo /\ callers'[o].new = callers[o].new
    BY <1>2, OpsApart
  <2>2. Underway(o)
    BY <1>2, <2>1 DEF CaInv
  <2> QED
    BY <2>1, <2>2 DEF Underway, Ca!Complete
<1>3. ASSUME NEW o \in Callers, callers'[o].todo \in Signing
      PROVE  Signed(o)'
  <2>1. callers'[o].todo = callers[o].todo /\ callers'[o].domain = callers[o].domain
    BY <1>3, OpsApart
  <2>2. Signed(o)
    BY <1>3, <2>1 DEF CaInv
  <2> QED
    BY <2>1, <2>2 DEF Signed, Ca!Complete
<1>4. Ca!CertificatesVerify'
  BY DEF CaInv, Ca!CertificatesVerify, Ca!Complete, Ca!Whole
<1> QED
  BY <1>1, <1>2, <1>3, <1>4

\* A request that changes keeps the shape of all.
LEMMA CaRequest ==
  ASSUME CaAssumption, CaShaped, NEW c \in Callers,
         NEW r \in Requests,
         callers' = [callers EXCEPT ![c] = r],
         \/ lock' = lock
         \/ lock = None /\ lock' = c
         \/ lock = c /\ lock' = None,
         r.step # "idle" => r.domain \in Domains,
         r.step \in {"https", "serve", "files", "unsecure"} => lock' = c,
         r.step = "serve" => r.domain \in secured',
         lock \in Callers \ {c} => secured \subseteq secured',
         \/ r.todo = <<>>
         \/ r.todo \in Making /\ r.step \in {"ca", "https", "serve"} /\ r.new \in 1..MaxCas
         \/ r.todo \in Signing /\ r.step = "files"
         \/ r.todo \in Unsigning /\ r.step = "unsecure"
  PROVE  /\ callers' \in [Callers -> Requests]
         /\ \A o \in Callers : Requested(o)'
         /\ \A o \in Callers \ {c} : callers'[o] = callers[o]
         /\ callers'[c] = r
<1>1. callers'[c] = r /\ \A o \in Callers \ {c} : callers'[o] = callers[o]
  BY DEF CaShaped
<1>2. callers' \in [Callers -> Requests]
  BY DEF CaShaped
<1>3. Requested(c)'
  BY <1>1 DEF Requested
<1>4. ASSUME NEW o \in Callers, o # c
      PROVE  Requested(o)'
  <2>1. Requested(o) /\ callers'[o] = callers[o]
    BY <1>1, <1>4 DEF CaShaped
  <2>2. lock = o => lock' = o
    BY <1>4 DEF CaAssumption
  <2>3. lock = o => secured \subseteq secured'
    BY <1>4
  <2> QED
    BY <2>1, <2>2, <2>3 DEF Requested
<1> QED
  BY <1>1, <1>2, <1>3, <1>4

\* The steps of a request that has no file operation to do.
LEMMA CaRequests ==
  ASSUME CaAssumption, CaInv, NEW c \in Callers, NEW d \in Domains,
         \/ Ca!EnsureLocalCa(c, d) \/ Ca!Serve(c, d) \/ Ca!Trust(c) \/ Ca!SetSiteHttps(c)
         \/ Ca!Finish(c) \/ Ca!Fail(c)
  PROVE  CaInv'
<1>0. /\ CaShaped /\ callers \in [Callers -> Requests] /\ Requested(c)
      /\ callers[c] \in Requests /\ Ca!Idle \in Requests /\ Ca!TypeOK
  BY DEF CaInv, CaShaped, Ca!Idle, Requests, Steps
<1>1. CASE Ca!EnsureLocalCa(c, d)
  <2> DEFINE r == [Ca!Idle EXCEPT !.step = "ca", !.domain = d]
  <2>1. /\ r \in Requests /\ r.todo = <<>> /\ r.step = "ca" /\ r.domain = d
        /\ callers' = [callers EXCEPT ![c] = r]
    BY <1>0, <1>1 DEF Ca!EnsureLocalCa, Ca!Go, Ca!End, Ca!Working, Ca!Idle, Requests, Steps, Requested
  <2>2. /\ \/ lock' = lock
           \/ lock = None /\ lock' = c
           \/ lock = c /\ lock' = None
        /\ r.step \in {"https", "serve", "files", "unsecure"} => lock' = c
        /\ r.step = "serve" => r.domain \in secured'
        /\ lock \in Callers \ {c} => secured \subseteq secured'
        /\ UNCHANGED <<ca, certs, raced, made>>
    BY <1>0, <1>1, <2>1 DEF Ca!EnsureLocalCa, Ca!Go, Ca!End, Ca!Idle, Requested
  <2>3. Ca!TypeOK'
    BY <1>0, <1>1, <2>2 DEF Ca!EnsureLocalCa, Ca!Go, Ca!End, Ca!TypeOK, Ca!AddTrusted, Requested, Ca!Files
  <2> HIDE DEF r
  <2>4. /\ callers' \in [Callers -> Requests] /\ \A o \in Callers : Requested(o)'
        /\ (\A o \in Callers \ {c} : callers'[o] = callers[o]) /\ callers'[c] = r
    BY <1>0, <2>1, <2>2, CaRequest
  <2>5. ~raced' =>
           /\ Alone'
           /\ \A o \in Callers : callers'[o].todo \in Making => Underway(o)'
           /\ \A o \in Callers : callers'[o].todo \in Signing => Signed(o)'
           /\ Ca!CertificatesVerify'
    BY <2>1, <2>2, <2>4, CaCalm
  <2>6. ~raced' /\ ~lost' => Relied'
    BY <1>0, <1>1, <2>1, <2>2, <2>4 DEF CaInv, Relied, Ca!EnsureLocalCa, Ca!Complete, Ca!AddTrusted
  <2> QED
    BY <1>0, <2>2, <2>3, <2>4, <2>5, <2>6 DEF CaInv, CaShaped
<1>2. CASE Ca!Serve(c, d)
  <2> DEFINE r == [Ca!Idle EXCEPT !.step = "serve", !.domain = d]
  <2>1. /\ r \in Requests /\ r.todo = <<>> /\ r.step = "serve" /\ r.domain = d
        /\ callers' = [callers EXCEPT ![c] = r]
    BY <1>0, <1>2 DEF Ca!Serve, Ca!Go, Ca!End, Ca!Working, Ca!Idle, Requests, Steps, Requested
  <2>2. /\ \/ lock' = lock
           \/ lock = None /\ lock' = c
           \/ lock = c /\ lock' = None
        /\ r.step \in {"https", "serve", "files", "unsecure"} => lock' = c
        /\ r.step = "serve" => r.domain \in secured'
        /\ lock \in Callers \ {c} => secured \subseteq secured'
        /\ UNCHANGED <<ca, certs, raced, made>>
    BY <1>0, <1>2, <2>1 DEF Ca!Serve, Ca!Go, Ca!End, Ca!Idle, Requested
  <2>3. Ca!TypeOK'
    BY <1>0, <1>2, <2>2 DEF Ca!Serve, Ca!Go, Ca!End, Ca!TypeOK, Ca!AddTrusted, Requested, Ca!Files
  <2> HIDE DEF r
  <2>4. /\ callers' \in [Callers -> Requests] /\ \A o \in Callers : Requested(o)'
        /\ (\A o \in Callers \ {c} : callers'[o] = callers[o]) /\ callers'[c] = r
    BY <1>0, <2>1, <2>2, CaRequest
  <2>5. ~raced' =>
           /\ Alone'
           /\ \A o \in Callers : callers'[o].todo \in Making => Underway(o)'
           /\ \A o \in Callers : callers'[o].todo \in Signing => Signed(o)'
           /\ Ca!CertificatesVerify'
    BY <2>1, <2>2, <2>4, CaCalm
  <2>6. ~raced' /\ ~lost' => Relied'
    BY <1>0, <1>2, <2>1, <2>2, <2>4 DEF CaInv, Relied, Ca!Serve, Ca!Complete, Ca!AddTrusted
  <2> QED
    BY <1>0, <2>2, <2>3, <2>4, <2>5, <2>6 DEF CaInv, CaShaped
<1>3. CASE Ca!Trust(c)
  <2> DEFINE r == [callers[c] EXCEPT !.step = "ask", !.todo = <<>>]
  <2>1. /\ r \in Requests /\ r.todo = <<>> /\ r.step = "ask" /\ callers[c].step = "trust" /\ r.domain \in Domains
        /\ callers' = [callers EXCEPT ![c] = r]
    BY <1>0, <1>3 DEF Ca!Trust, Ca!Go, Ca!End, Ca!Working, Ca!Idle, Requests, Steps, Requested
  <2>2. /\ \/ lock' = lock
           \/ lock = None /\ lock' = c
           \/ lock = c /\ lock' = None
        /\ r.step \in {"https", "serve", "files", "unsecure"} => lock' = c
        /\ r.step = "serve" => r.domain \in secured'
        /\ lock \in Callers \ {c} => secured \subseteq secured'
        /\ UNCHANGED <<ca, certs, raced, made>>
    BY <1>0, <1>3, <2>1 DEF Ca!Trust, Ca!Go, Ca!End, Ca!Idle, Requested
  <2>3. Ca!TypeOK'
    BY <1>0, <1>3, <2>2 DEF Ca!Trust, Ca!Go, Ca!End, Ca!TypeOK, Ca!AddTrusted, Requested, Ca!Files
  <2> HIDE DEF r
  <2>4. /\ callers' \in [Callers -> Requests] /\ \A o \in Callers : Requested(o)'
        /\ (\A o \in Callers \ {c} : callers'[o] = callers[o]) /\ callers'[c] = r
    BY <1>0, <2>1, <2>2, CaRequest
  <2>5. ~raced' =>
           /\ Alone'
           /\ \A o \in Callers : callers'[o].todo \in Making => Underway(o)'
           /\ \A o \in Callers : callers'[o].todo \in Signing => Signed(o)'
           /\ Ca!CertificatesVerify'
    BY <2>1, <2>2, <2>4, CaCalm
  <2>6. ~raced' /\ ~lost' => Relied'
    <3>1. ca["crt"] \in trusted'
      BY <1>3 DEF Ca!Trust, Ca!AddTrusted
    <3>2. ASSUME ~raced', ~lost'
          PROVE  Ca!Complete
      <4>1. lost => Ca!Complete
        BY <1>3, <3>2 DEF Ca!Trust
      <4>2. ~lost => Relied
        BY <2>2, <3>2 DEF CaInv
      <4> QED
        BY <2>1, <4>1, <4>2 DEF Relied
    <3> QED
      BY <2>2, <3>1, <3>2 DEF Relied, Ca!Complete
  <2> QED
    BY <1>0, <2>2, <2>3, <2>4, <2>5, <2>6 DEF CaInv, CaShaped
<1>4. CASE Ca!SetSiteHttps(c)
  <2> DEFINE r == [callers[c] EXCEPT !.step = "https", !.todo = <<>>]
  <2>1. /\ r \in Requests /\ r.todo = <<>> /\ r.step = "https" /\ callers[c].step = "ask" /\ r.domain \in Domains
        /\ callers' = [callers EXCEPT ![c] = r]
    BY <1>0, <1>4 DEF Ca!SetSiteHttps, Ca!Go, Ca!End, Ca!Working, Ca!Idle, Requests, Steps, Requested
  <2>2. /\ \/ lock' = lock
           \/ lock = None /\ lock' = c
           \/ lock = c /\ lock' = None
        /\ r.step \in {"https", "serve", "files", "unsecure"} => lock' = c
        /\ r.step = "serve" => r.domain \in secured'
        /\ lock \in Callers \ {c} => secured \subseteq secured'
        /\ UNCHANGED <<ca, certs, raced, made>>
    BY <1>0, <1>4, <2>1 DEF Ca!SetSiteHttps, Ca!Go, Ca!End, Ca!Idle, Requested
  <2>3. Ca!TypeOK'
    BY <1>0, <1>4, <2>2 DEF Ca!SetSiteHttps, Ca!Go, Ca!End, Ca!TypeOK, Ca!AddTrusted, Requested, Ca!Files
  <2> HIDE DEF r
  <2>4. /\ callers' \in [Callers -> Requests] /\ \A o \in Callers : Requested(o)'
        /\ (\A o \in Callers \ {c} : callers'[o] = callers[o]) /\ callers'[c] = r
    BY <1>0, <2>1, <2>2, CaRequest
  <2>5. ~raced' =>
           /\ Alone'
           /\ \A o \in Callers : callers'[o].todo \in Making => Underway(o)'
           /\ \A o \in Callers : callers'[o].todo \in Signing => Signed(o)'
           /\ Ca!CertificatesVerify'
    BY <2>1, <2>2, <2>4, CaCalm
  <2>6. ~raced' /\ ~lost' => Relied'
    BY <1>0, <1>4, <2>1, <2>2, <2>4 DEF CaInv, Relied, Ca!SetSiteHttps, Ca!Complete, Ca!AddTrusted
  <2> QED
    BY <1>0, <2>2, <2>3, <2>4, <2>5, <2>6 DEF CaInv, CaShaped
<1>5. CASE Ca!Finish(c)
  <2> DEFINE r == Ca!Idle
  <2>1. /\ r \in Requests /\ r.todo = <<>> /\ r.step = "idle"
        /\ callers' = [callers EXCEPT ![c] = r]
    BY <1>0, <1>5 DEF Ca!Finish, Ca!Go, Ca!End, Ca!Working, Ca!Idle, Requests, Steps, Requested
  <2>2. /\ \/ lock' = lock
           \/ lock = None /\ lock' = c
           \/ lock = c /\ lock' = None
        /\ r.step \in {"https", "serve", "files", "unsecure"} => lock' = c
        /\ r.step = "serve" => r.domain \in secured'
        /\ lock \in Callers \ {c} => secured \subseteq secured'
        /\ UNCHANGED <<ca, certs, raced, made>>
    BY <1>0, <1>5, <2>1 DEF Ca!Finish, Ca!Go, Ca!End, Ca!Idle, Requested
  <2>3. Ca!TypeOK'
    BY <1>0, <1>5, <2>2 DEF Ca!Finish, Ca!Go, Ca!End, Ca!TypeOK, Ca!AddTrusted, Requested, Ca!Files
  <2> HIDE DEF r
  <2>4. /\ callers' \in [Callers -> Requests] /\ \A o \in Callers : Requested(o)'
        /\ (\A o \in Callers \ {c} : callers'[o] = callers[o]) /\ callers'[c] = r
    BY <1>0, <2>1, <2>2, CaRequest
  <2>5. ~raced' =>
           /\ Alone'
           /\ \A o \in Callers : callers'[o].todo \in Making => Underway(o)'
           /\ \A o \in Callers : callers'[o].todo \in Signing => Signed(o)'
           /\ Ca!CertificatesVerify'
    BY <2>1, <2>2, <2>4, CaCalm
  <2>6. ~raced' /\ ~lost' => Relied'
    BY <1>0, <1>5, <2>1, <2>2, <2>4 DEF CaInv, Relied, Ca!Finish, Ca!Complete, Ca!AddTrusted
  <2> QED
    BY <1>0, <2>2, <2>3, <2>4, <2>5, <2>6 DEF CaInv, CaShaped
<1>6. CASE Ca!Fail(c)
  <2> DEFINE r == Ca!Idle
  <2>1. /\ r \in Requests /\ r.todo = <<>> /\ r.step = "idle"
        /\ callers' = [callers EXCEPT ![c] = r]
    BY <1>0, <1>6 DEF Ca!Fail, Ca!Go, Ca!End, Ca!Working, Ca!Idle, Requests, Steps, Requested
  <2>2. /\ \/ lock' = lock
           \/ lock = None /\ lock' = c
           \/ lock = c /\ lock' = None
        /\ r.step \in {"https", "serve", "files", "unsecure"} => lock' = c
        /\ r.step = "serve" => r.domain \in secured'
        /\ lock \in Callers \ {c} => secured \subseteq secured'
        /\ UNCHANGED <<ca, certs, raced, made>>
    BY <1>0, <1>6, <2>1 DEF Ca!Fail, Ca!Go, Ca!End, Ca!Idle, Requested
  <2>3. Ca!TypeOK'
    BY <1>0, <1>6, <2>2 DEF Ca!Fail, Ca!Go, Ca!End, Ca!TypeOK, Ca!AddTrusted, Requested, Ca!Files
  <2> HIDE DEF r
  <2>4. /\ callers' \in [Callers -> Requests] /\ \A o \in Callers : Requested(o)'
        /\ (\A o \in Callers \ {c} : callers'[o] = callers[o]) /\ callers'[c] = r
    BY <1>0, <2>1, <2>2, CaRequest
  <2>5. ~raced' =>
           /\ Alone'
           /\ \A o \in Callers : callers'[o].todo \in Making => Underway(o)'
           /\ \A o \in Callers : callers'[o].todo \in Signing => Signed(o)'
           /\ Ca!CertificatesVerify'
    BY <2>1, <2>2, <2>4, CaCalm
  <2>6. ~raced' /\ ~lost' => Relied'
    BY <1>0, <1>6, <2>1, <2>2, <2>4 DEF CaInv, Relied, Ca!Fail, Ca!Complete, Ca!AddTrusted
  <2> QED
    BY <1>0, <2>2, <2>3, <2>4, <2>5, <2>6 DEF CaInv, CaShaped
<1> QED
  BY <1>1, <1>2, <1>3, <1>4, <1>5, <1>6

\* The Agent dies, or a file is lost while nobody works on one.
LEMMA CaFaults ==
  ASSUME CaAssumption, CaInv,
         \/ Ca!Crash \/ (\E f \in Ca!Files : Ca!Lose(f)) \/ (\E d \in Domains : Ca!LoseKey(d))
  PROVE  CaInv'
<1>0. /\ CaShaped /\ callers \in [Callers -> Requests] /\ Ca!Idle \in Requests /\ Ca!TypeOK
      /\ \A c \in Callers : Requested(c)
  BY DEF CaInv, CaShaped, Ca!Idle, Requests, Steps
<1>1. CASE Ca!Crash
  <2>1. /\ \A c \in Callers : \/ callers'[c] = callers[c] /\ callers[c].step \in {"trust", "ask"}
                              \/ callers'[c] = Ca!Idle
        /\ callers' \in [Callers -> Requests]
    BY <1>0, <1>1 DEF Ca!Crash
  <2>2. lock' = None /\ UNCHANGED <<ca, certs, trusted, secured, raced, lost, made>>
    BY <1>1 DEF Ca!Crash
  <2> HIDE <1>1
  <2>3. \A c \in Callers : Requested(c)' /\ callers'[c].todo = <<>>
    BY <1>0, <2>1, OpsApart DEF Requested, Ca!Idle
  <2>4. CaShaped'
    BY <1>0, <2>1, <2>2, <2>3 DEF CaShaped, Ca!TypeOK
  <2>5. ~raced' =>
           /\ Alone'
           /\ \A o \in Callers : callers'[o].todo \in Making => Underway(o)'
           /\ \A o \in Callers : callers'[o].todo \in Signing => Signed(o)'
           /\ Ca!CertificatesVerify'
    BY <2>2, <2>3, CaCalm
  <2>6. ~raced' /\ ~lost' => Relied'
    BY <2>1, <2>2 DEF CaInv, Relied, Ca!Complete, Ca!Idle
  <2> QED
    BY <2>4, <2>5, <2>6 DEF CaInv
<1>2. ASSUME NEW f \in Ca!Files, Ca!Lose(f)
      PROVE  CaInv'
  <2>1. /\ ca' = [ca EXCEPT ![f] = 0] /\ lost' /\ \A c \in Callers : callers[c].todo = <<>>
        /\ UNCHANGED <<certs, callers, lock, trusted, secured, raced, made>>
    BY <1>2 DEF Ca!Lose, Ca!Working
  <2>2. CaShaped'
    BY <1>0, <2>1, CaAssumption DEF CaShaped, Ca!TypeOK, Requested, CaAssumption
  <2>3. ~Ca!Complete'
    BY <1>0, <2>1 DEF Ca!Complete, Ca!TypeOK
  <2>4. Alone' /\ Ca!CertificatesVerify'
    BY <2>1, <2>3 DEF Alone, Ca!Working, Ca!CertificatesVerify
  <2> QED
    BY <2>1, <2>2, <2>4, OpsApart DEF CaInv
<1>3. ASSUME NEW d \in Domains, Ca!LoseKey(d)
      PROVE  CaInv'
  <2>1. /\ certs' = [certs EXCEPT ![d].key = FALSE] /\ \A c \in Callers : callers[c].todo = <<>>
        /\ UNCHANGED <<ca, callers, lock, trusted, secured, raced, lost, made>>
    BY <1>3 DEF Ca!LoseKey, Ca!Working
  <2>2. CaShaped'
    BY <1>0, <2>1 DEF CaShaped, Ca!TypeOK, Requested
  <2>3. Alone'
    BY <2>1 DEF Alone, Ca!Working
  <2>4. ~raced => Ca!CertificatesVerify'
    <3>1. \A e \in Domains : certs'[e].crt = certs[e].crt /\ (certs'[e].key => certs[e].key)
      BY <1>0, <2>1 DEF Ca!TypeOK
    <3> QED
      BY <2>1, <3>1 DEF CaInv, Ca!CertificatesVerify, Ca!Whole, Ca!Complete
  <2>5. ~raced /\ ~lost => Relied'
    BY <2>1 DEF CaInv, Relied, Ca!Complete
  <2> QED
    BY <2>1, <2>2, <2>3, <2>4, <2>5, OpsApart DEF CaInv
<1> QED
  BY <1>1, <1>2, <1>3

\* A request that starts on files starts alone, or beside others that sign or
\* remove certificates under a complete CA; if not, that is on record.
LEMMA CaStarts ==
  ASSUME CaInv, NEW c \in Callers, ~raced, ~Ca!Races(c)
  PROVE  \A o \in Callers \ {c} : Ca!Working(o) => Ca!Complete /\ callers[o].todo \notin Making
<1>1. \A o \in Callers : callers[o].todo \in Making \cup Signing \cup Unsigning \cup {<<>>}
  BY DEF CaInv, CaShaped, Requests
<1> QED
  BY <1>1, Regenerating DEF Ca!Races

\* The files of a certificate are to be removed.
LEMMA CaUnsecure ==
  ASSUME CaAssumption, CaInv, NEW c \in Callers, NEW d \in Domains, Ca!Unsecure(c, d)
  PROVE  CaInv'
<1> DEFINE r == [Ca!Idle EXCEPT !.step = "unsecure", !.domain = d, !.todo = Unsign2]
<1>0. /\ CaShaped /\ callers \in [Callers -> Requests] /\ Requested(c) /\ Ca!TypeOK
  BY DEF CaInv, CaShaped
<1>1. /\ r \in Requests /\ r.todo = Unsign2 /\ r.todo \in Unsigning /\ r.step = "unsecure" /\ r.domain = d
      /\ callers' = [callers EXCEPT ![c] = r]
  BY DEF Ca!Unsecure, Ca!Idle, Requests, Steps, Unsigning, Unsign2
<1>2. /\ lock = None /\ lock' = c /\ secured' = secured \ {d} /\ callers[c] = Ca!Idle
      /\ raced' = (raced \/ Ca!Races(c))
      /\ UNCHANGED <<ca, certs, trusted, lost, made>>
  BY DEF Ca!Unsecure
<1> HIDE DEF r
<1>3. /\ callers' \in [Callers -> Requests] /\ \A o \in Callers : Requested(o)'
      /\ (\A o \in Callers \ {c} : callers'[o] = callers[o]) /\ callers'[c] = r
  BY <1>0, <1>1, <1>2, CaRequest DEF CaAssumption
<1>4. CaShaped'
  BY <1>0, <1>2, <1>3 DEF CaShaped, Ca!TypeOK
<1>5. ASSUME ~raced'
      PROVE  /\ Alone'
             /\ \A o \in Callers : callers'[o].todo \in Making => Underway(o)'
             /\ \A o \in Callers : callers'[o].todo \in Signing => Signed(o)'
             /\ Ca!CertificatesVerify'
             /\ ~lost' => Relied'
  <2>1. /\ ~raced /\ \A o \in Callers \ {c} : Ca!Working(o) => Ca!Complete /\ callers[o].todo \notin Making
    BY <1>2, <1>5, CaStarts
  <2>2. Alone'
    BY <1>1, <1>2, <1>3, <2>1, OpsApart DEF CaInv, Alone, Ca!Working, Ca!Complete
  <2>3. ASSUME NEW o \in Callers, callers'[o].todo \in Making
        PROVE  Underway(o)'
    <3>1. o # c /\ callers'[o] = callers[o]
      BY <1>1, <1>3, <2>3, OpsApart
    <3>2. Underway(o)
      BY <2>1, <2>3, <3>1 DEF CaInv
    <3> QED
      BY <1>2, <3>1, <3>2 DEF Underway, Ca!Complete
  <2>4. ASSUME NEW o \in Callers, callers'[o].todo \in Signing
        PROVE  Signed(o)'
    <3>1. callers'[o].todo = callers[o].todo /\ callers'[o].domain = callers[o].domain
      <4>1. CASE o = c
        <5>1. Unsign2 \notin Signing
          BY SigningOps, UnsigningOps DEF Unsigning, Unsign2, Ca!Op
        <5> QED
          BY <1>1, <1>3, <2>4, <4>1, <5>1
      <4>2. CASE o # c
        BY <1>3, <4>2
      <4> QED
        BY <4>1, <4>2
    <3>2. Signed(o)
      BY <2>1, <2>4, <3>1 DEF CaInv
    <3> QED
      BY <1>2, <3>1, <3>2 DEF Signed, Ca!Complete
  <2>5. Ca!CertificatesVerify'
    BY <1>2, <2>1 DEF CaInv, Ca!CertificatesVerify, Ca!Complete, Ca!Whole
  <2>6. ~lost' => Relied'
    BY <1>1, <1>2, <1>3, <2>1 DEF CaInv, Relied, Ca!Complete
  <2> QED
    BY <2>2, <2>3, <2>4, <2>5, <2>6
<1> QED
  BY <1>4, <1>5 DEF CaInv

\* A request looks at the three files, and has a CA or a certificate to make or
\* goes on.
LEMMA CaCheck ==
  ASSUME CaAssumption, CaInv, NEW c \in Callers, Ca!Check(c)
  PROVE  CaInv'
<1>0. /\ CaShaped /\ callers \in [Callers -> Requests] /\ Requested(c) /\ Ca!TypeOK
      /\ callers[c] \in Requests /\ callers[c].todo = <<>> /\ callers[c].domain \in Domains
      /\ callers[c].step \in {"ca", "https", "serve"} /\ made \in 0..MaxCas
      /\ raced' = (raced \/ Ca!Races(c))
      /\ UNCHANGED <<ca, certs, lock, trusted, secured, lost>>
  BY DEF CaInv, CaShaped, Ca!Check, Ca!Working, Requested
<1>1. PICK r \in Requests :
        /\ callers' = [callers EXCEPT ![c] = r] /\ r.domain = callers[c].domain
        /\ \/ Ca!Complete /\ r.step = "trust" /\ r.todo = <<>> /\ callers[c].step = "ca" /\ made' = made
           \/ /\ Ca!Complete /\ r.step = "files" /\ callers[c].step # "ca" /\ made' = made
              /\ r.todo \in {<<>>, Sign4}
           \/ /\ ~Ca!Complete /\ r.step = callers[c].step /\ r.todo = Make7 /\ r.new = made + 1
              /\ made' = made + 1 /\ made < MaxCas
  <2>1. CASE Ca!Complete /\ callers[c].step = "ca"
    <3> DEFINE r == [callers[c] EXCEPT !.step = "trust", !.todo = <<>>]
    <3>1. r \in Requests /\ r.domain = callers[c].domain /\ r.step = "trust" /\ r.todo = <<>>
      BY <1>0 DEF Requests, Steps
    <3>2. callers' = [callers EXCEPT ![c] = r] /\ made' = made
      BY <1>0, <2>1 DEF Ca!Check, Ca!Go
    <3> QED
      BY <2>1, <3>1, <3>2
  <2>2. CASE Ca!Complete /\ callers[c].step # "ca"
    <3> DEFINE r == [callers[c] EXCEPT !.step = "files", !.todo = Ca!NewCert(callers[c].domain)]
    <3>0. Ca!NewCert(callers[c].domain) \in {<<>>, Sign4} /\ Sign4 \in Signing
      BY DEF Ca!NewCert, Sign4, Signing
    <3>1. r \in Requests /\ r.domain = callers[c].domain /\ r.step = "files" /\ r.todo \in {<<>>, Sign4}
      BY <1>0, <3>0 DEF Requests, Steps
    <3>2. callers' = [callers EXCEPT ![c] = r] /\ made' = made
      BY <1>0, <2>2 DEF Ca!Check, Ca!Go
    <3> HIDE DEF r
    <3> QED
      BY <2>2, <3>1, <3>2
  <2>3. CASE ~Ca!Complete
    <3> DEFINE r == [callers[c] EXCEPT !.todo = Make7, !.new = made + 1]
    <3>0. Ca!NewCa = Make7 /\ Make7 \in Making
      BY DEF Ca!NewCa, Make7, Making
    <3>1. r \in Requests /\ r.domain = callers[c].domain /\ r.step = callers[c].step /\ r.todo = Make7
          /\ r.new = made + 1
      <4>1. made + 1 \in Nat
        BY <1>0
      <4> QED
        BY <1>0, <3>0, <4>1 DEF Requests, Steps
    <3>2. callers' = [callers EXCEPT ![c] = r] /\ made' = made + 1 /\ made < MaxCas
      BY <1>0, <2>3, <3>0 DEF Ca!Check
    <3> HIDE DEF r
    <3> QED
      BY <2>3, <3>1, <3>2
  <2> QED
    BY <2>1, <2>2, <2>3
<1>2. /\ Make7 \in Making /\ Sign4 \in Signing /\ Sign4 # <<>> /\ Len(Sign4) = 4 /\ Len(Make7) = 7
  BY DEF Making, Signing, Make7, Sign4
<1>3. /\ callers' \in [Callers -> Requests] /\ \A o \in Callers : Requested(o)'
      /\ (\A o \in Callers \ {c} : callers'[o] = callers[o]) /\ callers'[c] = r
  <2>1. /\ r.step \in {"https", "serve", "files", "unsecure"} => lock' = c
        /\ r.step = "serve" => r.domain \in secured'
        /\ r.step # "idle" => r.domain \in Domains
    BY <1>0, <1>1 DEF Requested
  <2>2. \/ r.todo = <<>>
        \/ r.todo \in Making /\ r.step \in {"ca", "https", "serve"} /\ r.new \in 1..MaxCas
        \/ r.todo \in Signing /\ r.step = "files"
    BY <1>0, <1>1, <1>2 DEF CaAssumption
  <2> QED
    BY <1>0, <1>1, <2>1, <2>2, CaRequest
<1>4. CaShaped'
  BY <1>0, <1>1, <1>3 DEF CaShaped, Ca!TypeOK, CaAssumption
<1>5. ASSUME ~raced'
      PROVE  /\ Alone'
             /\ \A o \in Callers : callers'[o].todo \in Making => Underway(o)'
             /\ \A o \in Callers : callers'[o].todo \in Signing => Signed(o)'
             /\ Ca!CertificatesVerify'
             /\ ~lost' => Relied'
  <2>1. /\ ~raced /\ \A o \in Callers \ {c} : Ca!Working(o) => Ca!Complete /\ callers[o].todo \notin Making
    BY <1>0, <1>5, CaStarts
  <2>2. Alone'
    <3>1. callers'[c].todo \in Making => ~Ca!Complete
      BY <1>1, <1>2, <1>3, OpsApart
    <3> QED
      BY <1>0, <1>3, <2>1, <3>1 DEF CaInv, Alone, Ca!Working, Ca!Complete
  <2>3. ASSUME NEW o \in Callers, callers'[o].todo \in Making
        PROVE  Underway(o)'
    <3>1. CASE o = c
      <4>1. ~Ca!Complete /\ callers'[o].todo = Make7
        BY <1>1, <1>2, <1>3, <2>3, <3>1, OpsApart
      <4> QED
        <5>1. Len(callers'[o].todo) = 7 /\ ~Ca!Complete'
          BY <1>0, <1>2, <4>1 DEF Ca!Complete
        <5> QED
          BY <5>1 DEF Underway
    <3>2. CASE o # c
      <4>1. callers'[o] = callers[o] /\ Underway(o)
        BY <1>3, <2>1, <2>3, <3>2 DEF CaInv
      <4> QED
        BY <1>0, <4>1 DEF Underway, Ca!Complete
    <3> QED
      BY <3>1, <3>2
  <2>4. ASSUME NEW o \in Callers, callers'[o].todo \in Signing
        PROVE  Signed(o)'
    <3>1. CASE o = c
      <4>1. Ca!Complete /\ callers'[o].todo = Sign4
        BY <1>1, <1>2, <1>3, <2>4, <3>1, OpsApart
      <4> QED
        <5>1. Len(callers'[o].todo) = 4 /\ Ca!Complete'
          BY <1>0, <1>2, <4>1 DEF Ca!Complete
        <5> QED
          BY <5>1 DEF Signed
    <3>2. CASE o # c
      <4>1. callers'[o] = callers[o] /\ Signed(o)
        BY <1>3, <2>1, <2>4, <3>2 DEF CaInv
      <4> QED
        BY <1>0, <4>1 DEF Signed, Ca!Complete
    <3> QED
      BY <3>1, <3>2
  <2>5. Ca!CertificatesVerify'
    BY <1>0, <2>1 DEF CaInv, Ca!CertificatesVerify, Ca!Complete, Ca!Whole
  <2>6. ~lost' => Relied'
    <3> SUFFICES ASSUME ~lost PROVE Relied'
      BY <1>0
    <3>1. Relied
      BY <2>1 DEF CaInv
    <3>2. r.step \in {"trust", "files"} => Ca!Complete
      BY <1>0, <1>1
    <3>3. r.step = "files" => ca["crt"] \in trusted
      BY <1>0, <1>1, <3>1 DEF Relied, Requested
    <3>4. r.step \in {"ask", "https"} => callers[c].step = r.step
      BY <1>1
    <3> QED
      BY <1>0, <1>3, <3>1, <3>2, <3>3, <3>4 DEF Relied, Ca!Complete
  <2> QED
    BY <2>2, <2>3, <2>4, <2>5, <2>6
<1> QED
  BY <1>4, <1>5 DEF CaInv

\* What any file operation leaves of its request.
LEMMA CaStepShape ==
  ASSUME CaAssumption, CaShaped, NEW c \in Callers, Ca!Step(c)
  PROVE  /\ callers[c].todo # <<>>
         /\ callers' \in [Callers -> Requests] /\ \A o \in Callers : Requested(o)'
         /\ \A o \in Callers \ {c} : callers'[o] = callers[o]
         /\ callers'[c] = [callers[c] EXCEPT !.todo = Tail(@)]
         /\ UNCHANGED <<lock, trusted, secured, raced, lost, made>>
<1> DEFINE r == [callers[c] EXCEPT !.todo = Tail(@)]
<1>1. /\ callers[c].todo # <<>> /\ callers[c] \in Requests /\ Requested(c)
      /\ UNCHANGED <<lock, trusted, secured, raced, lost, made>>
      /\ callers' = [callers EXCEPT ![c] = r]
  BY DEF Ca!Step, Ca!Working, CaShaped
<1>2. /\ callers[c].todo \in Making => Tail(callers[c].todo) \in Making \cup {<<>>}
      /\ callers[c].todo \in Signing => Tail(callers[c].todo) \in Signing \cup {<<>>}
      /\ callers[c].todo \in Unsigning => Tail(callers[c].todo) \in Unsigning \cup {<<>>}
  BY MakingOps, SigningOps, UnsigningOps
<1>3. /\ r \in Requests /\ r.step = callers[c].step /\ r.domain = callers[c].domain
      /\ r.new = callers[c].new /\ r.todo = Tail(callers[c].todo)
  BY <1>1, <1>2 DEF Requests, Requested
<1> HIDE DEF r
<1>4. /\ \/ r.todo = <<>>
         \/ r.todo \in Making /\ r.step \in {"ca", "https", "serve"} /\ r.new \in 1..MaxCas
         \/ r.todo \in Signing /\ r.step = "files"
         \/ r.todo \in Unsigning /\ r.step = "unsecure"
      /\ r.step # "idle" => r.domain \in Domains
      /\ r.step \in {"https", "serve", "files", "unsecure"} => lock' = c
      /\ r.step = "serve" => r.domain \in secured'
  BY <1>1, <1>2, <1>3 DEF Requested
<1>5. /\ callers' \in [Callers -> Requests] /\ \A o \in Callers : Requested(o)'
      /\ (\A o \in Callers \ {c} : callers'[o] = callers[o]) /\ callers'[c] = r
  BY <1>1, <1>3, <1>4, CaRequest
<1> QED
  BY <1>1, <1>5 DEF r

\* An operation that makes a CA: it works alone, and a CA that looks complete at
\* the end is one, without a certificate of another.
LEMMA CaMaking ==
  ASSUME CaAssumption, CaInv, NEW c \in Callers, Ca!Step(c), callers[c].todo \in Making
  PROVE  CaInv'
<1> DEFINE t == callers[c].todo
           new == callers[c].new
           op == Head(t)
<1>0. /\ CaShaped /\ callers[c] \in Requests /\ Requested(c) /\ Ca!TypeOK /\ made \in 0..MaxCas
      /\ new \in 1..MaxCas
  BY OpsApart DEF CaInv, CaShaped, Requested
<1>1. /\ callers' \in [Callers -> Requests] /\ \A o \in Callers : Requested(o)'
      /\ \A o \in Callers \ {c} : callers'[o] = callers[o]
      /\ callers'[c] = [callers[c] EXCEPT !.todo = Tail(@)]
      /\ UNCHANGED <<lock, trusted, secured, raced, lost, made>>
  BY <1>0, CaStepShape
<1>2. callers'[c].todo = Tail(t) /\ callers'[c].new = new
  BY <1>0, <1>1 DEF Requests
<1>3. /\ t \in Making /\ Len(t) \in 1..7 /\ Tail(t) \in Making \cup {<<>>}
      /\ (Tail(t) = <<>>) <=> (Len(t) = 1)
      /\ Tail(t) # <<>> => Len(Tail(t)) = Len(t) - 1
  BY MakingOps
<1>4. /\ Len(t) = 7 => ca' = [ca EXCEPT !["crt"] = 0] /\ certs' = certs
      /\ Len(t) = 6 => ca' = [ca EXCEPT !["key"] = 0] /\ certs' = certs
      /\ Len(t) = 5 => ca' = [ca EXCEPT !["sha256"] = 0] /\ certs' = certs
      /\ Len(t) = 4 => ca' = ca /\ certs' = [e \in Domains |-> Ca!NoCert]
      /\ Len(t) = 3 => ca' = [ca EXCEPT !["crt"] = new] /\ certs' = certs
      /\ Len(t) = 2 => ca' = [ca EXCEPT !["key"] = new] /\ certs' = certs
      /\ Len(t) = 1 => ca' = [ca EXCEPT !["sha256"] = new] /\ certs' = certs
  <2>1. /\ ca' = CASE op.what = "remove" -> [ca EXCEPT ![op.file] = 0]
                   [] op.what = "write" -> [ca EXCEPT ![op.file] = new]
                   [] OTHER -> ca
        /\ certs' = CASE op.what = "clear" -> [e \in Domains |-> Ca!NoCert]
                      [] op = Ca!Op("unsign", "crt") -> [certs EXCEPT ![callers[c].domain].crt = 0]
                      [] op = Ca!Op("unsign", "key") -> [certs EXCEPT ![callers[c].domain].key = FALSE]
                      [] op = Ca!Op("sign", "crt") -> [certs EXCEPT ![callers[c].domain].crt = ca.key]
                      [] op = Ca!Op("sign", "key") -> [certs EXCEPT ![callers[c].domain].key = TRUE]
                      [] OTHER -> certs
    BY DEF Ca!Step
  <2> HIDE DEF t, new, op
  <2>2. /\ Len(t) = 7 => op = Ca!Op("remove", "crt")
        /\ Len(t) = 6 => op = Ca!Op("remove", "key")
        /\ Len(t) = 5 => op = Ca!Op("remove", "sha256")
        /\ Len(t) = 4 => op = Ca!Op("clear", "certs")
        /\ Len(t) = 3 => op = Ca!Op("write", "crt")
        /\ Len(t) = 2 => op = Ca!Op("write", "key")
        /\ Len(t) = 1 => op = Ca!Op("write", "sha256")
    BY <1>3, MakingOps DEF op
  <2>3. CASE Len(t) = 7
    <3>1. op.what = "remove" /\ op.file = "crt" /\ op # Ca!Op("unsign", "crt")
          /\ op # Ca!Op("unsign", "key") /\ op # Ca!Op("sign", "crt") /\ op # Ca!Op("sign", "key")
      BY <2>2, <2>3, OpFields
    <3>2. ca' = [ca EXCEPT !["crt"] = 0] /\ certs' = certs
      BY <2>1, <3>1
    <3> QED
      BY <2>3, <3>2
  <2>4. CASE Len(t) = 6
    <3>1. op.what = "remove" /\ op.file = "key" /\ op # Ca!Op("unsign", "crt")
          /\ op # Ca!Op("unsign", "key") /\ op # Ca!Op("sign", "crt") /\ op # Ca!Op("sign", "key")
      BY <2>2, <2>4, OpFields
    <3>2. ca' = [ca EXCEPT !["key"] = 0] /\ certs' = certs
      BY <2>1, <3>1
    <3> QED
      BY <2>4, <3>2
  <2>5. CASE Len(t) = 5
    <3>1. op.what = "remove" /\ op.file = "sha256" /\ op # Ca!Op("unsign", "crt")
          /\ op # Ca!Op("unsign", "key") /\ op # Ca!Op("sign", "crt") /\ op # Ca!Op("sign", "key")
      BY <2>2, <2>5, OpFields
    <3>2. ca' = [ca EXCEPT !["sha256"] = 0] /\ certs' = certs
      BY <2>1, <3>1
    <3> QED
      BY <2>5, <3>2
  <2>6. CASE Len(t) = 4
    BY <2>1, <2>2, <2>6, OpFields
  <2>7. CASE Len(t) = 3
    <3>1. op.what = "write" /\ op.file = "crt" /\ op # Ca!Op("unsign", "crt")
          /\ op # Ca!Op("unsign", "key") /\ op # Ca!Op("sign", "crt") /\ op # Ca!Op("sign", "key")
      BY <2>2, <2>7, OpFields
    <3>2. ca' = [ca EXCEPT !["crt"] = new] /\ certs' = certs
      BY <2>1, <3>1
    <3> QED
      BY <2>7, <3>2
  <2>8. CASE Len(t) = 2
    <3>1. op.what = "write" /\ op.file = "key" /\ op # Ca!Op("unsign", "crt")
          /\ op # Ca!Op("unsign", "key") /\ op # Ca!Op("sign", "crt") /\ op # Ca!Op("sign", "key")
      BY <2>2, <2>8, OpFields
    <3>2. ca' = [ca EXCEPT !["key"] = new] /\ certs' = certs
      BY <2>1, <3>1
    <3> QED
      BY <2>8, <3>2
  <2>9. CASE Len(t) = 1
    <3>1. op.what = "write" /\ op.file = "sha256" /\ op # Ca!Op("unsign", "crt")
          /\ op # Ca!Op("unsign", "key") /\ op # Ca!Op("sign", "crt") /\ op # Ca!Op("sign", "key")
      BY <2>2, <2>9, OpFields
    <3>2. ca' = [ca EXCEPT !["sha256"] = new] /\ certs' = certs
      BY <2>1, <3>1
    <3> QED
      BY <2>9, <3>2
  <2> QED
    BY <1>3, <2>3, <2>4, <2>5, <2>6, <2>7, <2>8, <2>9
<1>5. CaShaped'
  <2>1. ca' \in [Ca!Files -> 0..MaxCas] /\ certs' \in [Domains -> [crt : 0..MaxCas, key : BOOLEAN]]
    <3> HIDE DEF t, new
    <3>1. Ca!NoCert \in [crt : 0..MaxCas, key : BOOLEAN]
      BY DEF Ca!NoCert, CaAssumption
    <3>2. 0 \in 0..MaxCas /\ new \in 0..MaxCas
      BY <1>0 DEF CaAssumption
    <3> QED
      BY <1>0, <1>3, <1>4, <3>1, <3>2 DEF Ca!TypeOK
  <2> QED
    BY <1>0, <1>1, <2>1 DEF CaShaped, Ca!TypeOK
<1>6. ASSUME ~raced'
      PROVE  /\ Alone'
             /\ \A o \in Callers : callers'[o].todo \in Making => Underway(o)'
             /\ \A o \in Callers : callers'[o].todo \in Signing => Signed(o)'
             /\ Ca!CertificatesVerify'
             /\ ~lost' => Relied'
  <2>1. ~raced /\ Alone /\ Underway(c)
    BY <1>1, <1>3, <1>6 DEF CaInv
  <2>2. \A o \in Callers \ {c} : callers'[o].todo = <<>>
    <3>1. t # <<>>
      BY <1>3, OpsApart
    <3> QED
      BY <1>1, <1>3, <2>1, <3>1 DEF Alone, Ca!Working
  <2>3. Alone'
    BY <2>2 DEF Alone, Ca!Working
  <2>4. Len(t) # 1 => Underway(c)'
    <3>1. Len(t) # 1 => Len(callers'[c].todo) = Len(t) - 1
      BY <1>2, <1>3
    <3>2. /\ ~Ca!Complete
          /\ Len(t) \in {6, 5, 4} => ca["crt"] = 0
          /\ Len(t) \in {5, 4, 3} => ca["key"] = 0
          /\ Len(t) \in {4, 3, 2, 1} => ca["sha256"] = 0
          /\ Len(t) \in {3, 2, 1} => \A e \in Domains : certs[e] = Ca!NoCert
          /\ Len(t) \in {2, 1} => ca["crt"] = new
          /\ Len(t) = 1 => ca["key"] = new
      BY <2>1 DEF Underway
    <3> HIDE DEF t, new
    <3>3. Len(t) # 1 => ~Ca!Complete'
      BY <1>0, <1>3, <1>4, <3>2 DEF Ca!Complete, Ca!TypeOK, Ca!Files
    <3>4. /\ Len(t) \in {7, 6, 5} => ca'["crt"] = 0
          /\ Len(t) \in {6, 5, 4} => ca'["key"] = 0
          /\ Len(t) \in {5, 4, 3, 2} => ca'["sha256"] = 0
          /\ Len(t) \in {4, 3, 2} => \A e \in Domains : certs'[e] = Ca!NoCert
          /\ Len(t) \in {3, 2} => ca'["crt"] = new
          /\ Len(t) = 2 => ca'["key"] = new
      BY <1>0, <1>4, <3>2 DEF Ca!TypeOK, Ca!Files
    <3> QED
      BY <1>2, <1>3, <3>1, <3>3, <3>4 DEF Underway
  <2>5. Len(t) = 1 => Ca!CertificatesVerify'
    <3>1. Len(t) = 1 => /\ ca'["crt"] = new /\ ca'["key"] = new /\ ca'["sha256"] = new
                        /\ \A e \in Domains : certs'[e] = Ca!NoCert
      BY <1>0, <1>4, <2>1 DEF Underway, Ca!TypeOK, Ca!Files
    <3> QED
      BY <3>1 DEF Ca!CertificatesVerify, Ca!Whole, Ca!NoCert
  <2>6. Len(t) # 1 => Ca!CertificatesVerify'
    BY <2>4 DEF Underway, Ca!CertificatesVerify
  <2>7. \A o \in Callers : callers'[o].todo \in Making => Underway(o)'
    BY <1>2, <1>3, <2>2, <2>4, OpsApart
  <2>8. \A o \in Callers : callers'[o].todo \notin Signing
    BY <1>2, <1>3, <2>2, OpsApart
  <2>9. ~lost' => Relied'
    <3>1. ~lost => Relied
      BY <2>1 DEF CaInv
    <3>2. ~Ca!Complete
      BY <2>1 DEF Underway
    <3>3. \A o \in Callers : callers'[o].step = callers[o].step
      BY <1>0, <1>1 DEF Requests
    <3> QED
      BY <1>1, <3>1, <3>2, <3>3 DEF Relied
  <2> QED
    BY <2>3, <2>5, <2>6, <2>7, <2>8, <2>9
<1> QED
  BY <1>5, <1>6 DEF CaInv

\* An operation on a certificate: only its holder of the lock works on any.
LEMMA CaCertificate ==
  ASSUME CaAssumption, CaInv, NEW c \in Callers, Ca!Step(c), callers[c].todo \in Signing \cup Unsigning
  PROVE  CaInv'
<1> DEFINE t == callers[c].todo
           d == callers[c].domain
           op == Head(t)
<1>0. /\ CaShaped /\ callers[c] \in Requests /\ Requested(c) /\ Ca!TypeOK
      /\ d \in Domains /\ lock = c /\ callers[c].step \in {"files", "unsecure"}
      /\ t \in Signing \cup Unsigning /\ t # <<>>
  BY OpsApart DEF CaInv, CaShaped, Requested
<1>1. /\ callers' \in [Callers -> Requests] /\ \A o \in Callers : Requested(o)'
      /\ \A o \in Callers \ {c} : callers'[o] = callers[o]
      /\ callers'[c] = [callers[c] EXCEPT !.todo = Tail(@)]
      /\ UNCHANGED <<lock, trusted, secured, raced, lost, made>>
  BY <1>0, CaStepShape
<1>2. /\ callers'[c].todo = Tail(t) /\ callers'[c].domain = d
      /\ Tail(t) \in Signing \cup Unsigning \cup {<<>>}
      /\ \A o \in Callers : callers'[o].step = callers[o].step
  BY <1>0, <1>1, SigningOps, UnsigningOps DEF Requests
<1>3. /\ op \in {Ca!Op("unsign", "crt"), Ca!Op("unsign", "key"), Ca!Op("sign", "crt"), Ca!Op("sign", "key")}
      /\ op.what \in {"sign", "unsign"}
  <2>1. CASE t \in Signing
    BY <2>1, SigningOps, OpFields
  <2>2. CASE t \in Unsigning
    BY <2>2, UnsigningOps, OpFields
  <2> QED
    BY <1>0, <2>1, <2>2
<1>4. /\ ca' = ca
      /\ \/ op = Ca!Op("unsign", "crt") /\ certs' = [certs EXCEPT ![d].crt = 0]
         \/ op = Ca!Op("unsign", "key") /\ certs' = [certs EXCEPT ![d].key = FALSE]
         \/ op = Ca!Op("sign", "crt") /\ certs' = [certs EXCEPT ![d].crt = ca["key"]]
         \/ op = Ca!Op("sign", "key") /\ certs' = [certs EXCEPT ![d].key = TRUE]
  <2>1. /\ ca' = CASE op.what = "remove" -> [ca EXCEPT ![op.file] = 0]
                   [] op.what = "write" -> [ca EXCEPT ![op.file] = callers[c].new]
                   [] OTHER -> ca
        /\ certs' = CASE op.what = "clear" -> [e \in Domains |-> Ca!NoCert]
                      [] op = Ca!Op("unsign", "crt") -> [certs EXCEPT ![d].crt = 0]
                      [] op = Ca!Op("unsign", "key") -> [certs EXCEPT ![d].key = FALSE]
                      [] op = Ca!Op("sign", "crt") -> [certs EXCEPT ![d].crt = ca.key]
                      [] op = Ca!Op("sign", "key") -> [certs EXCEPT ![d].key = TRUE]
                      [] OTHER -> certs
    BY DEF Ca!Step
  <2> HIDE DEF t, d, op
  <2> QED
    BY <1>3, <2>1, OpFields
<1>5. ca' = ca /\ certs' \in [Domains -> [crt : 0..MaxCas, key : BOOLEAN]]
      /\ \A e \in Domains \ {d} : certs'[e] = certs[e]
  <2> HIDE DEF t, d, op
  <2> QED
    <3>1. 0 \in 0..MaxCas /\ ca["key"] \in 0..MaxCas
      BY <1>0 DEF Ca!TypeOK, Ca!Files, CaAssumption
    <3>2. /\ [certs[d] EXCEPT !.crt = 0] \in [crt : 0..MaxCas, key : BOOLEAN]
          /\ [certs[d] EXCEPT !.key = FALSE] \in [crt : 0..MaxCas, key : BOOLEAN]
          /\ [certs[d] EXCEPT !.crt = ca["key"]] \in [crt : 0..MaxCas, key : BOOLEAN]
          /\ [certs[d] EXCEPT !.key = TRUE] \in [crt : 0..MaxCas, key : BOOLEAN]
      BY <1>0, <3>1 DEF Ca!TypeOK
    <3>3. \E k : k \in [crt : 0..MaxCas, key : BOOLEAN] /\ certs' = [certs EXCEPT ![d] = k]
      BY <1>4, <3>2
    <3>4. certs \in [Domains -> [crt : 0..MaxCas, key : BOOLEAN]]
      BY <1>0 DEF Ca!TypeOK
    <3> QED
      BY <1>4, <3>3, <3>4
<1>6. CaShaped'
  BY <1>0, <1>1, <1>5 DEF CaShaped, Ca!TypeOK
<1>7. ASSUME ~raced'
      PROVE  /\ Alone'
             /\ \A o \in Callers : callers'[o].todo \in Making => Underway(o)'
             /\ \A o \in Callers : callers'[o].todo \in Signing => Signed(o)'
             /\ Ca!CertificatesVerify'
             /\ ~lost' => Relied'
  <2>1. /\ ~raced /\ Alone /\ Ca!CertificatesVerify
        /\ ~lost => Relied
        /\ t \in Signing => Signed(c)
    BY <1>1, <1>7 DEF CaInv
  <2>2. \A o \in Callers \ {c} : callers[o].todo \notin Making
    BY <1>0, <2>1, OpsApart DEF Alone, Ca!Working
  <2>3. \A o \in Callers : callers'[o].todo \notin Making
    BY <1>1, <1>2, <2>2, OpsApart
  <2>4. Alone'
    <3>1. ASSUME NEW o \in Callers \ {c}, Ca!Working(o)
          PROVE  Ca!Complete
      BY <1>0, <2>1, <3>1 DEF Alone, Ca!Working
    <3>2. ASSUME NEW o \in Callers, NEW p \in Callers, o # p, Ca!Working(o)', Ca!Working(p)'
          PROVE  Ca!Complete'
      <4>1. PICK q \in Callers \ {c} : q \in {o, p}
        BY <3>2
      <4>2. Ca!Working(q)
        BY <1>1, <3>2, <4>1 DEF Ca!Working
      <4> QED
        BY <1>5, <3>1, <4>2 DEF Ca!Complete
    <3> QED
      BY <2>3, <3>2 DEF Alone
  <2>5. \A o \in Callers : callers'[o].todo \in Signing => o = c
    <3>1. ASSUME NEW o \in Callers, o # c, callers'[o].todo \in Signing
          PROVE  FALSE
      <4>1. Requested(o) /\ callers[o].todo \in Signing
        BY <1>0, <1>1, <3>1 DEF CaShaped
      <4>2. callers[o].step = "files"
        BY <4>1, OpsApart DEF Requested
      <4> QED
        BY <1>0, <3>1, <4>1, <4>2 DEF Requested
    <3> QED
      BY <3>1
  <2>6. CASE t \in Signing
    <3>1. /\ Ca!Complete /\ ca["crt"] = ca["key"] /\ Ca!Complete'
          /\ Len(t) = 1 => certs[d].crt = ca["crt"]
      BY <1>5, <2>1, <2>6 DEF Signed, Ca!CertificatesVerify, Ca!Complete
    <3>2. /\ Len(t) \in 1..4
          /\ Len(t) = 4 => op = Ca!Op("unsign", "crt")
          /\ Len(t) = 3 => op = Ca!Op("unsign", "key")
          /\ Len(t) = 2 => op = Ca!Op("sign", "crt")
          /\ Len(t) = 1 => op = Ca!Op("sign", "key")
          /\ Tail(t) # <<>> => Len(Tail(t)) = Len(t) - 1
      BY <2>6, SigningOps
    <3> HIDE DEF t, d, op
    <3>3. Tail(t) \in Signing => Signed(c)'
      <4>1. Tail(t) \in Signing /\ Len(Tail(t)) = 1 => certs'[d].crt = ca["crt"]
        <5>1. Tail(t) \in Signing /\ Len(Tail(t)) = 1 => Len(t) = 2
          BY <3>2, OpsApart
        <5>2. Len(t) = 2 => certs' = [certs EXCEPT ![d].crt = ca["key"]]
          BY <1>4, <3>2, OpFields
        <5> QED
          BY <1>0, <3>1, <5>1, <5>2 DEF Ca!TypeOK
      <4> QED
        BY <1>2, <1>5, <3>1, <4>1 DEF Signed
    <3>4. certs'[d].crt # 0 /\ certs'[d].key => certs'[d].crt = ca["crt"]
      <4>1. Ca!Whole(d) => certs[d].crt = ca["crt"]
        BY <1>0, <2>1, <3>1 DEF Ca!CertificatesVerify
      <4> QED
        BY <1>0, <1>4, <3>1, <3>2, <4>1, OpFields DEF Ca!TypeOK, Ca!Whole
    <3>5. Ca!CertificatesVerify'
      BY <1>0, <1>5, <2>1, <3>1, <3>4 DEF Ca!CertificatesVerify, Ca!Whole
    <3>6. \A o \in Callers : callers'[o].todo \in Signing => Signed(o)'
      BY <1>2, <2>5, <3>3
    <3>7. ~lost' => Relied'
      BY <1>1, <1>2, <1>5, <2>1 DEF Relied, Ca!Complete
    <3> QED
      BY <2>3, <2>4, <3>5, <3>6, <3>7
  <2>7. CASE t \in Unsigning
    <3>1. op \in {Ca!Op("unsign", "crt"), Ca!Op("unsign", "key")} /\ Tail(t) \in Unsigning \cup {<<>>}
      BY <2>7, UnsigningOps
    <3> HIDE DEF t, d, op
    <3>2. \A o \in Callers : callers'[o].todo \notin Signing
      <4>1. ASSUME callers'[c].todo \in Signing
            PROVE  FALSE
        BY <1>2, <3>1, <4>1, OpsApart
      <4> QED
        BY <2>5, <4>1
    <3>3. \A e \in Domains : Ca!Whole(e)' => Ca!Whole(e) /\ certs'[e].crt = certs[e].crt
      <4>1. /\ certs'[d].crt \in {certs[d].crt, 0}
            /\ certs'[d].key => certs[d].key
        BY <1>0, <1>4, <3>1, OpFields DEF Ca!TypeOK
      <4>2. \A e \in Domains \ {d} : certs'[e] = certs[e]
        BY <1>5
      <4> QED
        BY <4>1, <4>2 DEF Ca!Whole
    <3>4. Ca!CertificatesVerify'
      BY <1>1, <1>5, <2>1, <3>3 DEF Ca!CertificatesVerify, Ca!Complete
    <3>5. ~lost' => Relied'
      BY <1>1, <1>2, <1>5, <2>1 DEF Relied, Ca!Complete
    <3> QED
      BY <2>3, <2>4, <3>2, <3>4, <3>5
  <2> QED
    BY <1>0, <2>6, <2>7
<1> QED
  BY <1>6, <1>7 DEF CaInv

\* Every step keeps the invariant.
LEMMA CaStep ==
  ASSUME CaAssumption, CaInv, [Ca!Next]_Ca!vars
  PROVE  CaInv'
<1>1. CASE UNCHANGED Ca!vars
  BY <1>1 DEF Ca!vars, CaInv, CaShaped, Ca!TypeOK, Requested, Alone, Underway, Signed, Relied,
              Ca!Working, Ca!Complete, Ca!Whole, Ca!CertificatesVerify
<1>2. ASSUME NEW c \in Callers, Ca!Step(c)
      PROVE  CaInv'
  <2>1. callers[c].todo \in Making \cup Signing \cup Unsigning
    BY <1>2 DEF CaInv, CaShaped, Requested, Ca!Step, Ca!Working
  <2> QED
    BY <1>2, <2>1, CaMaking, CaCertificate
<1>3. ASSUME NEW c \in Callers, NEW d \in Domains,
             Ca!EnsureLocalCa(c, d) \/ Ca!Serve(c, d) \/ Ca!Unsecure(c, d)
      PROVE  CaInv'
  BY <1>3, CaRequests, CaUnsecure
<1>4. ASSUME NEW c \in Callers, Ca!Trust(c) \/ Ca!SetSiteHttps(c) \/ Ca!Finish(c) \/ Ca!Fail(c)
      PROVE  CaInv'
  <2>1. callers[c].step # "idle"
    BY <1>4 DEF Ca!Trust, Ca!SetSiteHttps, Ca!Finish, Ca!Fail
  <2>2. callers[c].domain \in Domains
    BY <2>1 DEF CaInv, CaShaped, Requested
  <2> QED
    BY <1>4, <2>2, CaRequests
<1>5. CASE Ca!Crash \/ (\E f \in Ca!Files : Ca!Lose(f)) \/ (\E d \in Domains : Ca!LoseKey(d))
  BY <1>5, CaFaults
<1>6. CASE Ca!Done
  BY <1>1, <1>6 DEF Ca!Done
<1>7. CASE Ca!Next
  BY <1>2, <1>3, <1>4, <1>5, <1>6, <1>7, CaCheck DEF Ca!Next
<1> QED
  BY <1>1, <1>7

\* CaInv is an invariant of LocalCa.
LEMMA CaInvariance ==
  ASSUME CaAssumption
  PROVE  Ca!Spec => []CaInv
<1>1. Ca!Init => CaInv
  BY CaInit
<1>2. CaInv /\ [Ca!Next]_Ca!vars => CaInv'
  BY CaStep
<1> QED
  BY <1>1, <1>2, PTL DEF Ca!Spec

\* Each variable of LocalCa has its type.
THEOREM CaTypeCorrect ==
  ASSUME CaAssumption
  PROVE  Ca!Spec => []Ca!TypeOK
<1>1. CaInv => Ca!TypeOK
  BY DEF CaInv, CaShaped
<1> QED
  BY <1>1, CaInvariance, PTL

\* Wherever a request stops and whatever is lost: a CA that looks complete is one
\* CA that signed every certificate that will be reused, and the browser accepts a
\* domain that was reported as secured, unless two requests raced on an incomplete
\* CA (ensure_local_ca, ensure_domain_certificate, trust_local_ca).
THEOREM SecuredDomainsVerify ==
  ASSUME CaAssumption
  PROVE  Ca!Spec => []Ca!SecuredVerifies
<1>1. CaInv => Ca!SecuredVerifies
  BY DEF CaInv, CaShaped, Ca!TypeOK, Relied, Ca!SecuredVerifies, Ca!CertificatesVerify, Ca!SecuredIsTrusted
<1> QED
  BY <1>1, CaInvariance, PTL

-----------------------------------------------------------------------------
(* SiteHomes.                                                              *)

\* Names are numbers in their sorted order, so there is a last one.
HomeAssumption ==
  /\ FirstHome \in Homes /\ DefaultPhp \in Php \cup {Home!NoPhp}
  /\ \E last \in Nat : Names \subseteq 0..last

\* A row of the Site Home: nothing but these fields.
IsSite(s) ==
  /\ s = [id |-> s.id, name |-> s.name, path |-> s.path, php |-> s.php,
            secured |-> s.secured]
  /\ s.name \in Names /\ s.php \in Php \cup {Home!NoPhp} /\ s.secured \in BOOLEAN

\* No two rows share a domain or a directory, and none has a linked Site's domain.
SitesApart(rs) ==
  /\ \A s \in rs : IsSite(s) /\ Home!Dom(s) \notin linked
  /\ \A s, t \in rs : s # t => Home!Dom(s) # Home!Dom(t) /\ s.path # t.path

\* A request has replaced the rows and not yet applied or put them back.
HomeSyncing == phase \in {"resolving", "preparing", "applying", "retiring", "reverting"}

\* The shapes that the steps rely on, with what the phase says of the job.
HomesTyped ==
  /\ home \in Homes
  /\ linked \subseteq Home!Domains /\ domains \subseteq Home!Domains
  /\ certificates \subseteq Home!Domains /\ pools \subseteq Php
  /\ phase \in {"idle", "scanning", "resolving", "preparing", "applying", "retiring",
                "sharing", "reverting", "starting", "refused"}
  /\ damage \in {"none", "leftovers", "all"}
  /\ files = [d \in Home!Domains |-> files[d]]
  /\ job = [kind |-> job.kind, old |-> job.old, fresh |-> job.fresh,
            started |-> job.started,
            kept |-> [home |-> job.kept.home, rows |-> job.kept.rows]]
  /\ job.kind \in {"none", "list", "start", "save", "undo"}
  /\ job.kept.home \in Homes
  /\ phase = "starting" => job.kind = "start"
  /\ phase \in {"idle", "refused"} => job.kind = "none"
  /\ phase \in {"idle", "refused", "scanning"} => job.old = {}

\* The rows are apart, now and before the change.
RowsApart == SitesApart(rows) /\ SitesApart(job.old)

\* nginx has the files of these rows and of the linked Sites, and no others.
InFiles(rs) ==
  /\ \A s \in rs : files[Home!Dom(s)] = s
  /\ \A d \in linked : files[d] = Linked
  /\ damage = "none" =>
       \A d \in Home!Domains : files[d] # None => d \in Home!DomsOf(rs) \cup linked
  /\ Home!Running => loaded = files

\* Until the batch is applied the files are those of the rows before the change.
FilesFollow ==
  damage # "all" =>
    InFiles(IF phase \in {"resolving", "preparing", "applying", "reverting"} THEN job.old
            ELSE rows)

\* The hosts entries change first, and go back last.
DomainsFollow ==
  damage # "all" /\ phase # "reverting" =>
    domains = Home!DomsOf(IF phase = "resolving" THEN job.old ELSE rows) \cup linked

\* Every secured Site has its certificate, and nothing else has one.
Certified(rs) ==
  /\ Home!SecuredOf(rs) \subseteq certificates
  /\ damage = "none" => certificates = Home!SecuredOf(rs)

\* While both sets of files may be served there are certificates for both, and a
\* batch that fails removes none that the rows before it need.
CertificatesFollow ==
  damage # "all" =>
    /\ phase \in {"resolving", "preparing", "reverting"} => Certified(job.old)
    /\ phase \in {"applying", "retiring"} => Certified(job.old \cup rows)
    /\ phase = "applying" =>
         /\ job.fresh \cap Home!SecuredOf(job.old) = {}
         /\ damage = "none"
              => Home!SecuredOf(rows) \ Home!SecuredOf(job.old) \subseteq job.fresh
    /\ ~HomeSyncing => Certified(rows)

\* The PHP versions that the served files name are running.
PoolsFollow ==
  damage # "all" /\ Home!Running =>
    /\ phase # "retiring" /\ HomeSyncing => Home!PhpOf(job.old) \subseteq pools
    /\ phase \in {"applying", "retiring"} => Home!PhpOf(rows) \subseteq pools
    /\ ~HomeSyncing => Home!PhpOf(rows) \subseteq pools

\* What is shared are these Sites, by directory, id and name.
SharesFit(rs) ==
  \A x \in shares : \E s \in rs : s.path = x.path /\ s.id = x.id /\ s.name = x.name

\* Shares stay those of the old rows until the new ones are applied.
SharesFollow ==
  damage = "none" =>
    /\ phase \in {"idle", "scanning", "starting", "refused"} => SharesFit(rows)
    /\ HomeSyncing => SharesFit(job.old)

\* The same Site with the same settings; its name may have changed.
SameSite(s, t) ==
  t.path = s.path /\ t.id = s.id /\ t.php = s.php /\ t.secured = s.secured

\* Every Site kept whose directory is still there is itself.
KeepsSites ==
  \A s \in job.kept.rows :
    (\E t \in rows : t.path = s.path) => \E t \in rows : SameSite(s, t)

\* How a SaveSiteHome keeps its promise in each of its phases.
KeptHeld ==
  /\ job.kind = "undo" \/ phase = "refused" => home = job.kept.home /\ KeepsSites
  /\ job.kind = "save" /\ phase = "scanning" => rows = job.kept.rows
  /\ job.kind = "save" /\ HomeSyncing => job.old = job.kept.rows
  /\ job.kind = "undo" /\ phase = "scanning" => job.kept.rows \subseteq rows
  /\ job.kind = "undo" /\ HomeSyncing => job.kept.rows \subseteq job.old

\* Strong enough to pass through every step.
HomeInv ==
  /\ HomesTyped /\ RowsApart /\ FilesFollow /\ DomainsFollow /\ CertificatesFollow
  /\ PoolsFollow /\ SharesFollow /\ KeptHeld

\* A name's listing looks at the names before it only, so the recursive definition has
\* a solution: by induction on the bound below which it is right.
LEMMA ListedExists ==
  ASSUME NEW N \in Nat, NEW Ns, Ns \subseteq 0..N,
         NEW Fit \in SUBSET Ns, NEW Clash \in SUBSET (Ns \X Ns)
  PROVE  \E f \in [Ns -> BOOLEAN] : \A n \in Ns :
           f[n] <=> n \in Fit /\ \A m \in Ns : m < n /\ f[m] => <<m, n>> \notin Clash
<1> DEFINE Right(f, k) == \A n \in Ns : n < k =>
             (f[n] <=> n \in Fit /\ \A m \in Ns : m < n /\ f[m] => <<m, n>> \notin Clash)
           Open == {k \in Nat : ~ \E f \in [Ns -> BOOLEAN] : Right(f, k)}
<1>1. Open = {}
  <2>1. SUFFICES ASSUME Open # {} PROVE FALSE
    OBVIOUS
  <2>2. Open \subseteq Nat
    OBVIOUS
  <2>3. PICK k \in Open : \A j \in Open : <<j, k>> \notin OpToRel(<, Nat)
    BY <2>1, <2>2, NatLessThanWellFounded, WFMin
  <2>4. \A j \in Nat : j < k => j \notin Open
    BY <2>2, <2>3 DEF OpToRel
  <2>5. k # 0
    <3>1. [n \in Ns |-> FALSE] \in [Ns -> BOOLEAN]
      OBVIOUS
    <3>2. Right([n \in Ns |-> FALSE], 0)
      OBVIOUS
    <3> QED
      BY <3>1, <3>2, <2>2, <2>3
  <2>6. k \in Nat /\ k - 1 \in Nat /\ k - 1 < k
    <3>1. k \in Nat
      BY <2>2, <2>3
    <3> HIDE DEF Open
    <3> QED
      BY <3>1, <2>5
  <2>7. PICK g \in [Ns -> BOOLEAN] : Right(g, k - 1)
    <3>1. k - 1 \notin Open
      BY <2>4, <2>6
    <3> HIDE DEF Right
    <3> QED
      BY <3>1, <2>6
  <2> DEFINE last == /\ k - 1 \in Fit
                     /\ \A m \in Ns : m < k - 1 /\ g[m] => <<m, k - 1>> \notin Clash
             h == [n \in Ns |-> IF n = k - 1 THEN last ELSE g[n]]
  <2>8. h \in [Ns -> BOOLEAN]
    <3>1. last \in BOOLEAN
      OBVIOUS
    <3>2. \A n \in Ns : g[n] \in BOOLEAN
      OBVIOUS
    <3> HIDE DEF last
    <3> QED
      BY <3>1, <3>2
  <2>9. Right(h, k)
    <3> SUFFICES ASSUME NEW n \in Ns, n < k
                 PROVE h[n] <=> /\ n \in Fit
                                /\ \A m \in Ns : m < n /\ h[m] => <<m, n>> \notin Clash
      OBVIOUS
    <3>1. \A m \in Ns : m < n => h[m] = g[m]
      <4>1. \A m \in Ns : m < n => m # k - 1
        BY <2>6
      <4> HIDE DEF last
      <4> QED
        BY <4>1
    <3>2. CASE n = k - 1
      BY <3>1, <3>2
    <3>3. CASE n # k - 1
      <4>1. n < k - 1
        BY <3>3, <2>6
      <4> QED
        BY <3>1, <3>3, <4>1, <2>7
    <3> QED
      BY <3>2, <3>3
  <2> QED
    BY <2>2, <2>3, <2>8, <2>9
<1>2. PICK f \in [Ns -> BOOLEAN] : Right(f, N + 1)
  BY <1>1
<1> QED
  BY <1>2

\* Two names that can both be Sites.
TwoSites(m, n) ==
  DomainOf[m] # DomainOf[n] /\ entries[home][m] # entries[home][n]

\* Listed is what its definition says.
LEMMA ListedOf ==
  ASSUME HomeAssumption
  PROVE  \A n \in Names :
           Home!Listed[n] <=> /\ entries[home][n] # None
                              /\ DomainOf[n] \notin linked
                              /\ \A m \in Names : m < n /\ Home!Listed[m] => TwoSites(m, n)
<1>1. PICK N \in Nat : Names \subseteq 0..N
  BY DEF HomeAssumption
<1> DEFINE Fit == {n \in Names : entries[home][n] # None /\ DomainOf[n] \notin linked}
           Clash == {p \in Names \X Names : ~TwoSites(p[1], p[2])}
           Body(f, n) == /\ entries[home][n] # None
                         /\ DomainOf[n] \notin linked
                         /\ \A m \in Names : m < n /\ f[m] => TwoSites(m, n)
<1>2. PICK f \in [Names -> BOOLEAN] : \A n \in Names :
        f[n] <=> n \in Fit /\ \A m \in Names : m < n /\ f[m] => <<m, n>> \notin Clash
  <2> HIDE DEF Fit, Clash
  <2>1. Fit \in SUBSET Names /\ Clash \in SUBSET (Names \X Names)
    BY DEF Fit, Clash
  <2>2. \A F \in SUBSET Names, C \in SUBSET (Names \X Names) :
          \E f \in [Names -> BOOLEAN] : \A n \in Names :
            f[n] <=> n \in F /\ \A m \in Names : m < n /\ f[m] => <<m, n>> \notin C
    BY <1>1, ListedExists
  <2> QED
    BY <2>1, <2>2, Zenon
<1>3. \A n \in Names : f[n] <=> Body(f, n)
  <2>1. \A m, n \in Names : <<m, n>> \notin Clash <=> TwoSites(m, n)
    BY DEF TwoSites
  <2>2. \A n \in Names : n \in Fit <=> entries[home][n] # None /\ DomainOf[n] \notin linked
    OBVIOUS
  <2> HIDE DEF Fit, Clash
  <2> QED
    BY <1>2, <2>1, <2>2
<1>4. f = [n \in Names |-> Body(f, n)]
  <2>1. \A n \in Names : f[n] = Body(f, n)
    BY <1>3, Zenon
  <2> QED
    BY <2>1, Zenon
<1>5. Home!Listed = [n \in Names |-> Body(Home!Listed, n)]
  BY <1>4, Zenon DEF Home!Listed, TwoSites
<1>6. \A n \in Names : Home!Listed[n] = Body(Home!Listed, n)
  BY <1>5, Zenon
<1> QED
  BY <1>6, Zenon

\* The Sites made of the directories are apart, and the known ones are kept.
LEMMA DesiredSites ==
  ASSUME HomeAssumption, SitesApart(rows)
  PROVE  /\ SitesApart(Home!Desired)
         /\ \A s \in rows :
              (\E t \in Home!Desired : t.path = s.path)
                => \E t \in Home!Desired : SameSite(s, t)
<1> DEFINE Known(n) == {s \in rows : s.path = entries[home][n]}
           NewSite(n) == [id |-> Home!Fresh(entries[home][n]), name |-> n,
                          path |-> entries[home][n], php |-> DefaultPhp, secured |-> FALSE]
           SiteOf(n) == IF Known(n) # {}
                          THEN [(CHOOSE s \in Known(n) : TRUE) EXCEPT !.name = n]
                        ELSE NewSite(n)
           Ls == {m \in Names : Home!Listed[m]}
<1>1. Home!Desired = {SiteOf(n) : n \in Ls}
  BY Zenon DEF Home!Desired
<1>2. ASSUME NEW n \in Ls, NEW s \in Known(n), s = CHOOSE t \in Known(n) : TRUE
      PROVE  /\ SiteOf(n) = [id |-> s.id, name |-> n, path |-> entries[home][n],
                             php |-> s.php, secured |-> s.secured]
             /\ IsSite(SiteOf(n))
  <2>1. SiteOf(n) = [s EXCEPT !.name = n]
    BY <1>2, Zenon
  <2>2. IsSite(s) /\ s.path = entries[home][n]
    BY <1>2 DEF SitesApart
  <2>3. SiteOf(n) = [id |-> s.id, name |-> n, path |-> s.path, php |-> s.php,
                     secured |-> s.secured]
    <3> HIDE DEF SiteOf
    <3> QED
      BY <2>1, <2>2 DEF IsSite
  <2> HIDE DEF SiteOf, Known
  <2> QED
    BY <2>2, <2>3 DEF IsSite
<1>3. ASSUME NEW n \in Ls, Known(n) = {}
      PROVE  /\ SiteOf(n) = NewSite(n)
             /\ IsSite(SiteOf(n))
  <2>1. SiteOf(n) = NewSite(n)
    BY <1>3, Zenon
  <2> HIDE DEF SiteOf, Known
  <2> QED
    BY <2>1 DEF IsSite, HomeAssumption
<1>4. \A n \in Ls :
        SiteOf(n).name = n /\ SiteOf(n).path = entries[home][n] /\ IsSite(SiteOf(n))
  <2> SUFFICES ASSUME NEW n \in Ls
               PROVE  /\ SiteOf(n).name = n /\ SiteOf(n).path = entries[home][n]
                      /\ IsSite(SiteOf(n))
    OBVIOUS
  <2>1. CASE Known(n) = {}
    <3> HIDE DEF SiteOf, Known
    <3> QED
      BY <2>1, <1>3
  <2>2. CASE Known(n) # {}
    <3> DEFINE s == CHOOSE t \in Known(n) : TRUE
    <3>1. s \in Known(n)
      BY <2>2, Zenon
    <3> HIDE DEF SiteOf, Known
    <3> QED
      BY <3>1, <1>2
  <2> QED
    BY <2>1, <2>2, Zenon
<1>5. \A n \in Ls : DomainOf[n] \notin linked
  BY ListedOf, Zenon
<1>6. \A m, n \in Ls : m # n => TwoSites(m, n)
  <2>1. \A m, n \in Ls : m < n => TwoSites(m, n)
    BY ListedOf, Zenon
  <2>2. \A m, n \in Names : m # n => m < n \/ n < m
    BY DEF HomeAssumption
  <2> QED
    BY <2>1, <2>2 DEF TwoSites
<1>7. SitesApart(Home!Desired)
  <2> HIDE DEF SiteOf, Ls
  <2>1. \A s \in Home!Desired : \E n \in Ls : s = SiteOf(n)
    BY <1>1
  <2>2. \A s \in Home!Desired : IsSite(s) /\ Home!Dom(s) \notin linked
    BY <2>1, <1>4, <1>5 DEF Home!Dom
  <2>3. ASSUME NEW s \in Home!Desired, NEW t \in Home!Desired, s # t
        PROVE  Home!Dom(s) # Home!Dom(t) /\ s.path # t.path
    <3>1. PICK n \in Ls : s = SiteOf(n)
      BY <2>1
    <3>2. PICK m \in Ls : t = SiteOf(m)
      BY <2>1
    <3>3. m # n
      BY <3>1, <3>2, <2>3
    <3> QED
      BY <3>1, <3>2, <3>3, <1>4, <1>6 DEF Home!Dom, TwoSites
  <2> QED
    BY <2>2, <2>3 DEF SitesApart
<1>8. ASSUME NEW s \in rows, NEW t \in Home!Desired, t.path = s.path PROVE SameSite(s, t)
  <2>1. PICK n \in Ls : t = SiteOf(n)
    BY <1>1
  <2>2. s \in Known(n)
    <3> HIDE DEF SiteOf, Ls
    <3> QED
      BY <2>1, <1>4, <1>8
  <2>3. s = CHOOSE u \in Known(n) : TRUE
    <3>1. \A u \in Known(n) : u = s
      <4> HIDE DEF SiteOf, Ls
      <4> QED
        BY <2>2 DEF SitesApart
    <3> QED
      BY <2>2, <3>1, Zenon
  <2>4. t = [id |-> s.id, name |-> n, path |-> entries[home][n], php |-> s.php,
             secured |-> s.secured]
    <3> HIDE DEF SiteOf, Ls, Known
    <3> QED
      BY <2>1, <2>2, <2>3, <1>2
  <2> HIDE DEF SiteOf, Ls, Known
  <2> QED
    BY <2>4, <1>8 DEF SameSite
<1> QED
  BY <1>7, <1>8

\* A SaveSiteHome that failed goes on to undo, an undo has been refused, any other
\* request is done.
Answered(known) ==
  \/ /\ job.kind = "save" /\ home' = job.kept.home /\ phase' = "scanning"
     /\ job' = [kind |-> "undo", old |-> {}, fresh |-> {}, started |-> {},
                kept |-> [home |-> job.kept.home, rows |-> known]]
  \/ /\ job.kind = "undo" /\ home' = home /\ phase' = "refused"
     /\ job' = [kind |-> "none", old |-> {}, fresh |-> {}, started |-> {},
                kept |-> [home |-> job.kept.home, rows |-> known]]
  \/ /\ job.kind \notin {"save", "undo"} /\ home' = home /\ phase' = "idle"
     /\ job' = [kind |-> "none", old |-> {}, fresh |-> {}, started |-> {},
                kept |-> [home |-> FirstHome, rows |-> {}]]

\* What an error does to the job.
LEMMA HomeAnswers ==
  ASSUME HomesTyped, NEW known, Home!Answer(known)
  PROVE  Answered(known)
BY DEF Answered, Home!Answer, Home!Finish, Home!Done, Home!NoJob, Home!Nothing

\* What rows name is in the constants.
LEMMA SitesWithin ==
  ASSUME NEW rs, SitesApart(rs)
  PROVE  /\ Home!DomsOf(rs) \subseteq Home!Domains
         /\ Home!SecuredOf(rs) \subseteq Home!Domains
         /\ Home!PhpOf(rs) \subseteq Php
BY DEF SitesApart, IsSite, Home!Dom, Home!DomsOf, Home!SecuredOf, Home!PhpOf, Home!Domains,
   Home!NoPhp

\* The Site of a domain is the only one.
LEMMA SiteAt ==
  ASSUME NEW rs, SitesApart(rs), NEW d \in Home!DomsOf(rs)
  PROVE  /\ (CHOOSE s \in rs : Home!Dom(s) = d) \in rs
         /\ Home!Dom(CHOOSE s \in rs : Home!Dom(s) = d) = d
         /\ \A s \in rs : Home!Dom(s) = d => s = CHOOSE t \in rs : Home!Dom(t) = d
<1>1. \E s \in rs : Home!Dom(s) = d
  BY DEF Home!DomsOf
<1>2. /\ (CHOOSE s \in rs : Home!Dom(s) = d) \in rs
      /\ Home!Dom(CHOOSE s \in rs : Home!Dom(s) = d) = d
  BY <1>1, Zenon
<1> DEFINE c == CHOOSE s \in rs : Home!Dom(s) = d
<1>3. \A s \in rs : Home!Dom(s) = d => s = c
  <2> HIDE DEF c
  <2> QED
    BY <1>2 DEF SitesApart, c
<1> QED
  BY <1>2, <1>3

\* What a batch writes has the files of the new rows and of no old ones.
LEMMA FilesWritten ==
  ASSUME SitesApart(rows), SitesApart(job.old), phase = "applying",
         damage # "all" => InFiles(job.old)
  PROVE  /\ Home!Written = [d \in Home!Domains |-> Home!Written[d]]
         /\ \A s \in rows : Home!Written[Home!Dom(s)] = s
         /\ damage # "all" => \A d \in linked \cap Home!Domains : Home!Written[d] = Linked
         /\ damage = "none" =>
              \A d \in Home!Domains : Home!Written[d] # None
                => d \in Home!DomsOf(rows) \cup linked
<1>1. \A s \in rows : Home!Dom(s) \in Home!DomsOf(rows) /\ Home!Dom(s) \in Home!Domains
  BY DEF SitesApart, IsSite, Home!Dom, Home!DomsOf, Home!Domains
<1>2. Home!Written = [d \in Home!Domains |-> Home!Written[d]]
  BY DEF Home!Written
<1>3. \A s \in rows : Home!Written[Home!Dom(s)] = s
  BY <1>1, SiteAt DEF Home!Written
<1>4. damage # "all" => \A d \in linked \cap Home!Domains : Home!Written[d] = Linked
  <2>1. \A d \in linked : d \notin Home!DomsOf(rows) /\ d \notin Home!DomsOf(job.old)
    BY DEF SitesApart, Home!DomsOf
  <2> QED
    BY <2>1 DEF Home!Written, InFiles
<1>5. damage = "none" =>
        \A d \in Home!Domains : Home!Written[d] # None
          => d \in Home!DomsOf(rows) \cup linked
  BY DEF Home!Written, InFiles
<1> QED
  BY <1>2, <1>3, <1>4, <1>5

\* What a start renders, over whatever was there.
LEMMA FilesRendered ==
  ASSUME SitesApart(rows)
  PROVE  /\ Home!Rendered = [d \in Home!Domains |-> Home!Rendered[d]]
         /\ \A s \in rows : Home!Rendered[Home!Dom(s)] = s
         /\ \A d \in linked \cap Home!Domains : Home!Rendered[d] = Linked
         /\ \A d \in Home!Domains :
              Home!Rendered[d] = files[d] \/ d \in Home!DomsOf(rows) \cup linked
<1>1. \A s \in rows : Home!Dom(s) \in Home!DomsOf(rows) /\ Home!Dom(s) \in Home!Domains
  BY DEF SitesApart, IsSite, Home!Dom, Home!DomsOf, Home!Domains
<1>2. \A s \in rows : Home!Rendered[Home!Dom(s)] = s
  BY <1>1, SiteAt DEF Home!Rendered
<1>3. \A d \in linked : d \notin Home!DomsOf(rows)
  BY DEF SitesApart, Home!DomsOf
<1> QED
  BY <1>2, <1>3 DEF Home!Rendered

\* A Site with its two settings replaced is a Site.
LEMMA SiteReset ==
  ASSUME NEW s, s = [id |-> s.id, name |-> s.name, path |-> s.path, php |-> s.php,
                     secured |-> s.secured],
         NEW v, NEW w, NEW t, t = [s EXCEPT !.php = v, !.secured = w]
  PROVE  t = [id |-> s.id, name |-> s.name, path |-> s.path, php |-> v, secured |-> w]
<1> DEFINE u == [s EXCEPT !.php = v]
<1>1. t = [u EXCEPT !.secured = w]
  OBVIOUS
<1>2. u = [id |-> s.id, name |-> s.name, path |-> s.path, php |-> v,
           secured |-> s.secured]
  OBVIOUS
<1> HIDE DEF u
<1>3. [u EXCEPT !.secured = w]
        = [id |-> s.id, name |-> s.name, path |-> s.path, php |-> v, secured |-> w]
  BY <1>2
<1> QED
  BY <1>1, <1>3

\* Listing the Sites begins a job that has changed nothing yet.
LEMMA HomeListSites ==
  ASSUME HomeAssumption, HomeInv, Home!ListSites
  PROVE  HomeInv'
<1>1. /\ HomesTyped /\ RowsApart /\ FilesFollow /\ DomainsFollow /\ CertificatesFollow
      /\ PoolsFollow /\ SharesFollow /\ KeptHeld
  BY DEF HomeInv
<1>2. HomesTyped'
  BY <1>1 DEF Home!outside, Home!NoJob, Home!Nothing, Home!Resting, Home!ListSites,
     HomesTyped, HomeAssumption
<1>3. RowsApart'
  BY <1>1 DEF Home!outside, Home!NoJob, Home!ListSites, RowsApart, SitesApart
<1>4. FilesFollow' /\ DomainsFollow'
  BY <1>1 DEF Home!outside, Home!Resting, Home!ListSites, FilesFollow, InFiles,
     Home!Running, DomainsFollow
<1>5. CertificatesFollow' /\ PoolsFollow' /\ SharesFollow' /\ KeptHeld'
  BY <1>1 DEF Home!Resting, Home!ListSites, Home!Running, CertificatesFollow, Certified,
     HomeSyncing, PoolsFollow, SharesFollow, SharesFit, KeptHeld
<1> QED
  BY <1>2, <1>3, <1>4, <1>5 DEF HomeInv

\* Starting the Web services begins with a synchronisation.
LEMMA HomeStartAll ==
  ASSUME HomeAssumption, HomeInv, Home!StartAll
  PROVE  HomeInv'
<1>1. /\ HomesTyped /\ RowsApart /\ FilesFollow /\ DomainsFollow /\ CertificatesFollow
      /\ PoolsFollow /\ SharesFollow /\ KeptHeld
  BY DEF HomeInv
<1>2. HomesTyped'
  BY <1>1 DEF Home!outside, Home!NoJob, Home!Nothing, Home!Resting, Home!StartAll,
     HomesTyped, HomeAssumption
<1>3. RowsApart'
  BY <1>1 DEF Home!outside, Home!NoJob, Home!StartAll, RowsApart, SitesApart
<1>4. FilesFollow' /\ DomainsFollow'
  BY <1>1 DEF Home!outside, Home!Resting, Home!StartAll, FilesFollow, InFiles, Home!Running,
     DomainsFollow
<1>5. CertificatesFollow' /\ PoolsFollow' /\ SharesFollow' /\ KeptHeld'
  BY <1>1 DEF Home!Resting, Home!StartAll, Home!Running, CertificatesFollow, Certified,
     HomeSyncing, PoolsFollow, SharesFollow, SharesFit, KeptHeld
<1> QED
  BY <1>2, <1>3, <1>4, <1>5 DEF HomeInv

\* The home is replaced at once, and what was there is kept in the job.
LEMMA HomeSaveSiteHome ==
  ASSUME HomeAssumption, HomeInv, NEW h \in Homes \ {home}, Home!SaveSiteHome(h)
  PROVE  HomeInv'
<1>1. /\ HomesTyped /\ RowsApart /\ FilesFollow /\ DomainsFollow /\ CertificatesFollow
      /\ PoolsFollow /\ SharesFollow /\ KeptHeld
  BY DEF HomeInv
<1>2. HomesTyped'
  <2>1. /\ job' = [kind |-> "save", old |-> {}, fresh |-> {}, started |-> {},
                   kept |-> [home |-> home, rows |-> rows]]
        /\ home' \in Homes /\ phase' = "scanning"
        /\ UNCHANGED <<linked, certificates, domains, pools, damage, files>>
    BY DEF Home!SaveSiteHome, Home!NoJob, Home!Nothing, Home!outside
  <2> QED
    BY <1>1, <2>1 DEF HomesTyped
<1>3. /\ RowsApart' /\ FilesFollow' /\ DomainsFollow' /\ CertificatesFollow'
      /\ PoolsFollow' /\ SharesFollow' /\ KeptHeld'
  BY <1>1 DEF Home!outside, Home!NoJob, Home!Resting, Home!SaveSiteHome, RowsApart,
     SitesApart, FilesFollow, InFiles, Home!Running, DomainsFollow, CertificatesFollow,
     Certified, HomeSyncing, PoolsFollow, SharesFollow, SharesFit, KeptHeld
<1> QED
  BY <1>2, <1>3 DEF HomeInv

\* The rows are replaced by those of the directories, or already are those.
LEMMA HomeScan ==
  ASSUME HomeAssumption, HomeInv, Home!Scan
  PROVE  HomeInv'
<1>1. /\ HomesTyped /\ RowsApart /\ FilesFollow /\ DomainsFollow /\ CertificatesFollow
      /\ PoolsFollow /\ SharesFollow /\ KeptHeld
  BY DEF HomeInv
<1>2. /\ HomesTyped' /\ RowsApart' /\ FilesFollow' /\ DomainsFollow'
      /\ CertificatesFollow' /\ PoolsFollow' /\ SharesFollow'
  BY <1>1, DesiredSites DEF Home!outside, Home!To, Home!Scan, HomesTyped, RowsApart,
     SitesApart, FilesFollow, InFiles, Home!Running, DomainsFollow, CertificatesFollow,
     Certified, HomeSyncing, PoolsFollow, SharesFollow, SharesFit
<1>3. KeptHeld'
  <2>1. CASE Home!Desired = rows
    BY <1>1, <2>1 DEF Home!Scan, Home!To, KeptHeld, KeepsSites, HomeSyncing
  <2>2. CASE Home!Desired # rows
    <3>1. /\ rows' = Home!Desired /\ phase = "scanning" /\ phase' = "resolving"
          /\ job' = [job EXCEPT !.old = rows] /\ home' = home
      BY <2>2 DEF Home!Scan
    <3>2. job'.kind = job.kind /\ job'.kept = job.kept /\ job'.old = rows
      BY <1>1, <3>1 DEF HomesTyped
    <3>3. \A s \in rows :
            (\E t \in Home!Desired : t.path = s.path)
              => \E t \in Home!Desired : SameSite(s, t)
      BY <1>1, DesiredSites DEF RowsApart
    <3>4. KeepsSites' \/ ~(job.kept.rows \subseteq rows)
      BY <3>1, <3>2, <3>3 DEF KeepsSites, SameSite
    <3> QED
      BY <1>1, <3>1, <3>2, <3>4 DEF KeptHeld, HomeSyncing
  <2> QED
    BY <2>1, <2>2
<1> QED
  BY <1>2, <1>3 DEF HomeInv

\* A directory that cannot be a Site fails the request with nothing applied.
LEMMA HomeScanFails ==
  ASSUME HomeAssumption, HomeInv, Home!ScanFails
  PROVE  HomeInv'
<1>1. /\ HomesTyped /\ RowsApart /\ FilesFollow /\ DomainsFollow /\ CertificatesFollow
      /\ PoolsFollow /\ SharesFollow /\ KeptHeld
  BY DEF HomeInv
<1>2. Home!Answer(job.kept.rows)
  BY DEF Home!ScanFails
<1>3. Answered(job.kept.rows)
  BY <1>1, <1>2, HomeAnswers
<1>4. HomesTyped' /\ RowsApart'
  BY <1>1, <1>3 DEF Answered, Home!outside, Home!ScanFails, HomesTyped, HomeAssumption,
     RowsApart, SitesApart
<1>5. FilesFollow' /\ DomainsFollow'
  BY <1>1 DEF Home!outside, Home!Done, Home!Finish, Home!Answer, Home!ScanFails,
     FilesFollow, InFiles, Home!Running, DomainsFollow
<1>6. CertificatesFollow' /\ PoolsFollow' /\ SharesFollow' /\ KeptHeld'
  BY <1>1, <1>3 DEF Answered, Home!ScanFails, Home!Running, CertificatesFollow, Certified,
     HomeSyncing, PoolsFollow, SharesFollow, SharesFit, KeptHeld, KeepsSites, SameSite
<1> QED
  BY <1>4, <1>5, <1>6 DEF HomeInv

\* The hosts entries are those of the new rows.
LEMMA HomeResolve ==
  ASSUME HomeAssumption, HomeInv, Home!Resolve
  PROVE  HomeInv'
<1>1. /\ HomesTyped /\ RowsApart /\ FilesFollow /\ DomainsFollow /\ CertificatesFollow
      /\ PoolsFollow /\ SharesFollow /\ KeptHeld
  BY DEF HomeInv
<1>2. HomesTyped'
  BY <1>1, SitesWithin DEF Home!outside, Home!To, Home!Resolve, HomesTyped, RowsApart
<1>3. RowsApart'
  BY <1>1 DEF Home!outside, Home!To, Home!Resolve, RowsApart, SitesApart
<1>4. FilesFollow' /\ DomainsFollow'
  BY <1>1 DEF Home!outside, Home!To, Home!Resolve, FilesFollow, InFiles, Home!Running,
     DomainsFollow
<1>5. CertificatesFollow' /\ PoolsFollow' /\ SharesFollow' /\ KeptHeld'
  BY <1>1 DEF Home!To, Home!Resolve, Home!Running, CertificatesFollow, Certified,
     HomeSyncing, PoolsFollow, SharesFollow, SharesFit, KeptHeld, KeepsSites
<1> QED
  BY <1>2, <1>3, <1>4, <1>5 DEF HomeInv

\* Certificates and PHP pools are added to those of the old rows.
LEMMA HomePrepare ==
  ASSUME HomeAssumption, HomeInv, Home!Prepare
  PROVE  HomeInv'
<1>1. /\ HomesTyped /\ RowsApart /\ FilesFollow /\ DomainsFollow /\ CertificatesFollow
      /\ PoolsFollow /\ SharesFollow /\ KeptHeld
  BY DEF HomeInv
<1>2. HomesTyped'
  <2>1. /\ job' = [job EXCEPT !.fresh = Home!SecuredOf(rows) \ certificates,
                              !.started = pools' \ pools]
        /\ certificates' = certificates \cup Home!SecuredOf(rows)
        /\ pools' = pools \cup Home!PhpOf(rows) \/ pools' = pools
        /\ phase = "preparing" /\ phase' = "applying"
        /\ UNCHANGED <<linked, domains, damage, files, home>>
    BY DEF Home!Prepare, Home!outside
  <2>2. Home!SecuredOf(rows) \subseteq Home!Domains /\ Home!PhpOf(rows) \subseteq Php
    BY <1>1, SitesWithin DEF RowsApart
  <2>3. job' = [kind |-> job.kind, old |-> job.old,
               fresh |-> Home!SecuredOf(rows) \ certificates,
               started |-> pools' \ pools, kept |-> job.kept]
    <3> HIDE DEF HomesTyped
    <3>1. job = [kind |-> job.kind, old |-> job.old, fresh |-> job.fresh,
                 started |-> job.started,
                 kept |-> [home |-> job.kept.home, rows |-> job.kept.rows]]
      BY <1>1 DEF HomesTyped
    <3> QED
      BY <2>1, <3>1
  <2>4. job'.kind = job.kind /\ job'.old = job.old /\ job'.kept = job.kept
    BY <2>3
  <2>5. job' = [kind |-> job'.kind, old |-> job'.old, fresh |-> job'.fresh,
                started |-> job'.started,
                kept |-> [home |-> job'.kept.home, rows |-> job'.kept.rows]]
    <3>1. job'.fresh = Home!SecuredOf(rows) \ certificates /\ job'.started = pools' \ pools
      BY <2>3
    <3>2. job.kept = [home |-> job'.kept.home, rows |-> job'.kept.rows]
      BY <1>1, <2>4 DEF HomesTyped
    <3> QED
      BY <2>3, <2>4, <3>1, <3>2, Zenon
  <2>6. pools' \subseteq Php /\ certificates' \subseteq Home!Domains
    BY <1>1, <2>1, <2>2 DEF HomesTyped
  <2> QED
    BY <1>1, <2>1, <2>4, <2>5, <2>6 DEF HomesTyped
<1>3. /\ RowsApart' /\ FilesFollow' /\ DomainsFollow' /\ CertificatesFollow'
      /\ PoolsFollow' /\ SharesFollow' /\ KeptHeld'
  BY <1>1 DEF Home!outside, Home!Prepare, RowsApart, SitesApart, FilesFollow, InFiles,
     Home!Running, DomainsFollow, CertificatesFollow, Certified, Home!SecuredOf,
     HomeSyncing, PoolsFollow, SharesFollow, SharesFit, KeptHeld, KeepsSites
<1> QED
  BY <1>2, <1>3 DEF HomeInv

\* A failure before the files change goes to the reversal.
LEMMA HomeGivesUp ==
  ASSUME HomeAssumption, HomeInv, Home!GivesUp
  PROVE  HomeInv'
<1>1. /\ HomesTyped /\ RowsApart /\ FilesFollow /\ DomainsFollow /\ CertificatesFollow
      /\ PoolsFollow /\ SharesFollow /\ KeptHeld
  BY DEF HomeInv
<1>2. /\ HomesTyped' /\ RowsApart' /\ FilesFollow' /\ DomainsFollow'
      /\ CertificatesFollow' /\ PoolsFollow' /\ SharesFollow' /\ KeptHeld'
  BY <1>1 DEF Home!outside, Home!To, Home!GivesUp, HomesTyped, RowsApart, SitesApart,
     FilesFollow, InFiles, Home!Running, DomainsFollow, CertificatesFollow, Certified,
     HomeSyncing, PoolsFollow, SharesFollow, SharesFit, KeptHeld, KeepsSites
<1> QED
  BY <1>2 DEF HomeInv

\* The files, and the nginx that runs, become those of the new rows.
LEMMA HomeApply ==
  ASSUME HomeAssumption, HomeInv, Home!Apply
  PROVE  HomeInv'
<1>1. /\ HomesTyped /\ RowsApart /\ FilesFollow /\ DomainsFollow /\ CertificatesFollow
      /\ PoolsFollow /\ SharesFollow /\ KeptHeld
  BY DEF HomeInv
<1>2. /\ HomesTyped' /\ RowsApart' /\ DomainsFollow' /\ CertificatesFollow'
      /\ PoolsFollow' /\ SharesFollow' /\ KeptHeld'
  BY <1>1 DEF Home!outside, Home!To, Home!Written, Home!Apply, HomesTyped, RowsApart,
     SitesApart, Home!Running, DomainsFollow, CertificatesFollow, Certified, Home!SecuredOf,
     HomeSyncing, PoolsFollow, SharesFollow, SharesFit, KeptHeld, KeepsSites
<1>3. FilesFollow'
  <2>1. /\ phase = "applying" /\ phase' = "retiring"
        /\ files' = Home!Written /\ (loaded' = files' \/ loaded' = None)
        /\ UNCHANGED <<linked, rows, damage>>
    BY DEF Home!Apply, Home!outside, Home!To
  <2>2. SitesApart(rows) /\ SitesApart(job.old) /\ (damage # "all" => InFiles(job.old))
    BY <1>1, <2>1 DEF RowsApart, FilesFollow
  <2>3. /\ \A s \in rows : Home!Written[Home!Dom(s)] = s
        /\ damage # "all" => \A d \in linked \cap Home!Domains : Home!Written[d] = Linked
        /\ damage = "none" =>
             \A d \in Home!Domains : Home!Written[d] # None
               => d \in Home!DomsOf(rows) \cup linked
    BY <2>1, <2>2, FilesWritten
  <2> HIDE DEF HomesTyped
  <2>4. linked \subseteq Home!Domains
    BY <1>1 DEF HomesTyped
  <2> QED
    BY <2>1, <2>3, <2>4 DEF FilesFollow, InFiles, Home!DomsOf, Home!Dom, Home!Running
<1> QED
  BY <1>2, <1>3 DEF HomeInv

\* The files are put back, and what the batch has added is removed.
LEMMA HomeApplyFails ==
  ASSUME HomeAssumption, HomeInv, Home!ApplyFails
  PROVE  HomeInv'
<1>1. /\ HomesTyped /\ RowsApart /\ FilesFollow /\ DomainsFollow /\ CertificatesFollow
      /\ PoolsFollow /\ SharesFollow /\ KeptHeld
  BY DEF HomeInv
<1>2. /\ HomesTyped' /\ RowsApart' /\ FilesFollow' /\ DomainsFollow'
      /\ CertificatesFollow' /\ PoolsFollow' /\ SharesFollow' /\ KeptHeld'
  BY <1>1 DEF Home!outside, Home!To, Home!NoMishap, Home!Partly, Home!ApplyFails,
     HomesTyped, RowsApart, SitesApart, FilesFollow, InFiles, Home!Running, DomainsFollow,
     CertificatesFollow, Certified, Home!SecuredOf, HomeSyncing, PoolsFollow, SharesFollow,
     SharesFit, KeptHeld, KeepsSites
<1> QED
  BY <1>2 DEF HomeInv

\* Certificates and pools that only the old rows had are removed.
LEMMA HomeRetire ==
  ASSUME HomeAssumption, HomeInv, Home!Retire
  PROVE  HomeInv'
<1>1. /\ HomesTyped /\ RowsApart /\ FilesFollow /\ DomainsFollow /\ CertificatesFollow
      /\ PoolsFollow /\ SharesFollow /\ KeptHeld
  BY DEF HomeInv
<1>2. /\ HomesTyped' /\ RowsApart' /\ FilesFollow' /\ DomainsFollow'
      /\ CertificatesFollow' /\ PoolsFollow' /\ SharesFollow' /\ KeptHeld'
  BY <1>1 DEF Home!outside, Home!To, Home!Retire, HomesTyped, RowsApart, SitesApart,
     FilesFollow, InFiles, Home!Running, DomainsFollow, CertificatesFollow, Certified,
     Home!SecuredOf, HomeSyncing, PoolsFollow, SharesFollow, KeptHeld, KeepsSites
<1> QED
  BY <1>2 DEF HomeInv

\* The shares are brought up to date by id, and the request ends.
LEMMA HomeShare ==
  ASSUME HomeAssumption, HomeInv, Home!Share
  PROVE  HomeInv'
<1>1. /\ HomesTyped /\ RowsApart /\ FilesFollow /\ DomainsFollow /\ CertificatesFollow
      /\ PoolsFollow /\ SharesFollow /\ KeptHeld
  BY DEF HomeInv
<1>2. /\ HomesTyped' /\ RowsApart' /\ DomainsFollow' /\ CertificatesFollow'
      /\ PoolsFollow' /\ SharesFollow' /\ KeptHeld'
  BY <1>1 DEF Home!outside, Home!NoJob, Home!Nothing, Home!To, Home!Done, Home!Finish,
     Home!SharesOf, Home!Share, HomesTyped, HomeAssumption, RowsApart, SitesApart,
     Home!Running, DomainsFollow, CertificatesFollow, Certified, HomeSyncing, PoolsFollow,
     SharesFollow, SharesFit, KeptHeld, KeepsSites
<1>3. FilesFollow'
  <2>1. /\ phase = "sharing" /\ phase' \in {"starting", "refused", "idle"}
        /\ UNCHANGED <<linked, rows, damage, files, loaded>>
    BY DEF Home!Share, Home!To, Home!Finish, Home!Done, Home!outside
  <2> QED
    BY <1>1, <2>1 DEF FilesFollow, InFiles, Home!DomsOf, Home!Dom, Home!Running
<1> QED
  BY <1>2, <1>3 DEF HomeInv

\* A share that does not stop fails a request that has been applied.
LEMMA HomeShareFails ==
  ASSUME HomeAssumption, HomeInv, Home!ShareFails
  PROVE  HomeInv'
<1>1. /\ HomesTyped /\ RowsApart /\ FilesFollow /\ DomainsFollow /\ CertificatesFollow
      /\ PoolsFollow /\ SharesFollow /\ KeptHeld
  BY DEF HomeInv
<1>2. Home!Answer({})
  BY DEF Home!ShareFails
<1>3. Answered({})
  BY <1>1, <1>2, HomeAnswers
<1>4. HomesTyped' /\ RowsApart'
  BY <1>1, <1>3 DEF Answered, Home!outside, Home!ShareFails, HomesTyped, HomeAssumption,
     RowsApart, SitesApart
<1>5. FilesFollow' /\ DomainsFollow'
  BY <1>1 DEF Home!outside, Home!Done, Home!Finish, Home!Answer, Home!ShareFails,
     FilesFollow, InFiles, Home!Running, DomainsFollow
<1>6. CertificatesFollow' /\ PoolsFollow' /\ SharesFollow' /\ KeptHeld'
  BY <1>1, <1>3 DEF Answered, Home!ShareFails, Home!Running, CertificatesFollow, Certified,
     HomeSyncing, PoolsFollow, SharesFollow, SharesFit, KeptHeld, KeepsSites
<1> QED
  BY <1>4, <1>5, <1>6 DEF HomeInv

\* The old rows are the rows again, and so are their hosts entries.
LEMMA HomeRevert ==
  ASSUME HomeAssumption, HomeInv, Home!Revert
  PROVE  HomeInv'
<1>1. /\ HomesTyped /\ RowsApart /\ FilesFollow /\ DomainsFollow /\ CertificatesFollow
      /\ PoolsFollow /\ SharesFollow /\ KeptHeld
  BY DEF HomeInv
<1>2. Home!Answer(job.kept.rows)
  BY DEF Home!Revert
<1>3. Answered(job.kept.rows)
  BY <1>1, <1>2, HomeAnswers
<1>4. HomesTyped' /\ RowsApart'
  BY <1>1, <1>3, SitesWithin DEF Answered, Home!outside, Home!NoMishap, Home!Reverted,
     Home!Revert, HomesTyped, HomeAssumption, RowsApart, SitesApart
<1>5. FilesFollow' /\ DomainsFollow'
  BY <1>1 DEF Home!outside, Home!Done, Home!Finish, Home!Answer, Home!NoMishap,
     Home!Reverted, Home!Revert, FilesFollow, InFiles, Home!Running, DomainsFollow
<1>6. CertificatesFollow' /\ PoolsFollow' /\ SharesFollow' /\ KeptHeld'
  BY <1>1, <1>3 DEF Answered, Home!NoMishap, Home!Reverted, Home!Revert, Home!Running,
     CertificatesFollow, Certified, HomeSyncing, PoolsFollow, SharesFollow, SharesFit,
     KeptHeld, KeepsSites, SameSite
<1> QED
  BY <1>4, <1>5, <1>6 DEF HomeInv

\* The rows do not go back: on record.
LEMMA HomeRevertFails ==
  ASSUME HomeAssumption, HomeInv, Home!RevertFails
  PROVE  HomeInv'
<1>1. /\ HomesTyped /\ RowsApart /\ FilesFollow /\ DomainsFollow /\ CertificatesFollow
      /\ PoolsFollow /\ SharesFollow /\ KeptHeld
  BY DEF HomeInv
<1>2. Home!Answer({})
  BY DEF Home!RevertFails
<1>3. Answered({})
  BY <1>1, <1>2, HomeAnswers
<1>4. /\ phase = "reverting" /\ damage' = "all"
      /\ UNCHANGED <<rows, linked, files, certificates, domains, loaded, pools, shares>>
  BY DEF Home!RevertFails, Home!Mishap, Home!outside
<1>5. HomesTyped' /\ RowsApart'
  BY <1>1, <1>3, <1>4 DEF Answered, HomesTyped, HomeAssumption, RowsApart, SitesApart
<1>6. FilesFollow' /\ DomainsFollow' /\ CertificatesFollow' /\ PoolsFollow' /\ SharesFollow'
  BY <1>4 DEF FilesFollow, DomainsFollow, CertificatesFollow, PoolsFollow, SharesFollow
<1>7. KeptHeld'
  BY <1>1, <1>3, <1>4 DEF Answered, KeptHeld, KeepsSites, HomeSyncing, SameSite
<1> QED
  BY <1>5, <1>6, <1>7 DEF HomeInv

\* A start renders every file and certificate anew.
LEMMA HomeLaunch ==
  ASSUME HomeAssumption, HomeInv, Home!Launch
  PROVE  HomeInv'
<1>1. /\ HomesTyped /\ RowsApart /\ FilesFollow /\ DomainsFollow /\ CertificatesFollow
      /\ PoolsFollow /\ SharesFollow /\ KeptHeld
  BY DEF HomeInv
<1>2. HomesTyped'
  <2>1. /\ phase' = "idle" /\ UNCHANGED <<home, linked>>
        /\ job' = [kind |-> "none", old |-> {}, fresh |-> {}, started |-> {},
                   kept |-> [home |-> FirstHome, rows |-> {}]]
    BY DEF Home!Launch, Home!Done, Home!NoJob, Home!Nothing, Home!outside
  <2>2. \/ UNCHANGED <<files, certificates, domains, pools, damage>>
        \/ /\ domains' = Home!DomsOf(rows) \cup linked /\ files' = Home!Rendered
           /\ certificates' = certificates \cup Home!SecuredOf(rows)
           /\ pools' = Home!PhpOf(rows)
           /\ damage' \in {"leftovers", damage}
    BY DEF Home!Launch
  <2>3. Home!Rendered = [d \in Home!Domains |-> Home!Rendered[d]]
    BY DEF Home!Rendered
  <2>4. /\ Home!DomsOf(rows) \subseteq Home!Domains /\ Home!SecuredOf(rows) \subseteq Home!Domains
        /\ Home!PhpOf(rows) \subseteq Php
    BY <1>1, SitesWithin DEF RowsApart
  <2>5. /\ domains' \subseteq Home!Domains /\ certificates' \subseteq Home!Domains
        /\ pools' \subseteq Php /\ damage' \in {"none", "leftovers", "all"}
    BY <1>1, <2>2, <2>4 DEF HomesTyped
  <2>6. files' = [d \in Home!Domains |-> files'[d]]
    <3>1. CASE files' = files
      BY <1>1, <3>1 DEF HomesTyped
    <3>2. CASE files' = Home!Rendered
      BY <2>3, <3>2
    <3> QED
      BY <2>2, <3>1, <3>2
  <2> QED
    BY <1>1, <2>1, <2>5, <2>6 DEF HomesTyped, HomeAssumption
<1>3. RowsApart' /\ DomainsFollow'
  BY <1>1 DEF Home!outside, Home!NoJob, Home!Done, Home!Launch, RowsApart, SitesApart,
     DomainsFollow
<1>4. FilesFollow'
  <2>1. phase = "starting" /\ phase' = "idle" /\ UNCHANGED <<linked, rows>>
    BY DEF Home!Launch, Home!Done, Home!outside
  <2>2. linked \subseteq Home!Domains /\ SitesApart(rows)
    BY <1>1 DEF HomesTyped, RowsApart
  <2>3. CASE loaded # None
    BY <1>1, <2>1, <2>3 DEF Home!Launch, FilesFollow, InFiles, Home!Running
  <2>4. CASE loaded = None
    <3>1. /\ files' = Home!Rendered /\ loaded' = Home!Rendered
          /\ (damage' = "none" => damage = "none")
      BY <2>4 DEF Home!Launch, Home!Running
    <3>2. /\ \A s \in rows : Home!Rendered[Home!Dom(s)] = s
          /\ \A d \in linked \cap Home!Domains : Home!Rendered[d] = Linked
          /\ \A d \in Home!Domains : Home!Rendered[d] = files[d]
               \/ d \in Home!DomsOf(rows) \cup linked
      BY <2>2, FilesRendered
    <3>3. InFiles(rows)'
      BY <1>1, <2>1, <2>2, <3>1, <3>2 DEF FilesFollow, InFiles
    <3> QED
      BY <2>1, <3>3 DEF FilesFollow
  <2> QED
    BY <2>3, <2>4
<1>5. CertificatesFollow' /\ PoolsFollow' /\ SharesFollow' /\ KeptHeld'
  BY <1>1 DEF Home!NoJob, Home!Done, Home!Launch, CertificatesFollow, Certified,
     Home!SecuredOf, HomeSyncing, PoolsFollow, SharesFollow, SharesFit, KeptHeld
<1> QED
  BY <1>2, <1>3, <1>4, <1>5 DEF HomeInv

\* A start that fails leaves nothing running.
LEMMA HomeLaunchFails ==
  ASSUME HomeAssumption, HomeInv, Home!LaunchFails
  PROVE  HomeInv'
<1>1. /\ HomesTyped /\ RowsApart /\ FilesFollow /\ DomainsFollow /\ CertificatesFollow
      /\ PoolsFollow /\ SharesFollow /\ KeptHeld
  BY DEF HomeInv
<1>2. HomesTyped'
  BY <1>1, SitesWithin DEF Home!outside, Home!NoJob, Home!Nothing, Home!Done, Home!Rendered,
     Home!LaunchFails, HomesTyped, HomeAssumption, RowsApart
<1>3. RowsApart'
  BY <1>1 DEF Home!outside, Home!NoJob, Home!Done, Home!LaunchFails, RowsApart, SitesApart
<1>4. FilesFollow' /\ DomainsFollow'
  BY <1>1 DEF Home!outside, Home!Done, Home!Rendered, Home!LaunchFails, HomesTyped,
     FilesFollow, InFiles, Home!DomsOf, Home!Running, DomainsFollow
<1>5. CertificatesFollow' /\ PoolsFollow' /\ SharesFollow' /\ KeptHeld'
  BY <1>1 DEF Home!NoJob, Home!Done, Home!LaunchFails, Home!Running, CertificatesFollow,
     Certified, Home!SecuredOf, HomeSyncing, PoolsFollow, SharesFollow, SharesFit, KeptHeld
<1> QED
  BY <1>2, <1>3, <1>4, <1>5 DEF HomeInv

\* Nothing runs, nothing is shared; the files stay.
LEMMA HomeStopAll ==
  ASSUME HomeAssumption, HomeInv, Home!StopAll
  PROVE  HomeInv'
<1>1. /\ HomesTyped /\ RowsApart /\ FilesFollow /\ DomainsFollow /\ CertificatesFollow
      /\ PoolsFollow /\ SharesFollow /\ KeptHeld
  BY DEF HomeInv
<1>2. /\ HomesTyped' /\ RowsApart' /\ FilesFollow' /\ DomainsFollow'
      /\ CertificatesFollow' /\ PoolsFollow' /\ SharesFollow' /\ KeptHeld'
  BY <1>1 DEF Home!outside, Home!Resting, Home!StopAll, HomesTyped, RowsApart, SitesApart,
     FilesFollow, InFiles, Home!Running, DomainsFollow, CertificatesFollow, Certified,
     HomeSyncing, PoolsFollow, SharesFollow, SharesFit, KeptHeld
<1> QED
  BY <1>2 DEF HomeInv

\* A Site is shared on request.
LEMMA HomeShareSite ==
  ASSUME HomeAssumption, HomeInv, NEW s \in rows, Home!ShareSite(s)
  PROVE  HomeInv'
<1>1. /\ HomesTyped /\ RowsApart /\ FilesFollow /\ DomainsFollow /\ CertificatesFollow
      /\ PoolsFollow /\ SharesFollow /\ KeptHeld
  BY DEF HomeInv
<1>2. /\ HomesTyped' /\ RowsApart' /\ FilesFollow' /\ DomainsFollow'
      /\ CertificatesFollow' /\ PoolsFollow' /\ SharesFollow' /\ KeptHeld'
  BY <1>1 DEF Home!outside, Home!Resting, Home!ShareSite, HomesTyped, RowsApart, SitesApart,
     FilesFollow, InFiles, Home!Running, DomainsFollow, CertificatesFollow, Certified,
     HomeSyncing, PoolsFollow, SharesFollow, SharesFit, KeptHeld
<1> QED
  BY <1>2 DEF HomeInv

\* One Site's settings, its file, its certificate and its pool change together.
LEMMA HomeSetSite ==
  ASSUME HomeAssumption, HomeInv,
         NEW s \in rows, NEW v \in Php \cup {Home!NoPhp}, NEW b \in BOOLEAN,
           Home!SetSite(s, v, b)
  PROVE  HomeInv'
<1>1. /\ HomesTyped /\ RowsApart /\ FilesFollow /\ DomainsFollow /\ CertificatesFollow
      /\ PoolsFollow /\ SharesFollow /\ KeptHeld
  BY DEF HomeInv
<1> DEFINE new == [s EXCEPT !.php = v, !.secured = b]
<1>2. /\ IsSite(s)
      /\ new = [id |-> s.id, name |-> s.name, path |-> s.path, php |-> v, secured |-> b]
  <2>1. IsSite(s)
    BY <1>1 DEF RowsApart, SitesApart
  <2>2. s = [id |-> s.id, name |-> s.name, path |-> s.path, php |-> s.php,
             secured |-> s.secured]
    BY <2>1 DEF IsSite
  <2> HIDE DEF new
  <2>3. new = [id |-> s.id, name |-> s.name, path |-> s.path, php |-> v, secured |-> b]
    <3>1. new = [s EXCEPT !.php = v, !.secured = b]
      BY DEF new
    <3> QED
      BY <2>2, <3>1, SiteReset
  <2> QED
    BY <2>1, <2>3
<1>3. /\ IsSite(new) /\ Home!Dom(new) = Home!Dom(s)
      /\ new.name = s.name /\ new.path = s.path /\ new.id = s.id
      /\ new.php = v /\ new.secured = b
  BY <1>2 DEF IsSite, Home!Dom
<1>4. /\ phase = "idle" /\ new # s /\ damage = "none"
      /\ rows' = (rows \ {s}) \cup {new}
      /\ files' = [files EXCEPT ![Home!Dom(s)] = new]
      /\ loaded' = IF loaded # None THEN files' ELSE None
      /\ certificates' = Home!SecuredOf(rows')
      /\ pools' = IF loaded # None
                    THEN (pools \ ({s.php} \ Home!PhpOf(rows \ {s}))) \cup Home!PhpOf({new})
                  ELSE pools
      /\ UNCHANGED <<linked, changes, home, entries, domains, shares, phase, job, damage,
                     mishaps>>
  BY DEF Home!SetSite, Home!With, Home!Resting, Home!Running, Home!outside
<1> HIDE DEF new
<1>5. HomesTyped' /\ RowsApart' /\ DomainsFollow'
  BY <1>1, <1>2, <1>4, SitesWithin DEF HomesTyped, RowsApart, SitesApart, IsSite, Home!Dom,
     DomainsFollow, Home!DomsOf
<1>6. FilesFollow'
  <2>1. SitesApart(rows) /\ Home!Dom(s) \in Home!Domains /\ Home!Dom(s) \notin linked
    BY <1>1, <1>2 DEF RowsApart, SitesApart, IsSite, Home!Dom, Home!Domains
  <2>2. InFiles(rows)
    BY <1>1, <1>4 DEF FilesFollow
  <2>3. files'[Home!Dom(s)] = new
          /\ \A d \in Home!Domains \ {Home!Dom(s)} : files'[d] = files[d]
    BY <1>1, <1>4, <2>1 DEF HomesTyped
  <2>4. \A t \in rows \ {s} : Home!Dom(t) # Home!Dom(s) /\ Home!Dom(t) \in Home!Domains
    BY <2>1 DEF SitesApart, IsSite, Home!Dom, Home!Domains
  <2>5. \A t \in rows' : files'[Home!Dom(t)] = t
    BY <1>3, <1>4, <2>2, <2>3, <2>4 DEF InFiles
  <2>6. Home!DomsOf(rows') = Home!DomsOf(rows)
    BY <1>3, <1>4 DEF Home!DomsOf
  <2>7. \A d \in linked' : files'[d] = Linked
    BY <1>1, <1>4, <2>1, <2>2, <2>3 DEF InFiles, HomesTyped
  <2>8. Home!Dom(s) \in Home!DomsOf(rows)
    BY DEF Home!DomsOf
  <2>9. \A d \in Home!Domains : files'[d] # None => d \in Home!DomsOf(rows') \cup linked'
    BY <1>4, <2>2, <2>3, <2>6, <2>8 DEF InFiles
  <2>10. loaded' # None => loaded' = files'
    BY <1>4
  <2>11. phase' = "idle" /\ damage' = "none"
    BY <1>4
  <2>12. InFiles(rows)'
    BY <2>5, <2>7, <2>9, <2>10 DEF InFiles, Home!Running, Home!DomsOf, Home!Dom
  <2> QED
    BY <2>11, <2>12 DEF FilesFollow
<1>7. CertificatesFollow' /\ PoolsFollow' /\ SharesFollow' /\ KeptHeld'
  BY <1>1, <1>3, <1>4 DEF HomesTyped, CertificatesFollow, Certified, HomeSyncing,
     PoolsFollow, Home!PhpOf, Home!Running, SharesFollow, SharesFit, KeptHeld
<1> QED
  BY <1>5, <1>6, <1>7 DEF HomeInv

\* A linked Site takes a domain that no row has.
LEMMA HomeAddLinked ==
  ASSUME HomeAssumption, HomeInv, NEW d \in Home!Domains, Home!AddLinked(d)
  PROVE  HomeInv'
<1>1. /\ HomesTyped /\ RowsApart /\ FilesFollow /\ DomainsFollow /\ CertificatesFollow
      /\ PoolsFollow /\ SharesFollow /\ KeptHeld
  BY DEF HomeInv
<1>2. /\ phase = "idle" /\ damage = "none" /\ d \notin linked \cup Home!DomsOf(rows)
      /\ linked' = linked \cup {d} /\ domains' = domains \cup {d}
      /\ files' = [files EXCEPT ![d] = Linked]
      /\ loaded' = IF Home!Running THEN files' ELSE None
      /\ UNCHANGED <<home, rows, certificates, pools, shares, phase, job, damage>>
  BY DEF Home!AddLinked, Home!Resting, Home!With
<1>3. HomesTyped'
  BY <1>1, <1>2 DEF HomesTyped
<1>4. RowsApart'
  <2>1. job.old = {}
    BY <1>1, <1>2 DEF HomesTyped
  <2>2. \A s \in rows : Home!Dom(s) # d
    BY <1>2 DEF Home!DomsOf
  <2>3. SitesApart(rows)'
    BY <1>1, <1>2, <2>2 DEF RowsApart, SitesApart
  <2> QED
    BY <1>2, <2>1, <2>3 DEF RowsApart, SitesApart
<1>5. FilesFollow'
  <2>1. InFiles(rows)
    BY <1>1, <1>2 DEF FilesFollow
  <2>2. files'[d] = Linked /\ \A e \in Home!Domains \ {d} : files'[e] = files[e]
    BY <1>1, <1>2 DEF HomesTyped
  <2>3. \A s \in rows : Home!Dom(s) \in Home!Domains /\ Home!Dom(s) # d
    BY <1>1, <1>2 DEF RowsApart, SitesApart, IsSite, Home!Dom, Home!Domains, Home!DomsOf
  <2>4. \A s \in rows : files'[Home!Dom(s)] = s
    BY <2>1, <2>2, <2>3 DEF InFiles
  <2>5. \A e \in linked' : files'[e] = Linked
    BY <1>1, <1>2, <2>1, <2>2 DEF InFiles, HomesTyped
  <2>6. \A e \in Home!Domains : files'[e] # None => e \in Home!DomsOf(rows) \cup linked'
    BY <1>2, <2>1, <2>2 DEF InFiles
  <2>7. loaded' # None => loaded' = files'
    BY <1>2
  <2>8. InFiles(rows)'
    BY <1>2, <2>4, <2>5, <2>6, <2>7 DEF InFiles, Home!Running
  <2> QED
    BY <1>2, <2>8 DEF FilesFollow
<1>6. DomainsFollow'
  BY <1>1, <1>2 DEF DomainsFollow
<1>7. CertificatesFollow'
  BY <1>1, <1>2 DEF CertificatesFollow, Certified, HomeSyncing
<1>8. PoolsFollow'
  BY <1>1, <1>2 DEF PoolsFollow, Home!Running, HomeSyncing
<1>9. SharesFollow' /\ KeptHeld'
  BY <1>1, <1>2 DEF SharesFollow, SharesFit, KeptHeld, KeepsSites, HomeSyncing
<1> QED
  BY <1>3, <1>4, <1>5, <1>6, <1>7, <1>8, <1>9 DEF HomeInv

\* The user changes directories; nothing has looked yet.
LEMMA HomeChange ==
  ASSUME HomeAssumption, HomeInv, NEW h \in Homes, NEW n \in Names, Home!Change(h, n)
  PROVE  HomeInv'
<1>1. /\ HomesTyped /\ RowsApart /\ FilesFollow /\ DomainsFollow /\ CertificatesFollow
      /\ PoolsFollow /\ SharesFollow /\ KeptHeld
  BY DEF HomeInv
<1>2. /\ HomesTyped' /\ RowsApart' /\ FilesFollow' /\ DomainsFollow'
      /\ CertificatesFollow' /\ PoolsFollow' /\ SharesFollow' /\ KeptHeld'
  BY <1>1 DEF Home!Change, HomesTyped, RowsApart, SitesApart, FilesFollow, InFiles,
     Home!Running, DomainsFollow, CertificatesFollow, Certified, Home!SecuredOf,
     HomeSyncing, PoolsFollow, SharesFollow, SharesFit, KeptHeld, KeepsSites
<1> QED
  BY <1>2 DEF HomeInv

\* The answer has been read.
LEMMA HomeRead ==
  ASSUME HomeAssumption, HomeInv, Home!Read
  PROVE  HomeInv'
<1>1. /\ HomesTyped /\ RowsApart /\ FilesFollow /\ DomainsFollow /\ CertificatesFollow
      /\ PoolsFollow /\ SharesFollow /\ KeptHeld
  BY DEF HomeInv
<1>2. HomesTyped'
  <2>1. /\ phase' = "idle" /\ UNCHANGED <<home, linked, files, certificates, domains, pools, damage>>
        /\ job' = [kind |-> "none", old |-> {}, fresh |-> {}, started |-> {},
                   kept |-> [home |-> FirstHome, rows |-> {}]]
    BY DEF Home!Read, Home!Done, Home!NoJob, Home!Nothing, Home!outside
  <2> QED
    BY <1>1, <2>1 DEF HomesTyped, HomeAssumption
<1>3. RowsApart'
  BY <1>1 DEF Home!outside, Home!NoJob, Home!Done, Home!Read, RowsApart, SitesApart
<1>4. FilesFollow' /\ DomainsFollow'
  BY <1>1 DEF Home!outside, Home!Done, Home!Read, FilesFollow, InFiles, Home!Running,
     DomainsFollow
<1>5. CertificatesFollow' /\ PoolsFollow' /\ SharesFollow' /\ KeptHeld'
  BY <1>1 DEF Home!NoJob, Home!Done, Home!Read, Home!Running, CertificatesFollow, Certified,
     HomeSyncing, PoolsFollow, SharesFollow, SharesFit, KeptHeld
<1> QED
  BY <1>2, <1>3, <1>4, <1>5 DEF HomeInv

\* The Agent is killed: nothing runs, and a batch under way is on record.
LEMMA HomeCrash ==
  ASSUME HomeAssumption, HomeInv, Home!Crash
  PROVE  HomeInv'
<1>1. /\ HomesTyped /\ RowsApart /\ FilesFollow /\ DomainsFollow /\ CertificatesFollow
      /\ PoolsFollow /\ SharesFollow /\ KeptHeld
  BY DEF HomeInv
<1>2. HomesTyped'
  <2>1. /\ phase' = "idle" /\ pools' = {}
        /\ UNCHANGED <<linked, home, certificates, domains>>
        /\ job' = [kind |-> "none", old |-> {}, fresh |-> {}, started |-> {},
                   kept |-> [home |-> FirstHome, rows |-> {}]]
        /\ damage' \in {"all", damage}
    BY DEF Home!Crash, Home!Done, Home!NoJob, Home!Nothing, Home!outside
  <2>2. files' = [d \in Home!Domains |-> files'[d]]
    BY <1>1 DEF Home!Crash, Home!Partly, HomesTyped
  <2> QED
    BY <1>1, <2>1, <2>2 DEF HomesTyped, HomeAssumption
<1>3. /\ RowsApart' /\ FilesFollow' /\ DomainsFollow' /\ CertificatesFollow'
      /\ PoolsFollow' /\ SharesFollow' /\ KeptHeld'
  BY <1>1 DEF Home!outside, Home!NoJob, Home!Done, Home!Crash, RowsApart, SitesApart,
     FilesFollow, InFiles, Home!Running, DomainsFollow, CertificatesFollow, Certified,
     HomeSyncing, PoolsFollow, SharesFollow, SharesFit, KeptHeld
<1> QED
  BY <1>2, <1>3 DEF HomeInv

\* All bounds are used up.
LEMMA HomeFinished ==
  ASSUME HomeAssumption, HomeInv, Home!Finished
  PROVE  HomeInv'
<1>1. /\ HomesTyped /\ RowsApart /\ FilesFollow /\ DomainsFollow /\ CertificatesFollow
      /\ PoolsFollow /\ SharesFollow /\ KeptHeld
  BY DEF HomeInv
<1>2. /\ HomesTyped' /\ RowsApart' /\ FilesFollow' /\ DomainsFollow'
      /\ CertificatesFollow' /\ PoolsFollow' /\ SharesFollow' /\ KeptHeld'
  BY <1>1 DEF Home!vars, Home!Finished, HomesTyped, RowsApart, SitesApart, FilesFollow,
     InFiles, Home!Running, DomainsFollow, CertificatesFollow, Certified, HomeSyncing,
     PoolsFollow, SharesFollow, SharesFit, KeptHeld
<1> QED
  BY <1>2 DEF HomeInv

\* The empty Home is served.
LEMMA HomeInitial == ASSUME HomeAssumption, Home!Init PROVE HomeInv
<1>1. job = [kind |-> "none", old |-> {}, fresh |-> {}, started |-> {},
             kept |-> [home |-> FirstHome, rows |-> {}]]
  BY DEF Home!Init, Home!NoJob, Home!Nothing
<1>2. HomesTyped
  <2>1. files = [d \in Home!Domains |-> files[d]]
    BY DEF Home!Init
  <2>2. phase = "idle" /\ job.kind = "none" /\ job.old = {} /\ job.kept.home \in Homes
    BY <1>1 DEF Home!Init, HomeAssumption
  <2>3. job = [kind |-> job.kind, old |-> job.old, fresh |-> job.fresh,
              started |-> job.started,
              kept |-> [home |-> job.kept.home, rows |-> job.kept.rows]]
    BY <1>1
  <2> QED
    BY <2>1, <2>2, <2>3 DEF Home!Init, HomesTyped, HomeAssumption
<1>3. RowsApart /\ SharesFollow /\ KeptHeld /\ PoolsFollow
  BY <1>1 DEF Home!Init, RowsApart, SitesApart, SharesFollow, SharesFit, KeptHeld,
     PoolsFollow, Home!PhpOf
<1>4. FilesFollow /\ DomainsFollow /\ CertificatesFollow
  BY DEF Home!Init, FilesFollow, InFiles, Home!DomsOf, DomainsFollow, CertificatesFollow,
     Certified, Home!SecuredOf, HomeSyncing, Home!Running
<1> QED
  BY <1>2, <1>3, <1>4 DEF HomeInv

\* Every step keeps the invariant.
LEMMA HomeStep == ASSUME HomeAssumption, HomeInv, [Home!Next]_Home!vars PROVE HomeInv'
<1>1. CASE Home!Finished
  BY <1>1, HomeFinished
<1>2. CASE UNCHANGED Home!vars
  <2>1. UNCHANGED Home!vars
    BY <1>2
  <2>2. UNCHANGED <<home, rows, linked, files, certificates, domains, loaded, pools, shares,
                    phase, job, damage>>
    BY <2>1 DEF Home!vars
  <2>3. /\ HomesTyped /\ RowsApart /\ FilesFollow /\ DomainsFollow /\ CertificatesFollow
        /\ PoolsFollow /\ SharesFollow /\ KeptHeld
    BY DEF HomeInv
  <2>4. HomesTyped'
    BY <2>2, <2>3 DEF HomesTyped
  <2>5. RowsApart'
    BY <2>2, <2>3 DEF RowsApart, SitesApart
  <2>6. FilesFollow'
    BY <2>2, <2>3 DEF FilesFollow, InFiles, Home!Running
  <2>7. DomainsFollow'
    BY <2>2, <2>3 DEF DomainsFollow
  <2>8. CertificatesFollow'
    BY <2>2, <2>3 DEF CertificatesFollow, Certified, HomeSyncing
  <2>9. PoolsFollow'
    BY <2>2, <2>3 DEF PoolsFollow, Home!Running, HomeSyncing
  <2>10. SharesFollow'
    BY <2>2, <2>3 DEF SharesFollow, SharesFit, HomeSyncing
  <2>11. KeptHeld'
    BY <2>2, <2>3 DEF KeptHeld, KeepsSites, HomeSyncing
  <2> QED
    BY <2>4, <2>5, <2>6, <2>7, <2>8, <2>9, <2>10, <2>11 DEF HomeInv
<1>3. CASE Home!ListSites \/ Home!StartAll \/ \E h \in Homes \ {home} : Home!SaveSiteHome(h)
  BY <1>3, HomeListSites, HomeStartAll, HomeSaveSiteHome
<1>4. CASE Home!Scan \/ Home!ScanFails \/ Home!Resolve \/ Home!Prepare \/ Home!GivesUp
             \/ Home!Apply \/ Home!ApplyFails
  BY <1>4, HomeScan, HomeScanFails, HomeResolve, HomePrepare, HomeGivesUp, HomeApply,
     HomeApplyFails
<1>5. CASE Home!Retire \/ Home!Share \/ Home!ShareFails \/ Home!Revert \/ Home!RevertFails
  BY <1>5, HomeRetire, HomeShare, HomeShareFails, HomeRevert, HomeRevertFails
<1>6. CASE Home!Launch \/ Home!LaunchFails \/ Home!StopAll \/ Home!Read \/ Home!Crash
  BY <1>6, HomeLaunch, HomeLaunchFails, HomeStopAll, HomeRead, HomeCrash
<1>7. CASE \E s \in rows :
             Home!ShareSite(s)
               \/ \E v \in Php \cup {Home!NoPhp}, b \in BOOLEAN : Home!SetSite(s, v, b)
  BY <1>7, HomeShareSite, HomeSetSite
<1>8. CASE (\E d \in Home!Domains : Home!AddLinked(d))
             \/ \E h \in Homes, n \in Names : Home!Change(h, n)
  BY <1>8, HomeAddLinked, HomeChange
<1> QED
  BY <1>1, <1>2, <1>3, <1>4, <1>5, <1>6, <1>7, <1>8 DEF Home!Next

\* The instance counts as this module does.
LEMMA HomeCounts == \A S : Home!Cardinality(S) = Cardinality(S)
BY DEF Home!Cardinality, Cardinality

\* Rows that are apart have as many domains as there are rows.
LEMMA OneDomainEach ==
  ASSUME HomeAssumption, NEW rs, SitesApart(rs)
  PROVE  Cardinality(Home!DomsOf(rs)) = Cardinality(rs)
<1>1. PICK N \in Nat : Names \subseteq 0..N
  BY DEF HomeAssumption
<1>2. IsFiniteSet(Names)
  <2>1. IsFiniteSet(0..N)
    BY FS_Interval
  <2> QED
    BY <1>1, <2>1, FS_Subset
<1> DEFINE name == [s \in rs |-> s.name]
           dom == [s \in rs |-> Home!Dom(s)]
<1>3. name \in Injection(rs, Names)
  BY DEF SitesApart, IsSite, Home!Dom, Injection, IsInjective
<1>4. IsFiniteSet(rs)
  BY <1>2, <1>3, FS_Injection
<1>5. dom \in Bijection(rs, Home!DomsOf(rs))
  BY DEF SitesApart, Home!DomsOf, Bijection, Injection, IsInjective, Surjection
<1> QED
  BY <1>4, <1>5, FS_Bijection DEF ExistsBijection

\* The invariant gives the type invariant.
LEMMA HomeTyped == ASSUME HomeInv PROVE Home!TypeOK
BY DEF HomeInv, HomesTyped, RowsApart, SitesApart, IsSite, Home!TypeOK

\* Between requests, all that follows the rows has caught up with them.
LEMMA HomeServed == ASSUME HomeAssumption, HomeInv PROVE Home!HomeSitesServed
<1> SUFFICES ASSUME phase = "idle" PROVE Home!HomeSitesServed!2
  BY DEF Home!HomeSitesServed
<1>1. RowsApart /\ ~HomeSyncing
  BY DEF HomeInv, HomeSyncing
<1>2. damage # "all" =>
        /\ InFiles(rows) /\ domains = Home!DomsOf(rows) \cup linked /\ Certified(rows)
        /\ Home!Running => Home!PhpOf(rows) \subseteq pools
  BY <1>1 DEF HomeInv, FilesFollow, DomainsFollow, CertificatesFollow, PoolsFollow
<1>3. Home!LinkedUntouched
  <2>1. linked \cap Home!DomsOf(rows) = {}
    BY <1>1 DEF RowsApart, SitesApart, Home!DomsOf
  <2>2. Cardinality(Home!DomsOf(rows)) = Cardinality(rows)
    BY <1>1, OneDomainEach DEF RowsApart
  <2>3. damage # "all" => \A d \in linked : files[d] = Linked
    BY <1>2 DEF InFiles
  <2> QED
    BY <2>1, <2>2, <2>3, HomeCounts DEF Home!LinkedUntouched
<1>4. damage = "none" => SharesFit(rows)
  BY DEF HomeInv, SharesFollow
<1> QED
  BY <1>2, <1>3, <1>4 DEF InFiles, Certified, SharesFit

\* A refused SaveSiteHome has kept what it found.
LEMMA HomeKeeps == ASSUME HomeInv PROVE Home!FailedSaveKeeps
BY DEF HomeInv, KeptHeld, KeepsSites, SameSite, Home!FailedSaveKeeps

\* A step shares a Site that was shared already, or one that is asked for.
LEMMA HomeShared == ASSUME [Home!Next]_Home!vars PROVE Home!SharedExplicitly
<1>1. CASE \E s \in rows :
             Home!ShareSite(s)
               \/ \E v \in Php \cup {Home!NoPhp}, b \in BOOLEAN : Home!SetSite(s, v, b)
  <2>1. CASE \E s \in rows : Home!ShareSite(s)
    BY <2>1 DEF Home!SharedExplicitly
  <2>2. ASSUME NEW s \in rows, NEW v, NEW b, Home!SetSite(s, v, b)
        PROVE  Home!SharedExplicitly
    BY <2>2 DEF Home!SetSite, Home!SharedExplicitly
  <2> QED
    BY <1>1, <2>1, <2>2
<1>2. CASE Home!Share
  BY <1>2 DEF Home!Share, Home!SharesOf, Home!SharedExplicitly
<1>3. CASE shares' \in {{}, shares}
  BY <1>3 DEF Home!SharedExplicitly
<1> QED
  BY <1>1, <1>2, <1>3 DEF Home!Next, Home!vars, Home!ListSites, Home!StartAll,
     Home!SaveSiteHome, Home!Scan, Home!ScanFails, Home!Resolve, Home!Prepare, Home!GivesUp,
     Home!Apply, Home!ApplyFails, Home!Retire, Home!ShareFails, Home!Revert,
     Home!RevertFails, Home!Launch, Home!LaunchFails, Home!StopAll, Home!AddLinked,
     Home!Change, Home!Read, Home!Crash, Home!Finished

\* SiteHomes keeps its type invariant; between requests everything is that of the
\* rows; and a SaveSiteHome that fails keeps the Home and the Sites.
THEOREM HomesHold ==
  ASSUME HomeAssumption
  PROVE  Home!Spec => [](Home!TypeOK /\ Home!HomeSitesServed /\ Home!FailedSaveKeeps)
<1>1. Home!Spec => []HomeInv
  BY HomeInitial, HomeStep, PTL DEF Home!Spec
<1>2. HomeInv => Home!TypeOK /\ Home!HomeSitesServed /\ Home!FailedSaveKeeps
  BY HomeTyped, HomeServed, HomeKeeps
<1> QED
  BY <1>1, <1>2, PTL

\* A synchronisation never shares a Site that was not shared.
THEOREM HomeSharing == Home!Spec => Home!SharingIsExplicit
<1>1. [Home!Next]_Home!vars => Home!SharedExplicitly
  BY HomeShared
<1> QED
  BY <1>1, PTL DEF Home!Spec, Home!SharingIsExplicit

-----------------------------------------------------------------------------
(* AgentLifecycle.                                                         *)

\* AgentLifecycle's parameters: the kinds of request are those the windows and the
\* tray have, and no task of the Desktop is named as the command line or as Quit.
LifeAssumption ==
  /\ MaxAgents \in Nat \ {0} /\ Windows \in BOOLEAN
  /\ Kinds \subseteq {"GetStatus", "StartAll", "StopAll", "StartMariaDb", "StopMariaDb"}
  /\ {"cli", "quit"} \cap Tasks = {}
  /\ None \notin Nat /\ None \notin Life!Callers /\ None \notin {"ok", "error", "lost"}

\* The phases of an Agent process (main, serve).
LifePhases == {"none", "preparing", "free", "stale", "serving", "closing", "gone"}

\* The requests that are ever sent to an Agent.
LifeAsked ==
  Kinds \cup {"GetStatus", "StartAll", "StartMariaDb", "StopAll", "Shutdown", "none"}

\* A request on its connection to an Agent; nobody is behind it once its caller is
\* gone.
LifeQueued == [from : Life!Callers \cup {None}, kind : LifeAsked]

\* An Agent process: its phase, its version and the connections it has accepted.
LifeProcess == [phase : LifePhases, old : BOOLEAN, queue : Seq(LifeQueued)]

\* The tray's two menu items and whether each can be clicked.
LifeTray ==
  [web : {"Mixed", "Running", "Stopped"},
   mariadb : {"NotInstalled", "Busy", "Running", "Stopped"},
   webOn : BOOLEAN, mariadbOn : BOOLEAN]

\* The types of AgentLifecycle's state.
LifeShaped ==
  /\ agents \in [Life!Agents -> LifeProcess]
  /\ endpoint \in Life!Agents \cup {None}
  /\ {web, mariadb} \subseteq Life!Agents \cup {None}
  /\ startLock \in Tasks \cup {None}
  /\ callers \in [Life!Callers -> Life!Calls]
  /\ tray \in LifeTray
  /\ desktop \in {"running", "exited"}

\* What a caller at a step is waiting for.
Awaits(call, kind) ==
  \/ call.step \in {"stopOld", "shutdown"} /\ kind = "Shutdown"
  \/ call.step = "startWeb" /\ kind = "StartAll"
  \/ call.step = "startMariaDb" /\ kind = "StartMariaDb"
  \/ call.step = "stop" /\ kind = "StopAll"
  \/ call.step = "send" /\ kind = call.kind

\* Whoever is behind a queued request still waits for its answer, from that agent,
\* and is behind no other request in the queue.
QueueFits ==
  \A a \in Life!Agents : \A i \in DOMAIN agents[a].queue :
    agents[a].queue[i].from # None =>
      /\ callers[agents[a].queue[i].from].agent = a
      /\ callers[agents[a].queue[i].from].answer = None
      /\ Awaits(callers[agents[a].queue[i].from], agents[a].queue[i].kind)
      /\ \A j \in DOMAIN agents[a].queue : j # i
           => agents[a].queue[j].from # agents[a].queue[i].from

\* The steps of ensure_agent_running that run under the start lock.
Upgrading == {"stopOld", "oldDown", "spawn", "ready", "startWeb", "startMariaDb"}

\* A task that is replacing the Agent holds the start lock.
LockHeld == \A t \in Tasks : callers[t].step \in Upgrading => startLock = t

\* Once Quit has begun to stop things, and after the Desktop has exited, the Agent
\* it found is gone or displaced, or, while Quit is still at it, is the one behind
\* the endpoint.
FoundHeld ==
  Life!Quit.step \in {"stop", "shutdown", "down", "leave"} \/ desktop = "exited" =>
    \/ Life!Quit.found = None
    \/ agents[Life!Quit.found].phase = "gone" \/ Life!Quit.found \in displaced
    \/ desktop = "running" /\ Life!Quit.step # "leave" /\ endpoint = Life!Quit.found
         /\ Life!Listening(Life!Quit.found)

\* A task that will make the tray's web item clickable again when it ends.
Refreshes(call) ==
  call.step # "idle" /\ call.action /\ call.kind \in {"GetStatus", "StartAll", "StopAll"}

\* While the web item is greyed out somebody is under way who will make it
\* clickable again.
TrayPending ==
  desktop = "running" /\ ~tray.webOn
    => Life!Quit.step # "idle" \/ \E t \in Tasks : Refreshes(callers[t])

\* A service that an upgrade has restarted runs, or somebody asked for it to be
\* stopped meanwhile.
Back(service, runner) == runner # None \/ service \in halted

\* What a restart after an upgrade has been answered for is back.
StartsDone ==
  \A t \in Tasks :
    /\ callers[t].step = "startWeb" /\ callers[t].answer = "ok" => Back("web", web)
    /\ callers[t].step = "startMariaDb" =>
         /\ "web" \in callers[t].restart => Back("web", web)
         /\ callers[t].answer = "ok" => Back("mariadb", mariadb)

\* The callers' records: a task under way has a request, only the command line
\* outlives the Desktop, a Quit that has not pinged has found nobody, and an idle
\* Quit awaits nothing.
CallsFit ==
  /\ \A t \in Tasks : callers[t].step # "idle" => callers[t].kind # "none"
  /\ desktop = "exited" => \A c \in Life!Callers \ {"cli"} : callers[c].step = "idle"
  /\ callers["quit"].step = "ping" => callers["quit"].found = None
  /\ callers["quit"].step = "idle"
       => callers["quit"].agent = None /\ callers["quit"].answer = None

\* AgentLifecycle's inductive invariant.
LifeInv ==
  /\ LifeShaped /\ QueueFits /\ CallsFit /\ LockHeld /\ Life!ShutdownLeavesNothing
  /\ FoundHeld /\ TrayPending /\ StartsDone

\* A move resets the caller's call and leaves the rest of its record.
LEMMA LifeMoving ==
  ASSUME LifeShaped, NEW c \in Life!Callers, NEW s, Life!Move(c, s)
  PROVE  /\ \A d \in Life!Callers \ {c} : callers'[d] = callers[d]
         /\ callers'[c].step = s /\ callers'[c].agent = None /\ callers'[c].answer = None
         /\ callers'[c].kind = callers[c].kind /\ callers'[c].restart = callers[c].restart
         /\ callers'[c].action = callers[c].action /\ callers'[c].found = callers[c].found
<1>1. \A d \in Life!Callers \ {c} : callers'[d] = callers[d]
  BY DEF Life!Move, LifeShaped
<1>2. callers'[c].step = s /\ callers'[c].agent = None /\ callers'[c].answer = None
  BY DEF Life!Move, LifeShaped, Life!Calls
<1>3. callers'[c].kind = callers[c].kind /\ callers'[c].restart = callers[c].restart
  BY DEF Life!Move, LifeShaped, Life!Calls
<1>4. callers'[c].action = callers[c].action /\ callers'[c].found = callers[c].found
  BY DEF Life!Move, LifeShaped, Life!Calls
<1> QED
  BY <1>1, <1>2, <1>3, <1>4

\* The steps of the callers.
LifeSteps == {"idle", "lock", "ping", "stopOld", "oldDown", "spawn", "ready", "startWeb",
          "startMariaDb", "send", "stop", "shutdown", "down", "leave"}

\* What a caller's call comes back with, if it did.
LifeAnswers == {"ok", "error", "lost", None}

\* A caller's record stays one when the fields that the actions set are set.
LEMMA CallsAltered ==
  ASSUME NEW c \in Life!Callers, NEW f \in [Life!Callers -> Life!Calls]
  PROVE  /\ \A s \in LifeSteps, g \in Life!Agents \cup {None}, w \in LifeAnswers :
              [f EXCEPT ![c].step = s, ![c].agent = g, ![c].answer = w]
                \in [Life!Callers -> Life!Calls]
         /\ \A g \in Life!Agents \cup {None}, w \in LifeAnswers :
              [f EXCEPT ![c].agent = g, ![c].answer = w] \in [Life!Callers -> Life!Calls]
         /\ \A w \in LifeAnswers :
              [f EXCEPT ![c].answer = w] \in [Life!Callers -> Life!Calls]
         /\ \A s \in LifeSteps, r \in SUBSET {"web", "mariadb"} :
              [f EXCEPT ![c].step = s, ![c].restart = r] \in [Life!Callers -> Life!Calls]
         /\ \A s \in LifeSteps, d \in Life!Agents \cup {None} :
              [f EXCEPT ![c].step = s, ![c].found = d] \in [Life!Callers -> Life!Calls]
<1> DEFINE B == Kinds \cup {"GetStatus"} \cup {"none"}
           C == Life!Agents \cup {None}
           E == SUBSET {"web", "mariadb"}
<1>1. Life!Calls = [step : LifeSteps, kind : B, agent : C, answer : LifeAnswers,
                   restart : E, action : BOOLEAN, found : C]
  BY DEF Life!Calls, LifeSteps, LifeAnswers
<1> HIDE DEF B, C, E
<1>2. f \in [Life!Callers ->
             [step : LifeSteps, kind : B, agent : C, answer : LifeAnswers, restart : E,
              action : BOOLEAN, found : C]]
  BY <1>1
<1>3. \A s \in LifeSteps, g \in C, w \in LifeAnswers :
              [f EXCEPT ![c].step = s, ![c].agent = g, ![c].answer = w]
                \in [Life!Callers -> Life!Calls]
  <2> SUFFICES ASSUME NEW s \in LifeSteps, NEW g \in C, NEW w \in LifeAnswers
               PROVE  [f EXCEPT ![c].step = s, ![c].agent = g, ![c].answer = w]
                        \in [Life!Callers -> Life!Calls]
    OBVIOUS
  <2> DEFINE h == [f EXCEPT ![c].step = s]
  <2>1. h \in [Life!Callers -> Life!Calls]
    BY <1>1, <1>2
  <2>2. [f EXCEPT ![c].step = s, ![c].agent = g, ![c].answer = w]
          = [h EXCEPT ![c].agent = g, ![c].answer = w]
    OBVIOUS
  <2> HIDE DEF h
  <2>3. [h EXCEPT ![c].agent = g, ![c].answer = w] \in [Life!Callers -> Life!Calls]
    BY <1>1, <2>1
  <2> QED
    BY <2>2, <2>3
<1>4. \A g \in C, w \in LifeAnswers :
              [f EXCEPT ![c].agent = g, ![c].answer = w] \in [Life!Callers -> Life!Calls]
  BY <1>1, <1>2
<1>5. \A w \in LifeAnswers : [f EXCEPT ![c].answer = w] \in [Life!Callers -> Life!Calls]
  BY <1>1, <1>2
<1>6. \A s \in LifeSteps, r \in E :
              [f EXCEPT ![c].step = s, ![c].restart = r] \in [Life!Callers -> Life!Calls]
  BY <1>1, <1>2
<1>7. \A s \in LifeSteps, d \in C :
              [f EXCEPT ![c].step = s, ![c].found = d] \in [Life!Callers -> Life!Calls]
  BY <1>1, <1>2
<1> QED
  BY <1>3, <1>4, <1>5, <1>6, <1>7 DEF C, E

\* A move keeps the callers' types.
LEMMA MovingShape ==
  ASSUME LifeShaped, NEW c \in Life!Callers, NEW s \in LifeSteps, Life!Move(c, s)
  PROVE callers' \in [Life!Callers -> Life!Calls]
<1>1. /\ callers \in [Life!Callers -> Life!Calls] /\ None \in Life!Agents \cup {None}
      /\ None \in LifeAnswers
  BY DEF LifeShaped, LifeAnswers
<1>2. callers' = [callers EXCEPT ![c].step = s, ![c].agent = None, ![c].answer = None]
  BY DEF Life!Move
<1> QED
  BY <1>1, <1>2, CallsAltered, Zenon

\* A process stays one when its phase or its queue is set.
LEMMA ProcessAltered ==
  ASSUME NEW a \in Life!Agents, NEW f \in [Life!Agents -> LifeProcess]
  PROVE  /\ \A p \in LifePhases : [f EXCEPT ![a].phase = p] \in [Life!Agents -> LifeProcess]
         /\ \A q \in Seq(LifeQueued) :
              [f EXCEPT ![a].queue = q] \in [Life!Agents -> LifeProcess]
         /\ \A p \in LifePhases, q \in Seq(LifeQueued) :
              /\ [f EXCEPT ![a].queue = q, ![a].phase = p] \in [Life!Agents -> LifeProcess]
              /\ [f EXCEPT ![a].phase = p, ![a].queue = q] \in [Life!Agents -> LifeProcess]
<1> DEFINE Q == Seq(LifeQueued)
<1> HIDE DEF Q
<1>1. f \in [Life!Agents -> [phase : LifePhases, old : BOOLEAN, queue : Q]]
  BY DEF LifeProcess, Q
<1>2. \A p \in LifePhases :
        [f EXCEPT ![a].phase = p]
          \in [Life!Agents -> [phase : LifePhases, old : BOOLEAN, queue : Q]]
  BY <1>1
<1>3. \A q \in Q :
        [f EXCEPT ![a].queue = q]
          \in [Life!Agents -> [phase : LifePhases, old : BOOLEAN, queue : Q]]
  BY <1>1
<1>4. \A p \in LifePhases, q \in Q :
              /\ [f EXCEPT ![a].queue = q, ![a].phase = p]
                   \in [Life!Agents -> [phase : LifePhases, old : BOOLEAN, queue : Q]]
              /\ [f EXCEPT ![a].phase = p, ![a].queue = q]
                   \in [Life!Agents -> [phase : LifePhases, old : BOOLEAN, queue : Q]]
  BY <1>1
<1> QED
  BY <1>2, <1>3, <1>4 DEF Q, LifeProcess

\* The callers are apart from one another and from nobody.
LEMMA LifeWho ==
  ASSUME LifeAssumption
  PROVE  /\ Tasks \subseteq Life!Callers /\ "cli" \in Life!Callers
         /\ "quit" \in Life!Callers
         /\ \A t \in Tasks : t # "cli" /\ t # "quit"
         /\ \A a \in Life!Agents : a # None
         /\ \A c \in Life!Callers : c # None
BY DEF LifeAssumption, Life!Callers, Life!Agents

\* The Agent that a call reaches is the one behind the endpoint, if it listens.
LEMMA ReachedIs ==
  ASSUME LifeShaped
  PROVE  /\ Life!Reached \in Life!Agents \cup {None}
         /\ Life!Reached # None => endpoint = Life!Reached /\ Life!Listening(Life!Reached)
         /\ endpoint # None /\ Life!Listening(endpoint) => Life!Reached = endpoint
BY DEF Life!Reached, LifeShaped

\* A caller that is behind no queued request.
Silent(c) ==
  \A a \in Life!Agents : \A i \in DOMAIN agents[a].queue : agents[a].queue[i].from # c

\* What is to be shown of every request in a queue after a step.
LEMMA QueueFitsNext ==
  ASSUME \A a \in Life!Agents : \A i \in DOMAIN agents'[a].queue :
           agents'[a].queue[i].from # None =>
             /\ callers'[agents'[a].queue[i].from].agent = a
             /\ callers'[agents'[a].queue[i].from].answer = None
             /\ Awaits(callers'[agents'[a].queue[i].from], agents'[a].queue[i].kind)
             /\ \A j \in DOMAIN agents'[a].queue : j # i
                  => agents'[a].queue[j].from # agents'[a].queue[i].from
  PROVE  QueueFits'
BY DEF QueueFits, Awaits

\* A caller that has its answer, or is at a step that asks nothing, is behind no
\* queued request.
LEMMA NoneQueued ==
  ASSUME LifeAssumption, QueueFits, NEW c \in Life!Callers,
         \/ callers[c].answer # None
         \/ callers[c].step \in {"idle", "lock", "oldDown", "spawn", "ready", "ping", "down",
                                "leave"}
  PROVE  Silent(c)
<1>1. SUFFICES ASSUME NEW a \in Life!Agents, NEW i \in DOMAIN agents[a].queue,
                      agents[a].queue[i].from = c
               PROVE  FALSE
  BY DEF Silent
<1>2. c # None
  BY LifeWho
<1>3. callers[c].answer = None /\ Awaits(callers[c], agents[a].queue[i].kind)
  BY <1>1, <1>2 DEF QueueFits
<1> QED
  BY <1>3 DEF Awaits

\* A queue is a sequence of typed requests.
LEMMA QueueTyped ==
  ASSUME LifeShaped, NEW a \in Life!Agents
  PROVE  /\ agents[a].queue \in Seq(LifeQueued)
         /\ DOMAIN agents[a].queue = 1..Len(agents[a].queue)
         /\ \A i \in DOMAIN agents[a].queue :
              /\ agents[a].queue[i].from \in Life!Callers \cup {None}
              /\ agents[a].queue[i].kind \in LifeAsked
<1>1. agents[a].queue \in Seq(LifeQueued)
  BY DEF LifeShaped, LifeProcess
<1>2. \A i \in DOMAIN agents[a].queue : agents[a].queue[i] \in LifeQueued
  BY <1>1
<1>3. DOMAIN agents[a].queue = 1..Len(agents[a].queue)
  BY <1>1
<1> QED
  BY <1>1, <1>2, <1>3 DEF LifeQueued

\* The queues fit still when only callers that are behind no request move, ...
LEMMA QueuesStay ==
  ASSUME QueueFits, NEW C, \A c \in C : Silent(c),
         \A d \in Life!Callers \ C : callers'[d] = callers[d],
         LifeShaped, \A a \in Life!Agents : agents'[a].queue = agents[a].queue
  PROVE  QueueFits'
<1>1. \A a \in Life!Agents : \A i \in DOMAIN agents[a].queue :
        agents[a].queue[i].from \in Life!Callers \cup {None}
  BY QueueTyped
<1>2. \A a \in Life!Agents : \A i \in DOMAIN agents'[a].queue :
        agents'[a].queue[i].from # None =>
          /\ callers'[agents'[a].queue[i].from].agent = a
          /\ callers'[agents'[a].queue[i].from].answer = None
          /\ Awaits(callers'[agents'[a].queue[i].from], agents'[a].queue[i].kind)
          /\ \A j \in DOMAIN agents'[a].queue : j # i
               => agents'[a].queue[j].from # agents'[a].queue[i].from
  <2> SUFFICES ASSUME NEW a \in Life!Agents, NEW i \in DOMAIN agents'[a].queue,
                      agents'[a].queue[i].from # None
               PROVE  /\ callers'[agents'[a].queue[i].from].agent = a
                      /\ callers'[agents'[a].queue[i].from].answer = None
                      /\ Awaits(callers'[agents'[a].queue[i].from], agents'[a].queue[i].kind)
                      /\ \A j \in DOMAIN agents'[a].queue : j # i
                           => agents'[a].queue[j].from # agents'[a].queue[i].from
    OBVIOUS
  <2>1. agents'[a].queue = agents[a].queue
    OBVIOUS
  <2>2. i \in DOMAIN agents[a].queue /\ agents[a].queue[i].from # None
    BY <2>1
  <2>3. callers'[agents[a].queue[i].from] = callers[agents[a].queue[i].from]
    BY <1>1, <2>2 DEF Silent
  <2>4. /\ callers[agents[a].queue[i].from].agent = a
        /\ callers[agents[a].queue[i].from].answer = None
        /\ Awaits(callers[agents[a].queue[i].from], agents[a].queue[i].kind)
        /\ \A j \in DOMAIN agents[a].queue : j # i
             => agents[a].queue[j].from # agents[a].queue[i].from
    BY <2>2 DEF QueueFits
  <2> QED
    BY <2>1, <2>3, <2>4
<1> QED
  BY <1>2, QueueFitsNext

\* ... or none moves at all.
LEMMA QueuesUntouched ==
  ASSUME QueueFits, callers' = callers, LifeShaped,
         \A a \in Life!Agents : agents'[a].queue = agents[a].queue
  PROVE  QueueFits'
<1> DEFINE C == {}
<1>1. (\A d \in C : Silent(d)) /\ \A d \in Life!Callers \ C : callers'[d] = callers[d]
  OBVIOUS
<1> HIDE DEF C
<1> QED
  BY <1>1, QueuesStay

\* The same for one caller.
LEMMA QueuesStayFor ==
  ASSUME QueueFits, NEW c, Silent(c),
         \A d \in Life!Callers \ {c} : callers'[d] = callers[d],
         LifeShaped, \A a \in Life!Agents : agents'[a].queue = agents[a].queue
  PROVE  QueueFits'
<1> DEFINE C == {c}
<1>1. (\A d \in C : Silent(d)) /\ \A d \in Life!Callers \ C : callers'[d] = callers[d]
  OBVIOUS
<1> HIDE DEF C
<1> QED
  BY <1>1, QueuesStay

\* A call stays one when its connection breaks.
LEMMA CallLost ==
  ASSUME NEW r \in Life!Calls, NEW w \in LifeAnswers
  PROVE  [r EXCEPT !.answer = w] \in Life!Calls
<1> DEFINE B == Kinds \cup {"GetStatus"} \cup {"none"}
           C == Life!Agents \cup {None}
           E == SUBSET {"web", "mariadb"}
<1>1. Life!Calls = [step : LifeSteps, kind : B, agent : C, answer : LifeAnswers,
                   restart : E, action : BOOLEAN, found : C]
  BY DEF Life!Calls, LifeSteps, LifeAnswers
<1> HIDE DEF B, C, E
<1> QED
  BY <1>1

\* What Quit found is an Agent or nobody.
LEMMA FoundWho ==
  ASSUME LifeAssumption, LifeShaped
  PROVE  callers["quit"].found \in Life!Agents \cup {None}
BY DEF LifeShaped, Life!Calls, Life!Callers

\* What serving a request does to the two services: what it stops was asked to
\* stop, a refused request changes nothing, and a start or a shutdown answered ok
\* has done its work.
LEMMA OutcomeSays ==
  ASSUME LifeAssumption, LifeShaped, NEW a \in Life!Agents, NEW k \in LifeAsked,
         NEW w \in {"ok", "error"}, Life!Outcome(a, k, w)
  PROVE  /\ halted \subseteq halted'
         /\ web' \in {web, a, None} /\ mariadb' \in {mariadb, a, None}
         /\ web' = None => web = None \/ "web" \in halted'
         /\ mariadb' = None => mariadb = None \/ "mariadb" \in halted'
         /\ Life!Refuses(a) => web' = web /\ mariadb' = mariadb
         /\ w = "ok" /\ k = "StartAll" => web' # None
         /\ w = "ok" /\ k = "StartMariaDb" => mariadb' # None
         /\ w = "ok" /\ k = "Shutdown" /\ ~Life!Refuses(a) => web' = None /\ mariadb' = None
<1>1. CASE Life!Refuses(a)
  BY <1>1 DEF Life!Outcome, Life!services
<1>2. CASE ~Life!Refuses(a) /\ w = "ok"
  BY <1>2 DEF Life!Outcome, Life!Stopped, Life!Without, LifeAssumption, Life!Agents
<1>3. CASE ~Life!Refuses(a) /\ w = "error"
  BY <1>3 DEF Life!Outcome, Life!Stopped, Life!Without
<1> QED
  BY <1>1, <1>2, <1>3

\* The record of an idle caller.
LEMMA NoCallIs ==
  /\ Life!NoCall \in Life!Calls /\ Life!NoCall.step = "idle" /\ Life!NoCall.found = None
  /\ Life!NoCall.agent = None /\ Life!NoCall.answer = None
<1> DEFINE B == Kinds \cup {"GetStatus"} \cup {"none"}
           C == Life!Agents \cup {None}
           E == SUBSET {"web", "mariadb"}
<1>1. Life!Calls = [step : LifeSteps, kind : B, agent : C, answer : LifeAnswers,
                   restart : E, action : BOOLEAN, found : C]
  BY DEF Life!Calls, LifeSteps, LifeAnswers
<1>2. /\ "idle" \in LifeSteps /\ "none" \in B /\ None \in C /\ None \in LifeAnswers
      /\ {} \in E
  BY DEF LifeSteps, LifeAnswers
<1> HIDE DEF B, C, E
<1> QED
  BY <1>1, <1>2 DEF Life!NoCall

\* The records of the callers that begin.
LEMMA NewCalls ==
  ASSUME NEW s \in LifeSteps, NEW k \in Kinds \cup {"GetStatus", "none"},
         NEW f \in Life!Agents \cup {None}
  PROVE  /\ LET r == [Life!NoCall EXCEPT !.step = s, !.kind = k]
            IN  /\ r \in Life!Calls /\ r.step = s /\ r.kind = k
                /\ r.found = None /\ r.answer = None /\ r.agent = None
         /\ LET r == [Life!NoCall EXCEPT !.step = s]
            IN  /\ r \in Life!Calls /\ r.step = s
                /\ r.found = None /\ r.answer = None /\ r.agent = None
         /\ LET r == [Life!NoCall EXCEPT !.found = f]
            IN  /\ r \in Life!Calls /\ r.step = "idle"
                /\ r.found = f /\ r.answer = None /\ r.agent = None
<1> DEFINE B == Kinds \cup {"GetStatus"} \cup {"none"}
           C == Life!Agents \cup {None}
           E == SUBSET {"web", "mariadb"}
<1>1. Life!Calls = [step : LifeSteps, kind : B, agent : C, answer : LifeAnswers,
                   restart : E, action : BOOLEAN, found : C]
  BY DEF Life!Calls, LifeSteps, LifeAnswers
<1>2. /\ "idle" \in LifeSteps /\ "none" \in B /\ None \in C /\ None \in LifeAnswers
      /\ {} \in E /\ k \in B /\ f \in C
  BY DEF LifeSteps, LifeAnswers
<1> HIDE DEF B, C, E
<1>3. Life!NoCall \in [step : LifeSteps, kind : B, agent : C, answer : LifeAnswers,
                       restart : E, action : BOOLEAN, found : C]
  BY <1>2 DEF Life!NoCall
<1> QED
  BY <1>1, <1>2, <1>3 DEF Life!NoCall

\* The record of a refresh of the tray.
LEMMA Refreshing ==
  ASSUME NEW t \in Tasks
  PROVE  /\ Life!Refresh(t) \in Life!Calls /\ Life!Refresh(t).step = "lock"
         /\ Life!Refresh(t).kind = "GetStatus"
         /\ Life!Refresh(t).action = TRUE /\ Life!Refresh(t).found = None
<1> DEFINE B == Kinds \cup {"GetStatus"} \cup {"none"}
           C == Life!Agents \cup {None}
           E == SUBSET {"web", "mariadb"}
<1>1. Life!Calls = [step : LifeSteps, kind : B, agent : C, answer : LifeAnswers,
                   restart : E, action : BOOLEAN, found : C]
  BY DEF Life!Calls, LifeSteps, LifeAnswers
<1>2. /\ "idle" \in LifeSteps /\ "lock" \in LifeSteps /\ {"none", "GetStatus"} \subseteq B
      /\ None \in C /\ None \in LifeAnswers /\ {} \in E
  BY DEF LifeSteps, LifeAnswers
<1> HIDE DEF B, C, E
<1> QED
  BY <1>1, <1>2 DEF Life!Refresh, Life!NoCall

\* A caller's record replaced by another.
LEMMA CallTaken ==
  ASSUME NEW c \in Life!Callers, NEW r \in Life!Calls,
         callers \in [Life!Callers -> Life!Calls], callers' = [callers EXCEPT ![c] = r]
  PROVE  /\ callers' \in [Life!Callers -> Life!Calls] /\ callers'[c] = r
         /\ \A d \in Life!Callers \ {c} : callers'[d] = callers[d]
OBVIOUS

\* A task that fails ends, unless it was an action on the tray: that goes on as a
\* refresh. A refresh that fails makes the tray usable.
LEMMA FailingCall ==
  ASSUME LifeAssumption, LifeShaped, NEW t \in Tasks, Life!Fail(t)
  PROVE  /\ callers' \in [Life!Callers -> Life!Calls]
              /\ \A d \in Life!Callers \ {t} : callers'[d] = callers[d]
         /\ tray' \in LifeTray
         /\ \/ /\ callers'[t].step = "lock" /\ callers'[t].kind = "GetStatus"
               /\ callers'[t].action = TRUE /\ tray' = tray
            \/ /\ callers'[t].step = "idle"
               /\ IF callers[t].action THEN tray'.webOn = TRUE ELSE tray' = tray
<1>1. /\ t \in Life!Callers /\ callers \in [Life!Callers -> Life!Calls]
      /\ callers[t].action \in BOOLEAN
  BY DEF LifeShaped, Life!Callers, Life!Calls
<1>2. Life!Usable \in LifeTray /\ Life!Usable.webOn = TRUE
  BY DEF Life!Usable, LifeTray
<1>3. Life!NoCall \in Life!Calls /\ Life!NoCall.step = "idle"
  BY NoCallIs
<1>4. CASE callers[t].action /\ callers[t].kind # "GetStatus"
  <2>1. callers' = [callers EXCEPT ![t] = Life!Refresh(t)] /\ tray' = tray
    BY <1>4 DEF Life!Fail
  <2>2. callers' \in [Life!Callers -> Life!Calls] /\ callers'[t] = Life!Refresh(t)
          /\ \A d \in Life!Callers \ {t} : callers'[d] = callers[d]
    BY <1>1, <2>1, CallTaken, Refreshing
  <2> QED
    BY <2>1, <2>2, Refreshing DEF LifeShaped
<1>5. CASE ~(callers[t].action /\ callers[t].kind # "GetStatus")
  <2>1. /\ callers' = [callers EXCEPT ![t] = Life!NoCall]
        /\ tray' = IF callers[t].action THEN Life!Usable ELSE tray
    BY <1>5 DEF Life!Fail
  <2>2. callers' \in [Life!Callers -> Life!Calls] /\ callers'[t] = Life!NoCall
          /\ \A d \in Life!Callers \ {t} : callers'[d] = callers[d]
    BY <1>1, <1>3, <2>1, CallTaken
  <2> QED
    BY <1>2, <1>3, <2>1, <2>2 DEF LifeShaped
<1> QED
  BY <1>4, <1>5

\* What the answers to the tray's requests show is a tray; those about the web
\* services make the web item clickable.
LEMMA TrayShown ==
  ASSUME LifeShaped,
         NEW k \in {"GetStatus", "StartAll", "StopAll", "StartMariaDb", "StopMariaDb"}
  PROVE  /\ Life!Shown(k) \in LifeTray
         /\ Life!Shown(k).webOn =
              IF k \in {"GetStatus", "StartAll", "StopAll"} THEN TRUE ELSE tray.webOn
<1> DEFINE W == {"Mixed", "Running", "Stopped"}
           M == {"NotInstalled", "Busy", "Running", "Stopped"}
           w == IF web # None THEN "Running" ELSE "Stopped"
           m == IF mariadb # None THEN "Running" ELSE "Stopped"
           T == [web : W, mariadb : M, webOn : BOOLEAN, mariadbOn : BOOLEAN]
<1>1. tray \in T
  BY DEF LifeShaped, LifeTray
<1>2. /\ w \in W /\ m \in M /\ "Running" \in W /\ "Stopped" \in W /\ "Running" \in M
      /\ "Stopped" \in M
  OBVIOUS
<1>3. /\ Life!Shown("GetStatus")
           = [tray EXCEPT !.web = w, !.webOn = TRUE, !.mariadb = m, !.mariadbOn = TRUE]
      /\ Life!Shown("StartAll") = [tray EXCEPT !.web = "Running", !.webOn = TRUE]
      /\ Life!Shown("StopAll") = [tray EXCEPT !.web = "Stopped", !.webOn = TRUE]
      /\ Life!Shown("StartMariaDb")
           = [tray EXCEPT !.mariadb = "Running", !.mariadbOn = TRUE]
      /\ Life!Shown("StopMariaDb") = [tray EXCEPT !.mariadb = "Stopped", !.mariadbOn = TRUE]
  BY DEF Life!Shown
<1> HIDE DEF W, M, w, m
<1>4. /\ Life!Shown("GetStatus") \in T /\ Life!Shown("GetStatus").webOn = TRUE
      /\ Life!Shown("StartAll") \in T /\ Life!Shown("StartAll").webOn = TRUE
      /\ Life!Shown("StopAll") \in T /\ Life!Shown("StopAll").webOn = TRUE
      /\ Life!Shown("StartMariaDb") \in T /\ Life!Shown("StartMariaDb").webOn = tray.webOn
      /\ Life!Shown("StopMariaDb") \in T /\ Life!Shown("StopMariaDb").webOn = tray.webOn
  BY <1>1, <1>2, <1>3
<1> QED
  BY <1>4 DEF W, M, LifeTray

\* Who no longer listens at the endpoint is displaced.
LEMMA LifeUnlinked ==
  ASSUME LifeShaped, Life!Unlink, Life!Displace \/ (Windows /\ displaced' = displaced)
  PROVE  /\ endpoint' \in {endpoint, None} /\ displaced \subseteq displaced'
         /\ \A a \in Life!Agents : endpoint = a /\ Life!Listening(a)
              => endpoint' = a \/ a \in displaced'
BY ReachedIs DEF Life!Unlink, Life!Displace, Life!Reached, LifeShaped, Life!Agents

\* An Agent process gets on with its start: what it finds at the endpoint, and the
\* bind.
LEMMA LifeComesUp ==
  ASSUME LifeAssumption, LifeInv, NEW a \in Life!Agents,
         NEW p \in {"free", "stale", "serving", "gone"},
         agents[a].phase \in {"preparing", "free", "stale"}, Life!Phase(a, p),
         \/ endpoint' = endpoint /\ displaced' = displaced
         \/ endpoint' = a /\ Life!Displace,
         UNCHANGED <<Life!services, desktop, startLock, callers, tray, halted>>
  PROVE  LifeInv' /\ Life!UpgradeRestarts
<1>1. /\ LifeShaped /\ QueueFits /\ CallsFit /\ LockHeld /\ Life!ShutdownLeavesNothing
      /\ FoundHeld /\ TrayPending /\ StartsDone
  BY DEF LifeInv
<1>w. /\ Tasks \subseteq Life!Callers /\ "cli" \in Life!Callers /\ "quit" \in Life!Callers
      /\ \A z \in Tasks : z # "cli" /\ z # "quit"
      /\ None \notin Life!Agents /\ callers["quit"].found \in Life!Agents \cup {None}
  BY <1>1, LifeWho, FoundWho
<1>2. /\ agents' \in [Life!Agents -> LifeProcess]
      /\ agents'[a].phase = p /\ agents'[a].queue = agents[a].queue
      /\ \A b \in Life!Agents \ {a} : agents'[b] = agents[b]
  <2>1. agents' \in [Life!Agents -> LifeProcess]
    BY <1>1, ProcessAltered DEF Life!Phase, LifeShaped, LifePhases
  <2>2. agents'[a].phase = p /\ agents'[a].queue = agents[a].queue
    BY <1>1 DEF Life!Phase, LifeShaped, LifeProcess
  <2>3. \A b \in Life!Agents \ {a} : agents'[b] = agents[b]
    BY <1>1 DEF Life!Phase, LifeShaped
  <2> QED
    BY <2>1, <2>2, <2>3
<1>3. /\ Life!Reached # None => endpoint = Life!Reached /\ Life!Listening(Life!Reached)
      /\ endpoint # None /\ Life!Listening(endpoint) => Life!Reached = endpoint
  BY <1>1, ReachedIs
<1>4. /\ UNCHANGED <<web, mariadb, desktop, startLock, callers, tray, halted>>
      /\ endpoint' \in {endpoint, a} /\ displaced \subseteq displaced'
      /\ endpoint' = endpoint \/ Life!Reached = None \/ Life!Reached \in displaced'
  BY DEF Life!services, Life!Displace
<1>5. LifeShaped' /\ CallsFit' /\ LockHeld' /\ Life!ShutdownLeavesNothing'
  BY <1>1, <1>2, <1>4 DEF LifeShaped, CallsFit, LockHeld, Life!ShutdownLeavesNothing
<1>q. QueueFits'
  <2>1. \A b \in Life!Agents : agents'[b].queue = agents[b].queue
    BY <1>2
  <2> QED
    BY <1>1, <1>4, <2>1, QueuesUntouched
<1>7. FoundHeld' /\ TrayPending' /\ StartsDone'
  BY <1>1, <1>w, <1>2, <1>3, <1>4 DEF FoundHeld, Life!Quit, Life!Listening, TrayPending,
     StartsDone, Back
<1>6. Life!UpgradeRestarts
  BY DEF Life!UpgradeRestarts
<1> QED
  BY <1>5, <1>q, <1>6, <1>7 DEF LifeInv

\* An Agent process ends: every caller behind its queue loses its connection.
LEMMA LifeEnds ==
  ASSUME LifeAssumption, LifeInv, NEW a \in Life!Agents,
         agents[a].phase \notin {"none", "gone"},
         agents' = [agents EXCEPT ![a].phase = "gone", ![a].queue = <<>>], Life!Cut(a),
         \/ endpoint' = endpoint
         \/ endpoint' = None /\ (endpoint = a \/ ~Windows),
         displaced \subseteq displaced',
         endpoint' # endpoint /\ Life!Reached # a /\ Life!Reached # None
           => Life!Reached \in displaced',
         UNCHANGED <<Life!services, desktop, startLock, tray, halted>>
  PROVE  LifeInv' /\ Life!UpgradeRestarts
<1>1. /\ LifeShaped /\ QueueFits /\ CallsFit /\ LockHeld /\ Life!ShutdownLeavesNothing
      /\ FoundHeld /\ TrayPending /\ StartsDone
  BY DEF LifeInv
<1>w. /\ Tasks \subseteq Life!Callers /\ "cli" \in Life!Callers /\ "quit" \in Life!Callers
      /\ \A z \in Tasks : z # "cli" /\ z # "quit"
      /\ None \notin Life!Agents /\ callers["quit"].found \in Life!Agents \cup {None}
  BY <1>1, LifeWho, FoundWho
<1>2. /\ agents' \in [Life!Agents -> LifeProcess]
      /\ agents'[a].phase = "gone" /\ agents'[a].queue = <<>>
      /\ \A b \in Life!Agents \ {a} : agents'[b] = agents[b]
  <2>1. agents' \in [Life!Agents -> LifeProcess]
    <3>1. "gone" \in LifePhases /\ <<>> \in Seq(LifeQueued)
      BY DEF LifePhases
    <3> QED
      BY <1>1, <3>1, ProcessAltered DEF LifeShaped
  <2>2. agents'[a].phase = "gone" /\ agents'[a].queue = <<>>
    BY <1>1 DEF LifeShaped, LifeProcess
  <2>3. \A b \in Life!Agents \ {a} : agents'[b] = agents[b]
    BY <1>1 DEF LifeShaped
  <2> QED
    BY <2>1, <2>2, <2>3
<1>3. /\ Life!Reached # None => endpoint = Life!Reached /\ Life!Listening(Life!Reached)
      /\ endpoint # None /\ Life!Listening(endpoint) => Life!Reached = endpoint
  BY <1>1, ReachedIs
<1>4. UNCHANGED <<web, mariadb, desktop, startLock, tray, halted>>
  BY DEF Life!services
<1> DEFINE waiting == {agents[a].queue[i].from : i \in DOMAIN agents[a].queue}
<1>5. callers' = [c \in Life!Callers |->
                    IF c \in waiting THEN [callers[c] EXCEPT !.answer = "lost"]
                    ELSE callers[c]]
  BY DEF Life!Cut
<1>6. /\ \A c \in Life!Callers : c \notin waiting => callers'[c] = callers[c]
      /\ \A c \in Life!Callers : callers'[c] \in Life!Calls
  <2>1. \A c \in Life!Callers :
          callers[c] \in Life!Calls /\ [callers[c] EXCEPT !.answer = "lost"] \in Life!Calls
    BY <1>1, CallLost DEF LifeShaped, LifeAnswers
  <2> HIDE DEF waiting
  <2> QED
    BY <1>5, <2>1
<1>f. \A c \in Life!Callers :
        /\ callers'[c].step = callers[c].step /\ callers'[c].kind = callers[c].kind
        /\ callers'[c].agent = callers[c].agent /\ callers'[c].found = callers[c].found
        /\ callers'[c].restart = callers[c].restart
        /\ callers'[c].action = callers[c].action
        /\ (callers'[c].answer = callers[c].answer \/ callers'[c].answer = "lost")
  <2> SUFFICES ASSUME NEW c \in Life!Callers
               PROVE  /\ callers'[c].step = callers[c].step /\ callers'[c].kind = callers[c].kind
                      /\ callers'[c].agent = callers[c].agent /\ callers'[c].found = callers[c].found
                      /\ callers'[c].restart = callers[c].restart
                      /\ callers'[c].action = callers[c].action
                      /\ (callers'[c].answer = callers[c].answer \/ callers'[c].answer = "lost")
    OBVIOUS
  <2>1. CASE c \notin waiting
    BY <1>6, <2>1
  <2>2. CASE c \in waiting
    <3>1. callers'[c] = [callers[c] EXCEPT !.answer = "lost"]
      BY <1>5, <2>2, Zenon
    <3>2. callers[c] \in Life!Calls
      BY <1>1 DEF LifeShaped
    <3> QED
      BY <3>1, <3>2 DEF Life!Calls
  <2> QED
    BY <2>1, <2>2
<1>k. callers'["quit"].step = "idle"
        => callers'["quit"].agent = None /\ callers'["quit"].answer = None
  <2>1. CASE "quit" \in waiting
    <3>1. PICK i \in DOMAIN agents[a].queue : agents[a].queue[i].from = "quit"
      BY <2>1
    <3>2. "quit" # None
      BY <1>w, LifeWho
    <3>3. Awaits(callers["quit"], agents[a].queue[i].kind)
      BY <1>1, <3>1, <3>2 DEF QueueFits
    <3>4. callers["quit"].step # "idle"
      BY <3>3 DEF Awaits
    <3> QED
      BY <1>f, <1>w, <3>4
  <2>2. CASE "quit" \notin waiting
    BY <1>1, <1>w, <1>6, <2>2 DEF CallsFit
  <2> QED
    BY <2>1, <2>2
<1> HIDE DEF waiting
<1>7. LifeShaped'
  <2>1. callers' = [c \in Life!Callers |-> callers'[c]]
    BY <1>5
  <2>2. callers' \in [Life!Callers -> Life!Calls]
    BY <1>6, <2>1
  <2> QED
    BY <1>1, <1>2, <1>4, <2>2 DEF LifeShaped
<1>8. QueueFits'
  <2>1. \A b \in Life!Agents \ {a} : \A i \in DOMAIN agents[b].queue :
          agents[b].queue[i].from \in Life!Callers
            => agents[b].queue[i].from \notin waiting
    <3> SUFFICES ASSUME NEW b \in Life!Agents \ {a}, NEW i \in DOMAIN agents[b].queue,
                        agents[b].queue[i].from \in Life!Callers,
                        NEW j \in DOMAIN agents[a].queue,
                        agents[a].queue[j].from = agents[b].queue[i].from
                 PROVE  FALSE
      BY DEF waiting
    <3>1. agents[b].queue[i].from # None
      BY LifeWho
    <3>2. callers[agents[b].queue[i].from].agent = b
      BY <1>1, <3>1 DEF QueueFits
    <3>3. callers[agents[a].queue[j].from].agent = a
      BY <1>1, <3>1 DEF QueueFits
    <3> QED
      BY <3>2, <3>3
  <2>2. \A b \in Life!Agents : \A i \in DOMAIN agents[b].queue :
          agents[b].queue[i].from \in Life!Callers \cup {None}
    BY <1>1, QueueTyped
  <2>3. ASSUME NEW b \in Life!Agents, NEW i \in DOMAIN agents'[b].queue,
               agents'[b].queue[i].from # None
        PROVE  /\ callers'[agents'[b].queue[i].from].agent = b
               /\ callers'[agents'[b].queue[i].from].answer = None
               /\ Awaits(callers'[agents'[b].queue[i].from], agents'[b].queue[i].kind)
               /\ \A j \in DOMAIN agents'[b].queue : j # i
                    => agents'[b].queue[j].from # agents'[b].queue[i].from
    <3>1. b # a /\ agents'[b] = agents[b]
      BY <1>2, <2>3
    <3>2. i \in DOMAIN agents[b].queue /\ agents[b].queue[i].from # None
      BY <2>3, <3>1
    <3>3. callers'[agents[b].queue[i].from] = callers[agents[b].queue[i].from]
      BY <1>6, <2>1, <2>2, <3>1, <3>2
    <3>4. /\ callers[agents[b].queue[i].from].agent = b
          /\ callers[agents[b].queue[i].from].answer = None
          /\ Awaits(callers[agents[b].queue[i].from], agents[b].queue[i].kind)
          /\ \A j \in DOMAIN agents[b].queue : j # i
               => agents[b].queue[j].from # agents[b].queue[i].from
      BY <1>1, <3>2 DEF QueueFits
    <3> QED
      BY <3>1, <3>3, <3>4
  <2> QED
    BY <2>3, QueueFitsNext
<1>9. /\ CallsFit' /\ LockHeld' /\ Life!ShutdownLeavesNothing' /\ FoundHeld'
      /\ TrayPending' /\ StartsDone'
  BY <1>1, <1>w, <1>f, <1>4, <1>k, <1>2, <1>3 DEF CallsFit, LockHeld,
     Life!ShutdownLeavesNothing, FoundHeld, Life!Quit, Life!Listening, TrayPending,
     Refreshes, StartsDone, Back
<1>10. Life!UpgradeRestarts
  BY <1>w, <1>f DEF Life!UpgradeRestarts
<1> QED
  BY <1>7, <1>8, <1>9, <1>10 DEF LifeInv

\* A caller sends a request to the Agent it reaches, or finds nobody there.
LEMMA LifeSends ==
  ASSUME LifeAssumption, LifeInv, NEW c \in Life!Callers, NEW kind \in LifeAsked,
         Awaits(callers[c], kind), Life!Send(c, kind)
  PROVE  LifeInv' /\ Life!UpgradeRestarts
<1>1. /\ LifeShaped /\ QueueFits /\ CallsFit /\ LockHeld /\ Life!ShutdownLeavesNothing
      /\ FoundHeld /\ TrayPending /\ StartsDone
  BY DEF LifeInv
<1>w. /\ Tasks \subseteq Life!Callers /\ "cli" \in Life!Callers /\ "quit" \in Life!Callers
      /\ \A z \in Tasks : z # "cli" /\ z # "quit"
      /\ None \notin Life!Agents /\ callers["quit"].found \in Life!Agents \cup {None}
  BY <1>1, LifeWho, FoundWho
<1>2. /\ Life!Reached \in Life!Agents \cup {None}
      /\ Life!Unsent(c)
      /\ callers' = [callers EXCEPT ![c].agent = Life!Reached,
           ![c].answer = IF Life!Reached = None THEN "lost" ELSE None]
      /\ agents' = IF Life!Reached = None THEN agents
                   ELSE [agents EXCEPT ![Life!Reached].queue =
                           Append(agents[Life!Reached].queue, [from |-> c, kind |-> kind])]
      /\ UNCHANGED <<endpoint, web, mariadb, desktop, startLock, tray, displaced, halted>>
  BY <1>1, ReachedIs DEF Life!Send, Life!services
<1>3. /\ \A d \in Life!Callers \ {c} : callers'[d] = callers[d]
      /\ callers'[c].agent = Life!Reached /\ callers'[c].answer \in {"lost", None}
      /\ (Life!Reached # None => callers'[c].answer = None)
      /\ callers'[c].step = callers[c].step /\ callers'[c].kind = callers[c].kind
      /\ callers'[c].restart = callers[c].restart /\ callers'[c].found = callers[c].found
      /\ callers'[c].action = callers[c].action
  <2>1. callers[c] \in Life!Calls /\ callers \in [Life!Callers -> Life!Calls]
    BY <1>1 DEF LifeShaped
  <2>2. \A d \in Life!Callers \ {c} : callers'[d] = callers[d]
    BY <1>2, <2>1
  <2>3. callers'[c] = [callers[c] EXCEPT !.agent = Life!Reached,
                         !.answer = IF Life!Reached = None THEN "lost" ELSE None]
    BY <1>2, <2>1, Zenon
  <2> QED
    BY <2>1, <2>2, <2>3 DEF Life!Calls
<1>4. callers' \in [Life!Callers -> Life!Calls]
  <2>1. \A w \in LifeAnswers :
          [callers EXCEPT ![c].agent = Life!Reached, ![c].answer = w]
            \in [Life!Callers -> Life!Calls]
    BY <1>1, <1>2, CallsAltered DEF LifeShaped
  <2>2. (IF Life!Reached = None THEN "lost" ELSE None) \in LifeAnswers
    BY DEF LifeAnswers
  <2> QED
    BY <1>2, <2>1, <2>2, Zenon
<1>5. /\ agents' \in [Life!Agents -> LifeProcess]
      /\ \A b \in Life!Agents : agents'[b].phase = agents[b].phase
      /\ \A b \in Life!Agents \ {Life!Reached} : agents'[b] = agents[b]
      /\ Life!Reached # None
           => agents'[Life!Reached].queue =
                Append(agents[Life!Reached].queue, [from |-> c, kind |-> kind])
  <2>1. CASE Life!Reached = None
    BY <1>1, <1>2, <2>1 DEF LifeShaped
  <2>2. CASE Life!Reached # None
    <3>1. /\ Life!Reached \in Life!Agents
          /\ agents' = [agents EXCEPT ![Life!Reached].queue =
                          Append(agents[Life!Reached].queue, [from |-> c, kind |-> kind])]
      BY <1>2, <2>2
    <3>2. Append(agents[Life!Reached].queue, [from |-> c, kind |-> kind])
            \in Seq(LifeQueued)
      <4>1. /\ [from |-> c, kind |-> kind] \in LifeQueued
            /\ agents[Life!Reached].queue \in Seq(LifeQueued)
        BY <1>1, <3>1, QueueTyped DEF LifeQueued
      <4> QED
        BY <4>1
    <3>3. agents' \in [Life!Agents -> LifeProcess]
      BY <1>1, <3>1, <3>2, ProcessAltered DEF LifeShaped
    <3> HIDE DEF Life!Reached
    <3> QED
      BY <1>1, <3>1, <3>3 DEF LifeShaped, LifeProcess
  <2> QED
    BY <2>1, <2>2
<1>g. \A d \in Life!Callers :
        /\ callers'[d].step = callers[d].step /\ callers'[d].kind = callers[d].kind
        /\ callers'[d].restart = callers[d].restart /\ callers'[d].found = callers[d].found
        /\ callers'[d].action = callers[d].action
        /\ callers'[d].answer = "ok" => callers[d].answer = "ok"
  <2>1. None # "ok"
    BY DEF LifeAssumption
  <2> SUFFICES ASSUME NEW d \in Life!Callers
               PROVE  /\ callers'[d].step = callers[d].step
                      /\ callers'[d].kind = callers[d].kind
                      /\ callers'[d].restart = callers[d].restart
                      /\ callers'[d].found = callers[d].found
                      /\ callers'[d].action = callers[d].action
                      /\ callers'[d].answer = "ok" => callers[d].answer = "ok"
    OBVIOUS
  <2>2. CASE d = c
    BY <1>3, <2>1, <2>2
  <2>3. CASE d # c
    <3>1. callers'[d] = callers[d]
      BY <1>3, <2>3
    <3> QED
      BY <3>1
  <2> QED
    BY <2>2, <2>3
<1>h. UNCHANGED <<endpoint, web, mariadb, desktop, startLock, tray, displaced, halted>>
  BY <1>2
<1>i. \A b \in Life!Agents : agents'[b].phase = agents[b].phase
  BY <1>5
<1>k. callers'["quit"].step = "idle"
        => callers'["quit"].agent = None /\ callers'["quit"].answer = None
  <2>1. CASE c = "quit"
    BY <1>3, <2>1 DEF Awaits
  <2>2. CASE c # "quit"
    BY <1>1, <1>w, <1>3, <2>2 DEF CallsFit
  <2> QED
    BY <2>1, <2>2
<1>6. /\ LifeShaped' /\ CallsFit' /\ LockHeld' /\ Life!ShutdownLeavesNothing'
      /\ FoundHeld' /\ TrayPending' /\ StartsDone'
  BY <1>1, <1>w, <1>4, <1>5, <1>g, <1>h, <1>k DEF LifeShaped, CallsFit, LockHeld,
     Life!ShutdownLeavesNothing, FoundHeld, Life!Quit, Life!Listening, TrayPending,
     Refreshes, StartsDone, Back
<1>7. QueueFits'
  <2>1. Silent(c)
    BY <1>1, <1>2, LifeWho DEF QueueFits, Silent, Life!Unsent
  <2>2. CASE Life!Reached = None
    <3>1. \A b \in Life!Agents : agents'[b].queue = agents[b].queue
      BY <1>5, <1>w, <2>2
    <3>2. (\A d \in {c} : Silent(d))
            /\ \A d \in Life!Callers \ {c} : callers'[d] = callers[d]
      BY <1>3, <2>1
    <3> QED
      BY <1>1, <3>1, <3>2, QueuesStayFor
  <2>3. CASE Life!Reached # None
    <3> DEFINE q == agents[Life!Reached].queue
               e == [from |-> c, kind |-> kind]
    <3>1. /\ Life!Reached \in Life!Agents /\ q \in Seq(LifeQueued)
          /\ agents'[Life!Reached].queue = Append(q, e)
      BY <1>1, <1>2, <1>5, <2>3, QueueTyped
    <3>2. /\ DOMAIN agents'[Life!Reached].queue = 1..(Len(q) + 1) /\ DOMAIN q = 1..Len(q)
          /\ Len(q) \in Nat
          /\ agents'[Life!Reached].queue[Len(q) + 1] = e
          /\ \A i \in 1..Len(q) : agents'[Life!Reached].queue[i] = q[i]
      BY <3>1
    <3>3. ASSUME NEW b \in Life!Agents, NEW i \in DOMAIN agents'[b].queue,
                   agents'[b].queue[i].from # None
          PROVE  /\ callers'[agents'[b].queue[i].from].agent = b
                 /\ callers'[agents'[b].queue[i].from].answer = None
                 /\ Awaits(callers'[agents'[b].queue[i].from], agents'[b].queue[i].kind)
                 /\ \A j \in DOMAIN agents'[b].queue : j # i
                      => agents'[b].queue[j].from # agents'[b].queue[i].from
      <4>1. CASE b = Life!Reached /\ i = Len(q) + 1
        <5>1. agents'[b].queue[i] = e /\ e.from = c /\ e.kind = kind
          BY <3>2, <4>1
        <5>2. \A j \in DOMAIN agents'[b].queue : j # i => agents'[b].queue[j].from # c
          <6>1. \A j \in DOMAIN q : q[j].from # c
            BY <2>1, <3>1 DEF Silent
          <6>2. \A j \in 1..(Len(q) + 1) : j # Len(q) + 1 => j \in 1..Len(q)
            BY <3>2
          <6>3. \A j \in DOMAIN agents'[Life!Reached].queue : j # Len(q) + 1
                  => agents'[Life!Reached].queue[j] = q[j] /\ j \in DOMAIN q
            BY <3>2, <6>2
          <6> QED
            BY <4>1, <6>1, <6>3
        <5>3. Awaits(callers'[c], kind)
          BY <1>3 DEF Awaits
        <5> QED
          BY <1>3, <2>3, <4>1, <5>1, <5>2, <5>3
      <4>2. CASE b = Life!Reached /\ i # Len(q) + 1
        <5>0. i \in 1..(Len(q) + 1) /\ i # Len(q) + 1
          BY <3>2, <4>2
        <5>a. i \in 1..Len(q)
          BY <3>2, <5>0
        <5>1. i \in DOMAIN q /\ agents'[b].queue[i] = q[i]
          BY <3>2, <4>2, <5>a
        <5>2. q[i].from \in Life!Callers /\ q[i].from # c
          <6>1. q[i].from \in Life!Callers \cup {None}
            BY <1>1, <3>1, <5>1, QueueTyped
          <6>2. q[i].from # c
            BY <2>1, <3>1, <5>1 DEF Silent
          <6> QED
            BY <3>3, <5>1, <6>1, <6>2
        <5>3. /\ callers[q[i].from].agent = b /\ callers[q[i].from].answer = None
              /\ Awaits(callers[q[i].from], q[i].kind)
              /\ \A j \in DOMAIN q : j # i => q[j].from # q[i].from
          <6>1. q = agents[b].queue /\ i \in DOMAIN agents[b].queue /\ q[i].from # None
            BY <3>3, <4>2, <5>1
          <6> HIDE DEF q
          <6> QED
            BY <1>1, <6>1 DEF QueueFits
        <5> QED
          <6>1. callers'[q[i].from] = callers[q[i].from]
            BY <1>3, <5>2
          <6>2. \A j \in DOMAIN agents'[b].queue : j # i
                  => agents'[b].queue[j].from # q[i].from
            <7>0. DOMAIN agents'[b].queue = 1..(Len(q) + 1)
              BY <3>2, <4>2
            <7>1. \A j \in DOMAIN agents'[b].queue : j = Len(q) + 1 \/ j \in DOMAIN q
              <8>1. \A j \in 1..(Len(q) + 1) : j = Len(q) + 1 \/ j \in 1..Len(q)
                BY <3>2
              <8> QED
                BY <3>2, <7>0, <8>1
            <7>2. \A j \in DOMAIN q : agents'[b].queue[j] = q[j]
              BY <3>2, <4>2
            <7>3. agents'[b].queue[Len(q) + 1].from = c
              BY <3>2, <4>2
            <7> QED
              BY <5>2, <5>3, <7>1, <7>2, <7>3
          <6> QED
            BY <5>1, <5>3, <6>1, <6>2
      <4>3. CASE b # Life!Reached
        <5>1. agents'[b] = agents[b]
          BY <1>5, <4>3
        <5>2. agents[b].queue[i].from \in Life!Callers /\ agents[b].queue[i].from # c
          BY <1>1, <3>3, <5>1, <2>1, QueueTyped DEF Silent
        <5>3. /\ callers[agents[b].queue[i].from].agent = b
              /\ callers[agents[b].queue[i].from].answer = None
              /\ Awaits(callers[agents[b].queue[i].from], agents[b].queue[i].kind)
              /\ \A j \in DOMAIN agents[b].queue : j # i
                   => agents[b].queue[j].from # agents[b].queue[i].from
          BY <1>1, <3>3, <5>1 DEF QueueFits
        <5>4. callers'[agents[b].queue[i].from] = callers[agents[b].queue[i].from]
          BY <1>3, <5>2
        <5> QED
          BY <5>1, <5>3, <5>4
      <4> QED
        BY <4>1, <4>2, <4>3
    <3> QED
      BY <3>3, QueueFitsNext
  <2> QED
    BY <2>2, <2>3
<1>8. Life!UpgradeRestarts
  BY <1>w, <1>g DEF Life!UpgradeRestarts
<1> QED
  BY <1>6, <1>7, <1>8 DEF LifeInv

\* An Agent serves the request at the head of its queue.
LEMMA LifeServe ==
  ASSUME LifeAssumption, LifeInv, NEW a \in Life!Agents, Life!Serve(a)
  PROVE  LifeInv' /\ Life!UpgradeRestarts
<1>1. /\ LifeShaped /\ QueueFits /\ CallsFit /\ LockHeld /\ Life!ShutdownLeavesNothing
      /\ FoundHeld /\ TrayPending /\ StartsDone
  BY DEF LifeInv
<1>w. /\ Tasks \subseteq Life!Callers /\ "cli" \in Life!Callers /\ "quit" \in Life!Callers
      /\ \A z \in Tasks : z # "cli" /\ z # "quit"
      /\ None \notin Life!Agents /\ callers["quit"].found \in Life!Agents \cup {None}
  BY <1>1, LifeWho, FoundWho
<1> DEFINE q == agents[a].queue
           r == Head(q)
<1>2. PICK w \in {"ok", "error"} :
        /\ Life!Outcome(a, r.kind, w)
        /\ agents' = [agents EXCEPT ![a].queue = Tail(@),
                 ![a].phase = IF r.kind = "Shutdown" /\ w = "ok" THEN "closing" ELSE @]
        /\ callers' = IF r.from = None THEN callers
                       ELSE [callers EXCEPT ![r.from].answer = w]
  BY DEF Life!Serve
<1>3. /\ Life!Listening(a) /\ q # <<>> /\ q \in Seq(LifeQueued) /\ DOMAIN q = 1..Len(q)
      /\ 1 \in DOMAIN q
      /\ r = q[1] /\ r.from \in Life!Callers \cup {None} /\ r.kind \in LifeAsked
      /\ UNCHANGED <<endpoint, desktop, startLock, tray, displaced>>
  <2>1. q \in Seq(LifeQueued) /\ q # <<>> /\ DOMAIN q = 1..Len(q)
    BY <1>1, QueueTyped DEF Life!Serve
  <2>2. 1 \in DOMAIN q /\ r = q[1]
    BY <2>1
  <2> QED
    BY <1>1, <2>1, <2>2, QueueTyped DEF Life!Serve
<1>4. LET p == IF r.kind = "Shutdown" /\ w = "ok" THEN "closing" ELSE agents[a].phase IN
      /\ agents' \in [Life!Agents -> LifeProcess]
      /\ agents'[a].phase = p /\ agents'[a].queue = Tail(q)
      /\ \A b \in Life!Agents \ {a} : agents'[b] = agents[b]
  <2> DEFINE p == IF r.kind = "Shutdown" /\ w = "ok" THEN "closing" ELSE agents[a].phase
  <2>1. agents' = [agents EXCEPT ![a].queue = Tail(q), ![a].phase = p]
    BY <1>2, Zenon
  <2>2. p \in LifePhases /\ Tail(q) \in Seq(LifeQueued)
    BY <1>1, <1>3 DEF LifeShaped, LifeProcess, LifePhases
  <2> HIDE DEF p, q
  <2>3. agents' \in [Life!Agents -> LifeProcess]
    BY <1>1, <2>1, <2>2, ProcessAltered DEF LifeShaped
  <2>4. agents'[a].phase = p /\ agents'[a].queue = Tail(q)
    BY <1>1, <2>1 DEF LifeShaped, LifeProcess
  <2>5. \A b \in Life!Agents \ {a} : agents'[b] = agents[b]
    BY <1>1, <2>1 DEF LifeShaped
  <2> QED
    BY <2>3, <2>4, <2>5 DEF p, q
<1>5. /\ callers' \in [Life!Callers -> Life!Calls]
      /\ \A d \in Life!Callers \ {r.from} : callers'[d] = callers[d]
      /\ r.from # None =>
           /\ callers'[r.from].answer = w
           /\ callers'[r.from].step = callers[r.from].step
           /\ callers'[r.from].kind = callers[r.from].kind
           /\ callers'[r.from].restart = callers[r.from].restart
           /\ callers'[r.from].found = callers[r.from].found
           /\ callers'[r.from].action = callers[r.from].action
  <2>1. CASE r.from = None
    BY <1>1, <1>2, <1>w, <2>1 DEF LifeShaped
  <2>2. CASE r.from # None
    <3>1. /\ r.from \in Life!Callers /\ callers' = [callers EXCEPT ![r.from].answer = w]
          /\ w \in LifeAnswers
      BY <1>2, <1>3, <2>2 DEF LifeAnswers
    <3> HIDE DEF r
    <3>2. callers' \in [Life!Callers -> Life!Calls]
      BY <1>1, <3>1, CallsAltered DEF LifeShaped
    <3> QED
      BY <1>1, <3>1, <3>2 DEF LifeShaped, Life!Calls
  <2> QED
    BY <2>1, <2>2
<1>6. /\ halted \subseteq halted'
      /\ web' \in {web, a, None} /\ mariadb' \in {mariadb, a, None}
      /\ web' = None => web = None \/ "web" \in halted'
      /\ mariadb' = None => mariadb = None \/ "mariadb" \in halted'
      /\ Life!Refuses(a) => web' = web /\ mariadb' = mariadb
      /\ w = "ok" /\ r.kind = "StartAll" => web' # None
      /\ w = "ok" /\ r.kind = "StartMariaDb" => mariadb' # None
      /\ w = "ok" /\ r.kind = "Shutdown" /\ ~Life!Refuses(a)
           => web' = None /\ mariadb' = None
  BY <1>1, <1>2, <1>3, OutcomeSays
<1>f. r.from # None =>
        /\ callers[r.from].agent = a /\ callers[r.from].answer = None
        /\ Awaits(callers[r.from], r.kind)
  BY <1>1, <1>3 DEF QueueFits
<1> HIDE DEF q, r
<1>g. \A d \in Life!Callers :
        /\ callers'[d].step = callers[d].step /\ callers'[d].kind = callers[d].kind
        /\ callers'[d].restart = callers[d].restart /\ callers'[d].found = callers[d].found
        /\ callers'[d].action = callers[d].action
        /\ callers'[d].answer = callers[d].answer \/ (d = r.from /\ callers'[d].answer = w)
  <2> SUFFICES ASSUME NEW d \in Life!Callers
               PROVE  /\ callers'[d].step = callers[d].step
                      /\ callers'[d].kind = callers[d].kind
                      /\ callers'[d].restart = callers[d].restart
                      /\ callers'[d].found = callers[d].found
                      /\ callers'[d].action = callers[d].action
                      /\ callers'[d].answer = callers[d].answer
                           \/ (d = r.from /\ callers'[d].answer = w)
    OBVIOUS
  <2>1. d # None
    BY LifeWho
  <2>2. CASE d = r.from
    BY <1>5, <2>1, <2>2
  <2>3. CASE d # r.from
    <3>1. callers'[d] = callers[d]
      BY <1>5, <2>3
    <3> QED
      BY <3>1
  <2> QED
    BY <2>2, <2>3
<1>h. UNCHANGED <<endpoint, desktop, startLock, tray, displaced>>
  BY <1>3
<1>i. \A b \in Life!Agents :
        \/ agents'[b].phase = agents[b].phase
        \/ b = a /\ agents'[b].phase = "closing" /\ r.kind = "Shutdown" /\ w = "ok"
  <2>1. \A b \in Life!Agents \ {a} : agents'[b].phase = agents[b].phase
    BY <1>4
  <2>2. \/ agents'[a].phase = agents[a].phase
        \/ agents'[a].phase = "closing" /\ r.kind = "Shutdown" /\ w = "ok"
    BY <1>4, Zenon
  <2> QED
    BY <2>1, <2>2, Zenon
<1>j. \A b \in Life!Agents :
        /\ agents[b].phase = "gone" => agents'[b].phase = "gone"
        /\ Life!Listening(b) => agents'[b].phase \in {"serving", "closing"}
  BY <1>3, <1>i DEF Life!Listening
<1>k. callers'["quit"].step = "idle"
        => callers'["quit"].agent = None /\ callers'["quit"].answer = None
  <2>1. CASE r.from = "quit"
    <3>1. callers["quit"].step # "idle" /\ callers'["quit"].step = callers["quit"].step
      BY <1>f, <1>g, <1>w, <2>1, LifeWho DEF Awaits
    <3> QED
      BY <3>1
  <2>2. CASE r.from # "quit"
    BY <1>1, <1>w, <1>5, <2>2 DEF CallsFit
  <2> QED
    BY <2>1, <2>2
<1>7. LifeShaped' /\ CallsFit' /\ LockHeld' /\ Life!ShutdownLeavesNothing' /\ TrayPending'
  BY <1>1, <1>w, <1>4, <1>5, <1>6, <1>g, <1>h, <1>k DEF LifeShaped, CallsFit, LockHeld,
     Life!ShutdownLeavesNothing, Life!Refuses, TrayPending, Refreshes, Life!Quit
<1>8. QueueFits'
  <2>1. \A i \in DOMAIN Tail(q) : i + 1 \in DOMAIN q /\ i + 1 # 1 /\ Tail(q)[i] = q[i + 1]
    BY <1>3
  <2>2. ASSUME NEW b \in Life!Agents, NEW i \in DOMAIN agents'[b].queue,
                 agents'[b].queue[i].from # None
        PROVE  /\ callers'[agents'[b].queue[i].from].agent = b
                 /\ callers'[agents'[b].queue[i].from].answer = None
                 /\ Awaits(callers'[agents'[b].queue[i].from], agents'[b].queue[i].kind)
                 /\ \A j \in DOMAIN agents'[b].queue : j # i
                      => agents'[b].queue[j].from # agents'[b].queue[i].from
    <3>1. CASE b = a
      <4>1. /\ i \in DOMAIN Tail(q) /\ agents'[b].queue = Tail(q)
            /\ agents'[b].queue[i] = q[i + 1] /\ i + 1 \in DOMAIN q
        BY <1>4, <2>1, <2>2, <3>1
      <4>2. /\ q[i + 1].from \in Life!Callers /\ q[i + 1].from # r.from
            /\ callers[q[i + 1].from].agent = b /\ callers[q[i + 1].from].answer = None
            /\ Awaits(callers[q[i + 1].from], q[i + 1].kind)
        <5>1. q[i + 1].from \in Life!Callers \cup {None} /\ q[i + 1].from # None
          BY <1>1, <2>2, <4>1, QueueTyped DEF q
        <5>2. /\ callers[q[i + 1].from].agent = a /\ callers[q[i + 1].from].answer = None
              /\ Awaits(callers[q[i + 1].from], q[i + 1].kind)
              /\ \A j \in DOMAIN q : j # i + 1 => q[j].from # q[i + 1].from
          BY <1>1, <4>1, <5>1 DEF QueueFits, q
        <5>3. 1 \in DOMAIN q /\ 1 # i + 1 /\ q[1] = r
          BY <1>3, <2>1, <4>1
        <5> QED
          BY <3>1, <5>1, <5>2, <5>3
      <4>3. \A j \in DOMAIN Tail(q) : j # i => q[j + 1].from # q[i + 1].from
        <5> SUFFICES ASSUME NEW j \in DOMAIN Tail(q), j # i
                     PROVE  q[j + 1].from # q[i + 1].from
          OBVIOUS
        <5>1. j + 1 \in DOMAIN q /\ j + 1 # i + 1
          BY <1>3, <2>1, <4>1
        <5> QED
          BY <1>1, <2>2, <3>1, <4>1, <5>1 DEF QueueFits, q
      <4> QED
        BY <1>5, <2>1, <4>1, <4>2, <4>3
    <3>2. CASE b # a
      <4>1. agents'[b] = agents[b]
        BY <1>4, <3>2
      <4>2. agents[b].queue[i].from \in Life!Callers /\ agents[b].queue[i].from # r.from
        BY <1>1, <1>f, <2>2, <3>2, <4>1, QueueTyped DEF QueueFits
      <4>3. callers'[agents[b].queue[i].from] = callers[agents[b].queue[i].from]
        BY <1>5, <4>2
      <4>4. i \in DOMAIN agents[b].queue /\ agents[b].queue[i].from # None
        BY <2>2, <4>1
      <4>5. /\ callers[agents[b].queue[i].from].agent = b
            /\ callers[agents[b].queue[i].from].answer = None
            /\ Awaits(callers[agents[b].queue[i].from], agents[b].queue[i].kind)
            /\ \A j \in DOMAIN agents[b].queue : j # i
                 => agents[b].queue[j].from # agents[b].queue[i].from
        BY <1>1, <4>4 DEF QueueFits
      <4> QED
        BY <4>1, <4>3, <4>5
    <3> QED
      BY <3>1, <3>2
  <2> QED
    BY <2>2, QueueFitsNext
<1>9. FoundHeld'
  <2>1. /\ callers'["quit"].step = callers["quit"].step
        /\ callers'["quit"].found = callers["quit"].found
        /\ callers["quit"].found \in Life!Agents \cup {None}
    BY <1>w, <1>g
  <2>2. CASE callers["quit"].found = None
    BY <2>1, <2>2 DEF FoundHeld, Life!Quit
  <2>3. CASE callers["quit"].found \in Life!Agents
    <3> DEFINE f == callers["quit"].found
    <3>1. /\ agents[f].phase = "gone" => agents'[f].phase = "gone"
          /\ Life!Listening(f) => agents'[f].phase \in {"serving", "closing"}
      BY <1>j, <2>3, Zenon
    <3>2. /\ agents[f].phase = "gone" => agents'[f].phase = "gone"
          /\ agents[f].phase \in {"serving", "closing"}
               => agents'[f].phase \in {"serving", "closing"}
      BY <3>1 DEF Life!Listening
    <3> HIDE DEF f
    <3>3. callers'["quit"].found = f /\ callers["quit"].found = f
      BY <2>1 DEF f
    <3> QED
      BY <1>1, <1>h, <2>1, <3>2, <3>3 DEF FoundHeld, Life!Quit, Life!Listening
  <2> QED
    BY <2>1, <2>2, <2>3
<1>10. StartsDone'
  <2> SUFFICES ASSUME NEW z \in Tasks
               PROVE  /\ callers'[z].step = "startWeb" /\ callers'[z].answer = "ok"
                           => web' # None \/ "web" \in halted'
                      /\ callers'[z].step = "startMariaDb" =>
                           /\ "web" \in callers'[z].restart
                                => web' # None \/ "web" \in halted'
                           /\ callers'[z].answer = "ok"
                                => mariadb' # None \/ "mariadb" \in halted'
    BY DEF StartsDone, Back
  <2>1. /\ callers'[z].step = callers[z].step /\ callers'[z].restart = callers[z].restart
        /\ callers'[z].answer = callers[z].answer \/ (z = r.from /\ callers'[z].answer = w)
    BY <1>w, <1>g
  <2>2. z = r.from => Awaits(callers[z], r.kind)
    BY <1>w, <1>f, LifeWho
  <2> QED
    BY <1>1, <1>6, <2>1, <2>2 DEF StartsDone, Back, Awaits
<1>11. Life!UpgradeRestarts
  BY <1>w, <1>g DEF Life!UpgradeRestarts
<1> QED
  BY <1>7, <1>8, <1>9, <1>10, <1>11 DEF LifeInv

\* A task fails.
LEMMA LifeGivesUp ==
  ASSUME LifeAssumption, LifeInv, NEW t \in Tasks, Silent(t), callers[t].step # "idle",
         Life!Fail(t),
         startLock' = startLock \/ (startLock = t /\ startLock' = None),
         UNCHANGED <<agents, endpoint, Life!services, desktop, displaced, halted>>
  PROVE  LifeInv' /\ Life!UpgradeRestarts
<1>1. /\ LifeShaped /\ QueueFits /\ CallsFit /\ LockHeld /\ Life!ShutdownLeavesNothing
      /\ FoundHeld /\ TrayPending /\ StartsDone
  BY DEF LifeInv
<1>w. /\ Tasks \subseteq Life!Callers /\ "cli" \in Life!Callers /\ "quit" \in Life!Callers
      /\ \A z \in Tasks : z # "cli" /\ z # "quit"
      /\ None \notin Life!Agents /\ callers["quit"].found \in Life!Agents \cup {None}
  BY <1>1, LifeWho, FoundWho
<1>2. /\ \A d \in Life!Callers \ {t} : callers'[d] = callers[d]
      /\ callers' \in [Life!Callers -> Life!Calls]
  BY <1>1, FailingCall
<1>3. /\ tray' \in LifeTray
      /\ \/ /\ callers'[t].step = "lock" /\ callers'[t].kind = "GetStatus"
            /\ callers'[t].action = TRUE /\ tray' = tray
         \/ /\ callers'[t].step = "idle"
            /\ IF callers[t].action THEN tray'.webOn = TRUE ELSE tray' = tray
  BY <1>1, FailingCall
<1>s. Silent(t)
  OBVIOUS
<1>u. UNCHANGED <<agents, endpoint, web, mariadb, desktop, displaced, halted>>
  BY DEF Life!services
<1>4. /\ LifeShaped' /\ CallsFit' /\ LockHeld' /\ Life!ShutdownLeavesNothing'
      /\ FoundHeld' /\ TrayPending' /\ StartsDone'
  BY <1>1, <1>w, <1>2, <1>3, <1>u DEF LifeShaped, CallsFit, LockHeld, Upgrading,
     Life!ShutdownLeavesNothing, FoundHeld, Life!Quit, Life!Listening, TrayPending,
     Refreshes, StartsDone, Back
<1>5. QueueFits'
  BY <1>1, <1>2, <1>s, <1>u, QueuesStayFor
<1>6. Life!UpgradeRestarts
  BY <1>w, <1>2, <1>3 DEF Life!UpgradeRestarts
<1> QED
  BY <1>4, <1>5, <1>6 DEF LifeInv

\* A task moves on within ensure_agent_running.
LEMMA LifeGoesOn ==
  ASSUME LifeAssumption, LifeInv, NEW t \in Tasks, NEW s \in LifeSteps \ {"idle"},
         Life!Move(t, s), Silent(t), callers[t].step # "idle",
         agents' \in [Life!Agents -> LifeProcess],
         \A a \in Life!Agents :
           /\ agents'[a].queue = agents[a].queue
           /\ \/ agents'[a].phase = agents[a].phase
              \/ agents[a].phase = "none" /\ agents'[a].phase = "preparing",
         \/ endpoint' = endpoint /\ displaced' = displaced
         \/ Life!Unlink /\ (Life!Displace \/ (Windows /\ displaced' = displaced)),
         startLock = t, startLock' \in {t, None}, s \in Upgrading => startLock' = t,
         halted' = halted \/ (halted' = {} /\ s = "oldDown"),
         s = "startMariaDb" => ("web" \in callers[t].restart => Back("web", web)),
         s = "send" /\ callers[t].step \in {"ready", "startWeb", "startMariaDb"} =>
           \A x \in callers[t].restart :
             (x = "web" /\ web # None) \/ (x = "mariadb" /\ mariadb # None) \/ x \in halted',
         UNCHANGED <<Life!services, desktop, tray>>
  PROVE  LifeInv' /\ Life!UpgradeRestarts
<1>1. /\ LifeShaped /\ QueueFits /\ CallsFit /\ LockHeld /\ Life!ShutdownLeavesNothing
      /\ FoundHeld /\ TrayPending /\ StartsDone
  BY DEF LifeInv
<1>w. /\ Tasks \subseteq Life!Callers /\ "cli" \in Life!Callers /\ "quit" \in Life!Callers
      /\ \A z \in Tasks : z # "cli" /\ z # "quit"
      /\ None \notin Life!Agents /\ callers["quit"].found \in Life!Agents \cup {None}
  BY <1>1, LifeWho, FoundWho
<1>2. /\ \A d \in Life!Callers \ {t} : callers'[d] = callers[d]
      /\ callers' \in [Life!Callers -> Life!Calls]
  BY <1>1, <1>w, LifeMoving, MovingShape
<1>3. /\ callers'[t].step = s /\ callers'[t].answer = None
      /\ callers'[t].kind = callers[t].kind /\ callers'[t].restart = callers[t].restart
      /\ callers'[t].action = callers[t].action /\ callers'[t].found = callers[t].found
  BY <1>1, <1>w, LifeMoving
<1>4. /\ endpoint' \in {endpoint, None} /\ displaced \subseteq displaced'
      /\ \A a \in Life!Agents : endpoint = a /\ Life!Listening(a)
           => endpoint' = a \/ a \in displaced'
  BY <1>1, LifeUnlinked DEF LifeShaped
<1>5. /\ desktop # "exited" /\ None # "ok" /\ t # "quit"
      /\ \A z \in Tasks \ {t} : callers[z].step \notin Upgrading
  BY <1>1, <1>w DEF CallsFit, LockHeld, LifeAssumption
<1>s. Silent(t)
  OBVIOUS
<1>u. /\ UNCHANGED <<web, mariadb, desktop, tray>>
      /\ \A a \in Life!Agents : agents'[a].queue = agents[a].queue
  BY DEF Life!services
<1>6. /\ LifeShaped' /\ CallsFit' /\ LockHeld' /\ Life!ShutdownLeavesNothing'
      /\ TrayPending' /\ StartsDone'
  BY <1>1, <1>w, <1>2, <1>3, <1>4, <1>5, <1>u DEF LifeShaped, CallsFit, LockHeld, Upgrading,
     Life!ShutdownLeavesNothing, TrayPending, Refreshes, Life!Quit, StartsDone, Back
<1>7. QueueFits'
  BY <1>1, <1>2, <1>s, <1>u, QueuesStayFor
<1>8. FoundHeld'
  <2>1. callers'["quit"] = callers["quit"]
    BY <1>w, <1>2, <1>5
  <2>2. \A a \in Life!Agents :
          agents[a].phase # "none" => agents'[a].phase = agents[a].phase
    OBVIOUS
  <2> QED
    BY <1>1, <1>w, <1>4, <2>1 DEF FoundHeld, Life!Quit, Life!Listening
<1>9. Life!UpgradeRestarts
  BY <1>w, <1>2, <1>3, <1>u DEF Life!UpgradeRestarts
<1> QED
  BY <1>6, <1>7, <1>8, <1>9 DEF LifeInv

\* A task compares the versions and decides on an upgrade.
LEMMA LifePing ==
  ASSUME LifeAssumption, LifeInv, NEW t \in Tasks, Life!Ping(t)
  PROVE  LifeInv' /\ Life!UpgradeRestarts
<1>1. /\ LifeShaped /\ QueueFits /\ CallsFit /\ LockHeld /\ Life!ShutdownLeavesNothing
      /\ FoundHeld /\ TrayPending /\ StartsDone
  BY DEF LifeInv
<1>w. /\ Tasks \subseteq Life!Callers /\ "cli" \in Life!Callers /\ "quit" \in Life!Callers
      /\ \A z \in Tasks : z # "cli" /\ z # "quit"
      /\ None \notin Life!Agents /\ callers["quit"].found \in Life!Agents \cup {None}
  BY <1>1, LifeWho, FoundWho
<1> DEFINE moved == \E s \in {"spawn", "send", "stopOld"} : Life!Move(t, s)
           ran == {s \in {"web", "mariadb"} :
                     (s = "web" /\ web = Life!Reached) \/ (s = "mariadb" /\ mariadb # None)}
<1>2. moved \/ callers' = [callers EXCEPT ![t].step = "stopOld", ![t].restart = ran]
  BY DEF Life!Ping
<1>f. {"spawn", "send", "stopOld"} \subseteq LifeSteps
  BY DEF LifeSteps
<1>3. /\ \A d \in Life!Callers \ {t} : callers'[d] = callers[d]
      /\ callers' \in [Life!Callers -> Life!Calls]
  <2>1. CASE moved
    BY <1>1, <1>w, <1>f, <2>1, LifeMoving, MovingShape
  <2>2. CASE callers' = [callers EXCEPT ![t].step = "stopOld", ![t].restart = ran]
    <3>1. ran \in SUBSET {"web", "mariadb"} /\ "stopOld" \in LifeSteps
      BY <1>f
    <3> HIDE DEF ran
    <3>2. callers \in [Life!Callers -> Life!Calls]
      BY <1>1 DEF LifeShaped
    <3>3. \A s \in LifeSteps, x \in SUBSET {"web", "mariadb"} :
            [callers EXCEPT ![t].step = s, ![t].restart = x]
              \in [Life!Callers -> Life!Calls]
      BY <1>w, <3>2, CallsAltered
    <3>4. callers' \in [Life!Callers -> Life!Calls]
      BY <2>2, <3>1, <3>3, Zenon
    <3> QED
      BY <2>2, <3>2, <3>4
  <2> QED
    BY <1>2, <2>1, <2>2
<1>4. /\ callers'[t].step \in {"spawn", "send", "stopOld"}
      /\ callers'[t].kind = callers[t].kind
      /\ callers'[t].action = callers[t].action /\ callers'[t].found = callers[t].found
  <2>1. CASE moved
    BY <1>1, <1>w, <1>f, <2>1, LifeMoving
  <2>2. CASE callers' = [callers EXCEPT ![t].step = "stopOld", ![t].restart = ran]
    <3> HIDE DEF ran
    <3> QED
      BY <1>1, <1>w, <2>2 DEF LifeShaped, Life!Calls
  <2> QED
    BY <1>2, <2>1, <2>2
<1>5. /\ callers[t].step = "lock" /\ startLock = None /\ startLock' \in {t, None}
      /\ callers'[t].step # "send" => startLock' = t
  <2>1. callers[t].step = "lock" /\ startLock = None
    BY DEF Life!Ping
  <2>2. CASE startLock' = t
    BY <2>1, <2>2
  <2>3. CASE startLock' # t
    <3>1. Life!Move(t, "send") /\ startLock' = startLock
      BY <2>3 DEF Life!Ping
    <3> QED
      BY <1>1, <1>w, <1>f, <2>1, <3>1, LifeMoving
  <2> QED
    BY <2>2, <2>3
<1>s. Silent(t)
  BY <1>1, <1>w, <1>5, NoneQueued
<1>6. desktop # "exited" /\ t # "quit" /\ \A z \in Tasks : callers[z].step \notin Upgrading
  <2>1. \A z \in Tasks : z # None
    BY <1>w, LifeWho
  <2> QED
    BY <1>1, <1>w, <1>5, <2>1 DEF CallsFit, LockHeld
<1>u. UNCHANGED <<agents, endpoint, web, mariadb, desktop, tray, displaced, halted>>
  BY DEF Life!Ping, Life!services
<1> HIDE DEF moved, ran
<1>7. /\ LifeShaped' /\ CallsFit' /\ LockHeld' /\ Life!ShutdownLeavesNothing'
      /\ FoundHeld' /\ TrayPending' /\ StartsDone'
  BY <1>1, <1>w, <1>3, <1>4, <1>5, <1>6, <1>u DEF LifeShaped, CallsFit, LockHeld, Upgrading,
     Life!ShutdownLeavesNothing, FoundHeld, Life!Quit, Life!Listening, TrayPending,
     Refreshes, StartsDone
<1>8. QueueFits'
  BY <1>1, <1>3, <1>s, <1>u, QueuesStayFor
<1>9. Life!UpgradeRestarts
  BY <1>w, <1>3, <1>5 DEF Life!UpgradeRestarts
<1> QED
  BY <1>7, <1>8, <1>9 DEF LifeInv

\* A task of the Desktop begins.
LEMMA LifeAsk ==
  ASSUME LifeAssumption, LifeInv, NEW t \in Tasks, NEW kind \in Kinds,
         NEW action \in BOOLEAN, Life!Ask(t, kind, action)
  PROVE  LifeInv' /\ Life!UpgradeRestarts
<1>1. /\ LifeShaped /\ QueueFits /\ CallsFit /\ LockHeld /\ Life!ShutdownLeavesNothing
      /\ FoundHeld /\ TrayPending /\ StartsDone
  BY DEF LifeInv
<1>w. /\ Tasks \subseteq Life!Callers /\ "cli" \in Life!Callers /\ "quit" \in Life!Callers
      /\ \A z \in Tasks : z # "cli" /\ z # "quit"
      /\ None \notin Life!Agents /\ callers["quit"].found \in Life!Agents \cup {None}
  BY <1>1, LifeWho, FoundWho
<1> DEFINE r == [Life!NoCall EXCEPT !.step = "lock", !.kind = kind, !.action = action]
<1>2. /\ r \in Life!Calls /\ r.step = "lock" /\ r.kind = kind /\ r.action = action
      /\ r.found = None
  <2> DEFINE B == Kinds \cup {"GetStatus"} \cup {"none"}
             C == Life!Agents \cup {None}
             E == SUBSET {"web", "mariadb"}
  <2>1. Life!Calls = [step : LifeSteps, kind : B, agent : C, answer : LifeAnswers,
                     restart : E, action : BOOLEAN, found : C]
    BY DEF Life!Calls, LifeSteps, LifeAnswers
  <2>2. /\ "idle" \in LifeSteps /\ "lock" \in LifeSteps /\ "none" \in B /\ kind \in B
        /\ None \in C /\ None \in LifeAnswers /\ {} \in E
    BY DEF LifeSteps, LifeAnswers
  <2> HIDE DEF B, C, E
  <2> QED
    BY <2>1, <2>2 DEF Life!NoCall
<1>f. callers' = [callers EXCEPT ![t] = r]
  BY DEF Life!Ask
<1> HIDE DEF r
<1>3. /\ \A d \in Life!Callers \ {t} : callers'[d] = callers[d]
      /\ callers' \in [Life!Callers -> Life!Calls]
  BY <1>1, <1>w, <1>2, <1>f, CallTaken DEF LifeShaped
<1>4. /\ callers'[t].step = "lock" /\ callers'[t].kind = kind /\ callers'[t].action = action
      /\ kind # "none"
      /\ kind \in {"GetStatus", "StartAll", "StopAll", "StartMariaDb", "StopMariaDb"}
  BY <1>1, <1>w, <1>2, <1>f, CallTaken DEF LifeShaped, LifeAssumption
<1>5. /\ tray' \in LifeTray /\ callers[t].step = "idle" /\ desktop = "running"
      /\ tray'.webOn = tray.webOn \/ (action = TRUE /\ kind \in {"StartAll", "StopAll"})
  <2>1. CASE tray' = tray
    BY <1>1, <2>1 DEF LifeShaped, Life!Ask, Life!Idle
  <2>2. CASE action = TRUE /\ kind \in {"StartAll", "StopAll"}
    <3>1. tray' = [tray EXCEPT !.webOn = FALSE]
      BY <2>2 DEF Life!Ask
    <3> QED
      BY <1>1, <2>2, <3>1 DEF LifeShaped, LifeTray, Life!Ask, Life!Idle
  <2>3. CASE action = TRUE /\ kind \notin {"StartAll", "StopAll"}
    <3>1. tray' = [tray EXCEPT !.mariadb = "Busy", !.mariadbOn = FALSE]
      BY <2>3 DEF Life!Ask
    <3> QED
      BY <1>1, <2>3, <3>1 DEF LifeShaped, LifeTray, Life!Ask, Life!Idle
  <2> QED
    BY <2>1, <2>2, <2>3 DEF Life!Ask
<1>s. Silent(t)
  BY <1>1, <1>w, <1>5, NoneQueued
<1>u. UNCHANGED <<agents, endpoint, web, mariadb, desktop, startLock, displaced, halted>>
  BY DEF Life!Ask, Life!services
<1>6. /\ LifeShaped' /\ CallsFit' /\ LockHeld' /\ Life!ShutdownLeavesNothing'
      /\ FoundHeld' /\ TrayPending' /\ StartsDone'
  BY <1>1, <1>w, <1>3, <1>4, <1>5, <1>u DEF LifeShaped, CallsFit, LockHeld, Upgrading,
     Life!ShutdownLeavesNothing, FoundHeld, Life!Quit, Life!Listening, TrayPending,
     Refreshes, StartsDone, Back
<1>7. QueueFits'
  BY <1>1, <1>3, <1>s, <1>u, QueuesStayFor
<1>8. Life!UpgradeRestarts
  BY <1>w, <1>3, <1>5 DEF Life!UpgradeRestarts
<1> QED
  BY <1>6, <1>7, <1>8 DEF LifeInv

\* A status request does not queue: it is answered at once, or finds nobody there.
LEMMA LifeStatusSent ==
  ASSUME LifeAssumption, LifeInv, NEW t \in Tasks, callers[t].step = "send", Life!Unsent(t),
         NEW answer \in {"lost", "ok"}, callers' = [callers EXCEPT ![t].answer = answer],
         UNCHANGED <<agents, endpoint, Life!services, desktop, startLock, tray, displaced,
           halted>>
  PROVE  LifeInv' /\ Life!UpgradeRestarts
<1>1. /\ LifeShaped /\ QueueFits /\ CallsFit /\ LockHeld /\ Life!ShutdownLeavesNothing
      /\ FoundHeld /\ TrayPending /\ StartsDone
  BY DEF LifeInv
<1>w. /\ Tasks \subseteq Life!Callers /\ "cli" \in Life!Callers /\ "quit" \in Life!Callers
      /\ \A z \in Tasks : z # "cli" /\ z # "quit"
      /\ None \notin Life!Agents /\ callers["quit"].found \in Life!Agents \cup {None}
  BY <1>1, LifeWho, FoundWho
<1>2. /\ \A d \in Life!Callers \ {t} : callers'[d] = callers[d]
      /\ callers' \in [Life!Callers -> Life!Calls]
  <2>1. answer \in LifeAnswers
    BY DEF LifeAnswers
  <2>2. callers \in [Life!Callers -> Life!Calls]
    BY <1>1 DEF LifeShaped
  <2>3. \A w \in LifeAnswers :
          [callers EXCEPT ![t].answer = w] \in [Life!Callers -> Life!Calls]
    BY <1>w, <2>2, CallsAltered
  <2>4. callers' \in [Life!Callers -> Life!Calls]
    BY <2>1, <2>3, Zenon
  <2> QED
    BY <2>2, <2>4
<1>s. Silent(t)
  BY <1>1, <1>w, LifeWho DEF QueueFits, Silent, Life!Unsent
<1>u. UNCHANGED <<agents, endpoint, web, mariadb, desktop, startLock, tray, displaced,
                halted>>
  BY DEF Life!services
<1>3. /\ LifeShaped' /\ CallsFit' /\ LockHeld' /\ Life!ShutdownLeavesNothing'
      /\ FoundHeld' /\ TrayPending' /\ StartsDone'
  BY <1>1, <1>2, <1>u DEF LifeShaped, CallsFit, LockHeld, Life!ShutdownLeavesNothing,
     FoundHeld, Life!Quit, Life!Listening, TrayPending, Refreshes, StartsDone, Back
<1>4. QueueFits'
  BY <1>1, <1>2, <1>s, <1>u, QueuesStayFor
<1>5. Life!UpgradeRestarts
  BY DEF Life!UpgradeRestarts
<1> QED
  BY <1>3, <1>4, <1>5 DEF LifeInv

\* A task shows its answer in the tray.
LEMMA LifeShows ==
  ASSUME LifeAssumption, LifeInv, NEW t \in Tasks, callers[t].step = "send",
         callers[t].answer # None,
         tray' = Life!Shown(callers[t].kind),
         callers' = [callers EXCEPT ![t] = Life!NoCall],
         UNCHANGED <<agents, endpoint, Life!services, desktop, startLock, displaced,
           halted>>
  PROVE  LifeInv' /\ Life!UpgradeRestarts
<1>1. /\ LifeShaped /\ QueueFits /\ CallsFit /\ LockHeld /\ Life!ShutdownLeavesNothing
      /\ FoundHeld /\ TrayPending /\ StartsDone
  BY DEF LifeInv
<1>w. /\ Tasks \subseteq Life!Callers /\ "cli" \in Life!Callers /\ "quit" \in Life!Callers
      /\ \A z \in Tasks : z # "cli" /\ z # "quit"
      /\ None \notin Life!Agents /\ callers["quit"].found \in Life!Agents \cup {None}
  BY <1>1, LifeWho, FoundWho
<1>2. Life!NoCall \in Life!Calls /\ Life!NoCall.step = "idle"
  BY NoCallIs
<1>3. /\ \A d \in Life!Callers \ {t} : callers'[d] = callers[d]
      /\ callers' \in [Life!Callers -> Life!Calls]
  BY <1>1, <1>w, <1>2, CallTaken DEF LifeShaped
<1>4. callers'[t].step = "idle"
  BY <1>1, <1>w, <1>2, CallTaken DEF LifeShaped
<1>5. /\ tray' \in LifeTray
      /\ tray'.webOn =
           IF callers[t].kind \in {"GetStatus", "StartAll", "StopAll"} THEN TRUE
           ELSE tray.webOn
  <2>1. callers[t].kind \in Kinds \cup {"GetStatus"}
    BY <1>1, <1>w DEF CallsFit, LifeShaped, Life!Calls
  <2>2. callers[t].kind
          \in {"GetStatus", "StartAll", "StopAll", "StartMariaDb", "StopMariaDb"}
    BY <2>1 DEF LifeAssumption
  <2> QED
    BY <1>1, <2>2, TrayShown
<1>s. Silent(t)
  BY <1>1, <1>w, NoneQueued
<1>6. desktop # "exited" /\ t # "quit"
  BY <1>1, <1>w DEF CallsFit
<1>u. UNCHANGED <<agents, endpoint, web, mariadb, desktop, startLock, displaced, halted>>
  BY DEF Life!services
<1>7. /\ LifeShaped' /\ CallsFit' /\ LockHeld' /\ Life!ShutdownLeavesNothing'
      /\ FoundHeld' /\ TrayPending' /\ StartsDone'
  BY <1>1, <1>3, <1>4, <1>5, <1>6, <1>u DEF LifeShaped, CallsFit, LockHeld, Upgrading,
     Life!ShutdownLeavesNothing, FoundHeld, Life!Quit, Life!Listening, TrayPending,
     Refreshes, StartsDone, Back
<1>8. QueueFits'
  BY <1>1, <1>3, <1>s, <1>u, QueuesStayFor
<1>9. Life!UpgradeRestarts
  BY DEF Life!UpgradeRestarts
<1> QED
  BY <1>7, <1>8, <1>9 DEF LifeInv

\* The command line begins or ends a request.
LEMMA LifeCliTurns ==
  ASSUME LifeAssumption, LifeInv, NEW r \in Life!Calls,
         callers' = [callers EXCEPT !["cli"] = r], Silent("cli"),
         UNCHANGED <<agents, endpoint, Life!services, desktop, startLock, tray, displaced,
           halted>>
  PROVE  LifeInv' /\ Life!UpgradeRestarts
<1>1. /\ LifeShaped /\ QueueFits /\ CallsFit /\ LockHeld /\ Life!ShutdownLeavesNothing
      /\ FoundHeld /\ TrayPending /\ StartsDone
  BY DEF LifeInv
<1>w. /\ Tasks \subseteq Life!Callers /\ "cli" \in Life!Callers /\ "quit" \in Life!Callers
      /\ \A z \in Tasks : z # "cli" /\ z # "quit"
      /\ None \notin Life!Agents /\ callers["quit"].found \in Life!Agents \cup {None}
  BY <1>1, LifeWho, FoundWho
<1>2. /\ \A d \in Life!Callers \ {"cli"} : callers'[d] = callers[d]
      /\ callers' \in [Life!Callers -> Life!Calls]
  BY <1>1, <1>w, CallTaken DEF LifeShaped
<1>3. /\ \A z \in Tasks : callers'[z] = callers[z]
      /\ callers'["quit"] = callers["quit"]
  BY <1>2, <1>w
<1>s. Silent("cli")
  OBVIOUS
<1>u. UNCHANGED <<agents, endpoint, web, mariadb, desktop, startLock, tray, displaced,
                halted>>
  BY DEF Life!services
<1>4. /\ LifeShaped' /\ CallsFit' /\ LockHeld' /\ Life!ShutdownLeavesNothing'
      /\ FoundHeld' /\ TrayPending' /\ StartsDone'
  BY <1>1, <1>w, <1>u DEF LifeShaped, CallsFit, LockHeld, Life!ShutdownLeavesNothing,
     FoundHeld, Life!Quit, Life!Listening, TrayPending, StartsDone, Back
<1>5. QueueFits'
  BY <1>1, <1>2, <1>s, <1>u, QueuesStayFor
<1>6. Life!UpgradeRestarts
  BY <1>3 DEF Life!UpgradeRestarts
<1> QED
  BY <1>4, <1>5, <1>6 DEF LifeInv

\* The user quits.
LEMMA LifeQuitAsked ==
  ASSUME LifeAssumption, LifeInv, Life!QuitAsked
  PROVE  LifeInv' /\ Life!UpgradeRestarts
<1>1. /\ LifeShaped /\ QueueFits /\ CallsFit /\ LockHeld /\ Life!ShutdownLeavesNothing
      /\ FoundHeld /\ TrayPending /\ StartsDone
  BY DEF LifeInv
<1>w. /\ Tasks \subseteq Life!Callers /\ "cli" \in Life!Callers /\ "quit" \in Life!Callers
      /\ \A z \in Tasks : z # "cli" /\ z # "quit"
      /\ None \notin Life!Agents /\ callers["quit"].found \in Life!Agents \cup {None}
  BY <1>1, LifeWho, FoundWho
<1> DEFINE r == [Life!NoCall EXCEPT !.step = "ping"]
<1>2. r \in Life!Calls /\ r.step = "ping" /\ r.found = None
  <2>1. /\ "ping" \in LifeSteps /\ "none" \in Kinds \cup {"GetStatus", "none"}
        /\ None \in Life!Agents \cup {None}
    BY DEF LifeSteps
  <2> QED
    BY <2>1, NewCalls
<1>f. callers' = [callers EXCEPT !["quit"] = r]
  BY DEF Life!QuitAsked
<1> HIDE DEF r
<1>3. /\ \A d \in Life!Callers \ {"quit"} : callers'[d] = callers[d]
      /\ callers' \in [Life!Callers -> Life!Calls]
  BY <1>1, <1>w, <1>2, <1>f, CallTaken DEF LifeShaped
<1>4. /\ callers'["quit"].step = "ping" /\ callers'["quit"].found = None
      /\ \A z \in Tasks : callers'[z] = callers[z]
  BY <1>1, <1>w, <1>3, <1>2, <1>f, CallTaken DEF LifeShaped
<1>5. tray' \in LifeTray /\ desktop = "running" /\ callers["quit"].step = "idle"
  BY <1>1 DEF Life!QuitAsked, LifeShaped, LifeTray, Life!Idle
<1>s. Silent("quit")
  BY <1>1, <1>w, <1>5, NoneQueued
<1>u. UNCHANGED <<agents, endpoint, web, mariadb, desktop, startLock, displaced, halted>>
  BY DEF Life!QuitAsked, Life!services
<1>6. /\ LifeShaped' /\ CallsFit' /\ LockHeld' /\ Life!ShutdownLeavesNothing'
      /\ FoundHeld' /\ TrayPending' /\ StartsDone'
  BY <1>1, <1>3, <1>4, <1>5, <1>u DEF LifeShaped, CallsFit, LockHeld,
     Life!ShutdownLeavesNothing, FoundHeld, Life!Quit, TrayPending, StartsDone, Back
<1>7. QueueFits'
  BY <1>1, <1>3, <1>s, <1>u, QueuesStayFor
<1>8. Life!UpgradeRestarts
  BY <1>4 DEF Life!UpgradeRestarts
<1> QED
  BY <1>6, <1>7, <1>8 DEF LifeInv

\* Quit moves on.
LEMMA LifeQuitMoves ==
  ASSUME LifeAssumption, LifeInv, NEW s \in {"shutdown", "down", "leave"},
         Life!Move("quit", s), Silent("quit"),
         callers["quit"].step \notin {"idle", "leave"},
         s = "leave"
           => Life!Displace /\ callers["quit"].step \in {"ping", "shutdown", "down"},
         s = "shutdown" => callers["quit"].step = "stop",
         s = "down" => callers["quit"].step = "shutdown",
         s # "leave" => displaced' = displaced,
         endpoint' = endpoint \/ (s = "leave" /\ Life!Unlink),
         UNCHANGED <<agents, Life!services, desktop, startLock, tray, halted>>
  PROVE  LifeInv' /\ Life!UpgradeRestarts
<1>1. /\ LifeShaped /\ QueueFits /\ CallsFit /\ LockHeld /\ Life!ShutdownLeavesNothing
      /\ FoundHeld /\ TrayPending /\ StartsDone
  BY DEF LifeInv
<1>w. /\ Tasks \subseteq Life!Callers /\ "cli" \in Life!Callers /\ "quit" \in Life!Callers
      /\ \A z \in Tasks : z # "cli" /\ z # "quit"
      /\ None \notin Life!Agents /\ callers["quit"].found \in Life!Agents \cup {None}
  BY <1>1, LifeWho, FoundWho
<1>f. s \in LifeSteps
  BY DEF LifeSteps
<1>2. /\ \A d \in Life!Callers \ {"quit"} : callers'[d] = callers[d]
      /\ callers' \in [Life!Callers -> Life!Calls]
  BY <1>1, <1>w, <1>f, LifeMoving, MovingShape
<1>3. /\ callers'["quit"].step = s /\ callers'["quit"].found = callers["quit"].found
      /\ \A z \in Tasks : callers'[z] = callers[z]
  BY <1>1, <1>w, <1>2, <1>f, LifeMoving
<1>4. /\ endpoint' \in {endpoint, None} /\ displaced \subseteq displaced'
      /\ s # "leave" => endpoint' = endpoint
      /\ endpoint # None /\ Life!Listening(endpoint) /\ s = "leave" => endpoint \in displaced'
      /\ desktop # "exited"
  <2>1. s = "leave" => Life!Displace
    OBVIOUS
  <2>2. endpoint # None /\ Life!Listening(endpoint) => Life!Reached = endpoint
    BY <1>1, ReachedIs
  <2> QED
    BY <1>1, <1>w, <2>1, <2>2 DEF LifeShaped, CallsFit, Life!Unlink, Life!Displace
<1>s. Silent("quit")
  OBVIOUS
<1>u. UNCHANGED <<agents, web, mariadb, desktop, startLock, tray, halted>>
  BY DEF Life!services
<1>5. /\ LifeShaped' /\ CallsFit' /\ LockHeld' /\ Life!ShutdownLeavesNothing'
      /\ FoundHeld' /\ TrayPending' /\ StartsDone'
  BY <1>1, <1>2, <1>3, <1>4, <1>u DEF LifeShaped, CallsFit, LockHeld,
     Life!ShutdownLeavesNothing, FoundHeld, Life!Quit, Life!Listening, TrayPending,
     StartsDone, Back
<1>6. QueueFits'
  BY <1>1, <1>2, <1>s, <1>u, QueuesStayFor
<1>7. Life!UpgradeRestarts
  BY <1>3 DEF Life!UpgradeRestarts
<1> QED
  BY <1>5, <1>6, <1>7 DEF LifeInv

\* Quit pings the Agent and goes on to stop it, or to leave.
LEMMA LifeQuitFinds ==
  ASSUME LifeAssumption, LifeInv, callers["quit"].step = "ping", Life!Reached # None,
         callers' = [callers EXCEPT !["quit"].step = "stop",
           !["quit"].found = Life!Reached],
         UNCHANGED <<agents, endpoint, Life!services, desktop, startLock, tray, displaced,
           halted>>
  PROVE  LifeInv' /\ Life!UpgradeRestarts
<1>1. /\ LifeShaped /\ QueueFits /\ CallsFit /\ LockHeld /\ Life!ShutdownLeavesNothing
      /\ FoundHeld /\ TrayPending /\ StartsDone
  BY DEF LifeInv
<1>w. /\ Tasks \subseteq Life!Callers /\ "cli" \in Life!Callers /\ "quit" \in Life!Callers
      /\ \A z \in Tasks : z # "cli" /\ z # "quit"
      /\ None \notin Life!Agents /\ callers["quit"].found \in Life!Agents \cup {None}
  BY <1>1, LifeWho, FoundWho
<1>f. /\ Life!Reached \in Life!Agents /\ endpoint = Life!Reached
      /\ Life!Listening(Life!Reached)
  BY <1>1, ReachedIs
<1>2. /\ \A d \in Life!Callers \ {"quit"} : callers'[d] = callers[d]
      /\ callers' \in [Life!Callers -> Life!Calls]
  <2>1. "stop" \in LifeSteps /\ Life!Reached \in Life!Agents \cup {None}
    BY <1>f DEF LifeSteps
  <2>2. callers \in [Life!Callers -> Life!Calls]
    BY <1>1 DEF LifeShaped
  <2>3. \A s \in LifeSteps, x \in Life!Agents \cup {None} :
          [callers EXCEPT !["quit"].step = s, !["quit"].found = x]
            \in [Life!Callers -> Life!Calls]
    BY <1>w, <2>2, CallsAltered
  <2>4. callers' \in [Life!Callers -> Life!Calls]
    BY <2>1, <2>3, Zenon
  <2> QED
    BY <2>2, <2>4
<1>3. /\ callers'["quit"].step = "stop" /\ callers'["quit"].found = Life!Reached
      /\ \A z \in Tasks : callers'[z] = callers[z]
  <2> HIDE DEF Life!Reached
  <2>1. callers'["quit"].step = "stop" /\ callers'["quit"].found = Life!Reached
    BY <1>1, <1>w DEF LifeShaped, Life!Calls
  <2> QED
    BY <1>w, <1>2, <2>1
<1>s. Silent("quit")
  BY <1>1, <1>w, NoneQueued
<1>u. UNCHANGED <<agents, endpoint, web, mariadb, desktop, startLock, tray, displaced,
                halted>>
  BY DEF Life!services
<1>4. /\ LifeShaped' /\ CallsFit' /\ LockHeld' /\ Life!ShutdownLeavesNothing'
      /\ FoundHeld' /\ TrayPending' /\ StartsDone'
  BY <1>1, <1>w, <1>2, <1>f, <1>u DEF LifeShaped, CallsFit, LockHeld,
     Life!ShutdownLeavesNothing, FoundHeld, Life!Quit, Life!Listening, TrayPending,
     StartsDone, Back
<1>5. QueueFits'
  BY <1>1, <1>2, <1>s, <1>u, QueuesStayFor
<1>6. Life!UpgradeRestarts
  BY <1>w, <1>3 DEF Life!UpgradeRestarts
<1> QED
  BY <1>4, <1>5, <1>6 DEF LifeInv

\* Quit fails and its refresh takes over.
LEMMA LifeQuitFails ==
  ASSUME LifeAssumption, LifeInv, Life!QuitFails, Silent("quit"), desktop = "running",
         UNCHANGED <<agents, endpoint, Life!services, desktop, startLock, displaced,
           halted>>
  PROVE  LifeInv' /\ Life!UpgradeRestarts
<1>1. /\ LifeShaped /\ QueueFits /\ CallsFit /\ LockHeld /\ Life!ShutdownLeavesNothing
      /\ FoundHeld /\ TrayPending /\ StartsDone
  BY DEF LifeInv
<1>w. /\ Tasks \subseteq Life!Callers /\ "cli" \in Life!Callers /\ "quit" \in Life!Callers
      /\ \A z \in Tasks : z # "cli" /\ z # "quit"
      /\ None \notin Life!Agents /\ callers["quit"].found \in Life!Agents \cup {None}
  BY <1>1, LifeWho, FoundWho
<1>2. PICK t \in Tasks :
        /\ callers[t].step = "idle"
        /\ callers' = [callers EXCEPT !["quit"] = Life!NoCall, ![t] = Life!Refresh(t)]
        /\ tray' = tray
  BY DEF Life!QuitFails, Life!Idle
<1>f. /\ Life!NoCall \in Life!Calls /\ Life!NoCall.step = "idle" /\ Life!NoCall.found = None
      /\ Life!NoCall.agent = None /\ Life!NoCall.answer = None
      /\ Life!Refresh(t) \in Life!Calls /\ Life!Refresh(t).step = "lock"
      /\ Life!Refresh(t).kind = "GetStatus"
      /\ Life!Refresh(t).action = TRUE
  BY NoCallIs, Refreshing
<1>3. /\ callers' \in [Life!Callers -> Life!Calls] /\ callers'["quit"] = Life!NoCall
      /\ callers'[t] = Life!Refresh(t)
      /\ \A d \in Life!Callers \ {"quit", t} : callers'[d] = callers[d]
  BY <1>1, <1>w, <1>2, <1>f DEF LifeShaped
<1>4. /\ callers'["quit"].step = "idle" /\ callers'["quit"].found = None
      /\ callers'["quit"].agent = None /\ callers'["quit"].answer = None
      /\ callers'[t].step = "lock" /\ callers'[t].kind = "GetStatus"
      /\ callers'[t].action = TRUE
      /\ \A z \in Tasks \ {t} : callers'[z] = callers[z]
  BY <1>w, <1>3, <1>f
<1>s. Silent("quit") /\ Silent(t)
  BY <1>1, <1>w, <1>2, NoneQueued
<1>u. /\ UNCHANGED <<agents, endpoint, web, mariadb, desktop, startLock, tray, displaced,
           halted>>
      /\ desktop = "running"
  BY <1>2 DEF Life!services
<1>5. /\ LifeShaped' /\ CallsFit' /\ LockHeld' /\ Life!ShutdownLeavesNothing'
      /\ FoundHeld' /\ TrayPending' /\ StartsDone'
  BY <1>1, <1>3, <1>4, <1>u DEF LifeShaped, CallsFit, LockHeld, Upgrading,
     Life!ShutdownLeavesNothing, FoundHeld, Life!Quit, TrayPending, Refreshes, StartsDone,
     Back
<1>6. QueueFits'
  <2> DEFINE C == {"quit", t}
  <2>1. (\A d \in C : Silent(d)) /\ \A d \in Life!Callers \ C : callers'[d] = callers[d]
    BY <1>3, <1>s
  <2> HIDE DEF C
  <2> QED
    BY <1>1, <1>u, <2>1, QueuesStay
<1>7. Life!UpgradeRestarts
  BY <1>4 DEF Life!UpgradeRestarts
<1> QED
  BY <1>5, <1>6, <1>7 DEF LifeInv

\* The Desktop exits: what its tasks had queued has nobody behind it.
LEMMA LifeLeave ==
  ASSUME LifeAssumption, LifeInv, Life!Leave
  PROVE  LifeInv' /\ Life!UpgradeRestarts
<1>1. /\ LifeShaped /\ QueueFits /\ CallsFit /\ LockHeld /\ Life!ShutdownLeavesNothing
      /\ FoundHeld /\ TrayPending /\ StartsDone
  BY DEF LifeInv
<1>w. /\ Tasks \subseteq Life!Callers /\ "cli" \in Life!Callers /\ "quit" \in Life!Callers
      /\ \A z \in Tasks : z # "cli" /\ z # "quit"
      /\ None \notin Life!Agents /\ callers["quit"].found \in Life!Agents \cup {None}
  BY <1>1, LifeWho, FoundWho
<1> DEFINE Let(e) == IF e.from = "cli" THEN e ELSE [e EXCEPT !.from = None]
<1>2. /\ callers' \in [Life!Callers -> Life!Calls]
      /\ callers'["cli"] = callers["cli"]
      /\ \A c \in Life!Callers \ {"cli"} :
           /\ callers'[c].step = "idle" /\ callers'[c].found = callers[c].found
           /\ callers'[c].agent = None /\ callers'[c].answer = None
  <2>1. callers' = [c \in Life!Callers |->
                      IF c = "cli" THEN callers[c]
                      ELSE [Life!NoCall EXCEPT !.found = callers[c].found]]
    BY DEF Life!Leave
  <2>2. \A f \in Life!Agents \cup {None} :
          /\ [Life!NoCall EXCEPT !.found = f] \in Life!Calls
          /\ [Life!NoCall EXCEPT !.found = f].step = "idle"
          /\ [Life!NoCall EXCEPT !.found = f].found = f
          /\ [Life!NoCall EXCEPT !.found = f].agent = None
          /\ [Life!NoCall EXCEPT !.found = f].answer = None
    <3>1. "idle" \in LifeSteps /\ "none" \in Kinds \cup {"GetStatus", "none"}
      BY DEF LifeSteps
    <3> QED
      BY <3>1, NewCalls
  <2>3. \A c \in Life!Callers :
          callers[c] \in Life!Calls /\ callers[c].found \in Life!Agents \cup {None}
    BY <1>1 DEF LifeShaped, Life!Calls
  <2>4. \A c \in Life!Callers \ {"cli"} :
          /\ callers'[c] \in Life!Calls
          /\ callers'[c].step = "idle" /\ callers'[c].found = callers[c].found
          /\ callers'[c].agent = None /\ callers'[c].answer = None
    <3> SUFFICES ASSUME NEW c \in Life!Callers \ {"cli"}
                 PROVE  /\ callers'[c] \in Life!Calls
                        /\ callers'[c].step = "idle"
                        /\ callers'[c].found = callers[c].found
                        /\ callers'[c].agent = None /\ callers'[c].answer = None
      OBVIOUS
    <3> DEFINE r == [Life!NoCall EXCEPT !.found = callers[c].found]
    <3>1. callers'[c] = r
      BY <2>1, Zenon
    <3>2. /\ r \in Life!Calls /\ r.step = "idle" /\ r.found = callers[c].found
          /\ r.agent = None /\ r.answer = None
      BY <2>2, <2>3
    <3> HIDE DEF r
    <3> QED
      BY <3>1, <3>2
  <2>5. callers'["cli"] = callers["cli"]
    BY <1>w, <2>1, Zenon
  <2>6. callers' = [c \in Life!Callers |-> callers'[c]]
    BY <2>1
  <2> QED
    BY <1>w, <2>3, <2>4, <2>5, <2>6
<1>3. \A a \in Life!Agents :
        /\ agents'[a].phase = agents[a].phase /\ agents'[a] \in LifeProcess
        /\ DOMAIN agents'[a].queue = DOMAIN agents[a].queue
        /\ \A i \in DOMAIN agents[a].queue :
             \/ agents[a].queue[i].from = "cli" /\ agents'[a].queue[i] = agents[a].queue[i]
             \/ agents[a].queue[i].from # "cli" /\ agents'[a].queue[i].from = None
  <2> SUFFICES ASSUME NEW a \in Life!Agents
               PROVE /\ agents'[a].phase = agents[a].phase /\ agents'[a] \in LifeProcess
                     /\ DOMAIN agents'[a].queue = DOMAIN agents[a].queue
                     /\ \A i \in DOMAIN agents[a].queue :
                          \/ agents[a].queue[i].from = "cli"
                               /\ agents'[a].queue[i] = agents[a].queue[i]
                          \/ agents[a].queue[i].from # "cli"
                               /\ agents'[a].queue[i].from = None
    OBVIOUS
  <2> DEFINE q == agents[a].queue
             n == [i \in DOMAIN q |-> Let(q[i])]
  <2>1. q \in Seq(LifeQueued) /\ DOMAIN q = 1..Len(q) /\ Len(q) \in Nat
    BY <1>1, QueueTyped
  <2>2. agents'[a] = [agents[a] EXCEPT !.queue = n]
    BY DEF Life!Leave
  <2>3. \A e \in LifeQueued :
          /\ Let(e) \in LifeQueued
          /\ e.from = "cli" => Let(e) = e
          /\ e.from # "cli" => Let(e).from = None
    BY DEF LifeQueued
  <2> HIDE DEF Let, q
  <2>4. \A i \in DOMAIN q : n[i] = Let(q[i]) /\ q[i] \in LifeQueued
    BY <2>1
  <2>5. n \in [1..Len(q) -> LifeQueued] /\ DOMAIN n = DOMAIN q
    BY <2>1, <2>3, <2>4
  <2>6. n \in Seq(LifeQueued)
    BY <2>1, <2>5, SeqDef
  <2>7. \A i \in DOMAIN q : \/ q[i].from = "cli" /\ n[i] = q[i]
                            \/ q[i].from # "cli" /\ n[i].from = None
    BY <2>3, <2>4
  <2> HIDE DEF n
  <2>8. agents[a] \in LifeProcess
    BY <1>1 DEF LifeShaped
  <2>9. /\ agents'[a].phase = agents[a].phase /\ agents'[a] \in LifeProcess
        /\ agents'[a].queue = n
    <3> DEFINE Q == Seq(LifeQueued)
    <3>1. agents[a] \in [phase : LifePhases, old : BOOLEAN, queue : Q] /\ n \in Q
      BY <2>6, <2>8 DEF LifeProcess
    <3> HIDE DEF Q
    <3>2. agents'[a] \in [phase : LifePhases, old : BOOLEAN, queue : Q]
      BY <2>2, <3>1
    <3> QED
      BY <2>2, <3>1, <3>2 DEF Q, LifeProcess
  <2> QED
    BY <2>5, <2>7, <2>9 DEF q
<1> HIDE DEF Let
<1>4. agents' \in [Life!Agents -> LifeProcess]
  <2>1. agents' = [a \in Life!Agents |-> agents'[a]]
    BY DEF Life!Leave
  <2> QED
    BY <1>3, <2>1
<1>5. callers["quit"].step = "leave" /\ desktop' = "exited" /\ startLock' = None
  BY DEF Life!Leave, Life!Quit
<1>u. UNCHANGED <<endpoint, web, mariadb, tray, displaced, halted>>
  BY DEF Life!Leave, Life!services
<1>6. /\ LifeShaped' /\ CallsFit' /\ LockHeld' /\ Life!ShutdownLeavesNothing'
      /\ FoundHeld' /\ TrayPending' /\ StartsDone'
  BY <1>1, <1>w, <1>2, <1>3, <1>4, <1>5, <1>u DEF LifeShaped, CallsFit, LockHeld, Upgrading,
     Life!ShutdownLeavesNothing, FoundHeld, Life!Quit, TrayPending, StartsDone
<1>7. QueueFits'
  <2> SUFFICES ASSUME NEW a \in Life!Agents, NEW i \in DOMAIN agents'[a].queue,
                        agents'[a].queue[i].from # None
               PROVE  /\ callers'[agents'[a].queue[i].from].agent = a
                      /\ callers'[agents'[a].queue[i].from].answer = None
                      /\ Awaits(callers'[agents'[a].queue[i].from], agents'[a].queue[i].kind)
                      /\ \A j \in DOMAIN agents'[a].queue : j # i
                           => agents'[a].queue[j].from # agents'[a].queue[i].from
    BY QueueFitsNext
  <2>1. /\ i \in DOMAIN agents[a].queue /\ agents'[a].queue[i] = agents[a].queue[i]
        /\ agents[a].queue[i].from = "cli"
    BY <1>3
  <2>2. /\ callers["cli"].agent = a /\ callers["cli"].answer = None
        /\ Awaits(callers["cli"], agents[a].queue[i].kind)
        /\ \A j \in DOMAIN agents[a].queue : j # i => agents[a].queue[j].from # "cli"
    BY <1>1, <1>w, <2>1, LifeWho DEF QueueFits
  <2>3. \A j \in DOMAIN agents'[a].queue : j # i => agents'[a].queue[j].from # "cli"
    <3>1. \A j \in DOMAIN agents'[a].queue : j # i => agents'[a].queue[j].from = None
      BY <1>3, <2>2
    <3>2. "cli" # None
      BY <1>w, LifeWho
    <3> QED
      BY <3>1, <3>2
  <2>4. callers'["cli"] = callers["cli"]
    BY <1>2
  <2> QED
    BY <2>1, <2>2, <2>3, <2>4
<1>8. Life!UpgradeRestarts
  BY <1>w, <1>2 DEF Life!UpgradeRestarts
<1> QED
  BY <1>6, <1>7, <1>8 DEF LifeInv

\* A caller waits no longer: its request stays in the queue with nobody behind it.
LEMMA LifeLate ==
  ASSUME LifeAssumption, LifeInv, NEW c \in Life!Callers, Life!AnswerLate(c)
  PROVE  LifeInv' /\ Life!UpgradeRestarts
<1>1. /\ LifeShaped /\ QueueFits /\ CallsFit /\ LockHeld /\ Life!ShutdownLeavesNothing
      /\ FoundHeld /\ TrayPending /\ StartsDone
  BY DEF LifeInv
<1>w. /\ Tasks \subseteq Life!Callers /\ "cli" \in Life!Callers /\ "quit" \in Life!Callers
      /\ \A z \in Tasks : z # "cli" /\ z # "quit"
      /\ None \notin Life!Agents /\ callers["quit"].found \in Life!Agents \cup {None}
  BY <1>1, LifeWho, FoundWho
<1> DEFINE g == callers[c].agent
           q == agents[g].queue
           Let(e) == IF e.from = c THEN [e EXCEPT !.from = None] ELSE e
           n == [i \in DOMAIN q |-> Let(q[i])]
<1>2. /\ g \in Life!Agents /\ callers[c] \in Life!Calls
      /\ callers \in [Life!Callers -> Life!Calls]
      /\ callers' = [callers EXCEPT ![c].answer = "lost"]
      /\ agents' = [agents EXCEPT ![g].queue = n]
  <2>1. callers[c] \in Life!Calls /\ callers \in [Life!Callers -> Life!Calls] /\ g # None
    BY <1>1 DEF LifeShaped, Life!AnswerLate
  <2>2. /\ callers' = [callers EXCEPT ![c].answer = "lost"]
        /\ agents' = [agents EXCEPT ![g].queue = n]
    BY DEF Life!AnswerLate
  <2> QED
    BY <2>1, <2>2 DEF Life!Calls
<1> HIDE DEF g
<1>3. /\ callers' \in [Life!Callers -> Life!Calls]
      /\ \A d \in Life!Callers \ {c} : callers'[d] = callers[d]
      /\ callers'[c].answer = "lost"
      /\ callers'[c].step = callers[c].step /\ callers'[c].kind = callers[c].kind
      /\ callers'[c].restart = callers[c].restart /\ callers'[c].found = callers[c].found
      /\ callers'[c].action = callers[c].action
  <2>1. callers' \in [Life!Callers -> Life!Calls]
    BY <1>2, CallsAltered DEF LifeAnswers
  <2> QED
    BY <1>2, <2>1 DEF Life!Calls
<1>4. \A d \in Life!Callers :
        /\ callers'[d].step = callers[d].step /\ callers'[d].kind = callers[d].kind
        /\ callers'[d].restart = callers[d].restart /\ callers'[d].found = callers[d].found
        /\ callers'[d].action = callers[d].action
        /\ callers'[d].answer = callers[d].answer \/ callers'[d].answer = "lost"
  BY <1>3
<1>5. /\ q \in Seq(LifeQueued) /\ DOMAIN q = 1..Len(q) /\ Len(q) \in Nat
      /\ n \in Seq(LifeQueued) /\ DOMAIN n = DOMAIN q
      /\ \A i \in DOMAIN q : IF q[i].from = c THEN n[i].from = None ELSE n[i] = q[i]
  <2>1. q \in Seq(LifeQueued) /\ DOMAIN q = 1..Len(q) /\ Len(q) \in Nat
    BY <1>1, <1>2, QueueTyped
  <2>2. \A e \in LifeQueued :
          /\ Let(e) \in LifeQueued
          /\ IF e.from = c THEN Let(e).from = None ELSE Let(e) = e
    BY DEF LifeQueued
  <2> HIDE DEF Let, q
  <2>3. \A i \in DOMAIN q : n[i] = Let(q[i]) /\ q[i] \in LifeQueued
    BY <2>1
  <2>4. n \in [1..Len(q) -> LifeQueued] /\ DOMAIN n = DOMAIN q
    BY <2>1, <2>2, <2>3
  <2>5. n \in Seq(LifeQueued)
    BY <2>1, <2>4, SeqDef
  <2>6. \A i \in DOMAIN q : IF q[i].from = c THEN n[i].from = None ELSE n[i] = q[i]
    BY <2>2, <2>3
  <2> QED
    BY <2>1, <2>4, <2>5, <2>6
<1> HIDE DEF n, Let
<1>6. /\ agents' \in [Life!Agents -> LifeProcess]
      /\ \A b \in Life!Agents : agents'[b].phase = agents[b].phase
      /\ agents'[g].queue = n
      /\ \A b \in Life!Agents \ {g} : agents'[b] = agents[b]
  <2>1. agents' \in [Life!Agents -> LifeProcess]
    BY <1>1, <1>5, <1>2, ProcessAltered DEF LifeShaped
  <2> HIDE DEF q
  <2> QED
    BY <1>1, <1>2, <2>1 DEF LifeShaped, LifeProcess
<1>u. UNCHANGED <<endpoint, web, mariadb, desktop, startLock, tray, displaced, halted>>
  BY DEF Life!AnswerLate, Life!services
<1>k. callers'["quit"].step = "idle"
        => callers'["quit"].agent = None /\ callers'["quit"].answer = None
  <2>1. CASE c = "quit"
    BY <1>1, <1>3, <2>1 DEF CallsFit, Life!AnswerLate
  <2>2. CASE c # "quit"
    BY <1>1, <1>w, <1>3, <2>2 DEF CallsFit
  <2> QED
    BY <2>1, <2>2
<1>7. LifeShaped'
  BY <1>1, <1>3, <1>6, <1>u DEF LifeShaped
<1>8. QueueFits'
  <2> SUFFICES ASSUME NEW a \in Life!Agents, NEW i \in DOMAIN agents'[a].queue,
                        agents'[a].queue[i].from # None
               PROVE  /\ callers'[agents'[a].queue[i].from].agent = a
                      /\ callers'[agents'[a].queue[i].from].answer = None
                      /\ Awaits(callers'[agents'[a].queue[i].from], agents'[a].queue[i].kind)
                      /\ \A j \in DOMAIN agents'[a].queue : j # i
                           => agents'[a].queue[j].from # agents'[a].queue[i].from
    BY QueueFitsNext
  <2>1. CASE a = g
    <3>1. i \in DOMAIN q /\ agents'[a].queue = n /\ n[i] = q[i] /\ q[i].from # c
      BY <1>5, <1>6, <2>1
    <3>2. /\ q[i].from \in Life!Callers \ {c}
          /\ callers[q[i].from].agent = a /\ callers[q[i].from].answer = None
          /\ Awaits(callers[q[i].from], q[i].kind)
          /\ \A j \in DOMAIN q : j # i => q[j].from # q[i].from
      BY <1>1, <1>2, <2>1, <3>1, QueueTyped DEF QueueFits
    <3>3. \A j \in DOMAIN n : j # i => n[j].from # q[i].from
      <4>1. \A j \in DOMAIN n : n[j].from = None \/ n[j] = q[j]
        BY <1>5
      <4>2. q[i].from # None
        BY <3>1
      <4> QED
        BY <1>5, <3>2, <4>1, <4>2
    <3>4. callers'[q[i].from] = callers[q[i].from]
      BY <1>3, <3>2
    <3> HIDE DEF q
    <3> QED
      BY <3>1, <3>2, <3>3, <3>4
  <2>2. CASE a # g
    <3>1. agents'[a] = agents[a]
      BY <1>6, <2>2
    <3>2. /\ agents[a].queue[i].from \in Life!Callers
          /\ callers[agents[a].queue[i].from].agent = a
          /\ callers[agents[a].queue[i].from].answer = None
          /\ Awaits(callers[agents[a].queue[i].from], agents[a].queue[i].kind)
          /\ \A j \in DOMAIN agents[a].queue : j # i
               => agents[a].queue[j].from # agents[a].queue[i].from
      BY <1>1, <3>1, QueueTyped DEF QueueFits
    <3>3. agents[a].queue[i].from # c
      BY <2>2, <3>2 DEF g
    <3>4. callers'[agents[a].queue[i].from] = callers[agents[a].queue[i].from]
      BY <1>3, <3>2, <3>3
    <3> QED
      BY <3>1, <3>2, <3>4
  <2> QED
    BY <2>1, <2>2
<1>9. /\ CallsFit' /\ LockHeld' /\ Life!ShutdownLeavesNothing' /\ FoundHeld'
      /\ TrayPending' /\ StartsDone'
  BY <1>1, <1>w, <1>4, <1>k, <1>u, <1>6 DEF CallsFit, LockHeld, Life!ShutdownLeavesNothing,
     FoundHeld, Life!Quit, Life!Listening, TrayPending, Refreshes, StartsDone, Back
<1>10. Life!UpgradeRestarts
  BY <1>w, <1>4 DEF Life!UpgradeRestarts
<1> QED
  BY <1>7, <1>8, <1>9, <1>10 DEF LifeInv

\* The Agents' steps keep the invariant.
LEMMA LifeAgents ==
  ASSUME LifeAssumption, LifeInv, NEW a \in Life!Agents,
         Life!Probe(a) \/ Life!Bind(a) \/ Life!StartFails(a) \/ Life!Serve(a)
           \/ Life!Exit(a) \/ Life!Crash(a)
  PROVE  LifeInv' /\ Life!UpgradeRestarts
<1>1. CASE Life!Probe(a) \/ Life!StartFails(a)
  <2>1. PICK p \in {"free", "stale", "serving", "gone"} : Life!Phase(a, p)
    BY <1>1 DEF Life!Probe, Life!StartFails
  <2>2. /\ agents[a].phase \in {"preparing", "free", "stale"} /\ endpoint' = endpoint
        /\ displaced' = displaced
        /\ UNCHANGED <<Life!services, desktop, startLock, callers, tray, halted>>
    BY <1>1 DEF Life!Probe, Life!StartFails
  <2> QED
    BY <2>1, <2>2, LifeComesUp
<1>2. CASE Life!Bind(a)
  <2>1. PICK p \in {"free", "stale", "serving", "gone"} :
          /\ Life!Phase(a, p)
          /\ \/ endpoint' = endpoint /\ displaced' = displaced
             \/ endpoint' = a /\ Life!Displace
    BY <1>2 DEF Life!Bind
  <2>2. /\ agents[a].phase \in {"preparing", "free", "stale"}
        /\ UNCHANGED <<Life!services, desktop, startLock, callers, tray, halted>>
    BY <1>2 DEF Life!Bind
  <2> QED
    BY <2>1, <2>2, LifeComesUp
<1>3. CASE Life!Serve(a)
  BY <1>3, LifeServe
<1>4. CASE Life!Exit(a) \/ Life!Crash(a)
  <2>1. /\ agents[a].phase \notin {"none", "gone"}
        /\ agents' = [agents EXCEPT ![a].phase = "gone", ![a].queue = <<>>] /\ Life!Cut(a)
        /\ UNCHANGED <<Life!services, desktop, startLock, tray, halted>>
    BY <1>4 DEF Life!Exit, Life!Crash
  <2>2. /\ endpoint' = endpoint \/ (endpoint' = None /\ (endpoint = a \/ ~Windows))
        /\ displaced \subseteq displaced'
        /\ endpoint' # endpoint /\ Life!Reached # a /\ Life!Reached # None
             => Life!Reached \in displaced'
    <3>1. CASE Life!Exit(a)
      BY <3>1, LifeWho DEF Life!Exit, Life!Reached
    <3>2. CASE Life!Crash(a)
      BY <3>2 DEF Life!Crash, Life!Reached
    <3> QED
      BY <1>4, <3>1, <3>2
  <2> QED
    BY <2>1, <2>2, LifeEnds
<1> QED
  BY <1>1, <1>2, <1>3, <1>4

\* A task that does not wait for an answer is behind no queued request.
LEMMA TaskWaits ==
  ASSUME LifeAssumption, LifeInv, NEW t \in Tasks
  PROVE  /\ t \in Life!Callers
         /\ \/ callers[t].answer # None
            \/ callers[t].step \in {"idle", "lock", "oldDown", "spawn", "ready", "ping",
                                   "down", "leave"}
            => Silent(t)
         /\ callers[t].step \in Upgrading => startLock = t
BY LifeWho, NoneQueued DEF LifeInv, LockHeld

\* The steps of an upgrade keep the invariant.
LEMMA LifeUpgrades ==
  ASSUME LifeAssumption, LifeInv, NEW t \in Tasks,
         Life!OldAnswers(t) \/ Life!OldDown(t) \/ Life!Spawn(t) \/ Life!Ready(t)
           \/ Life!Restarted(t) \/ Life!EnsureFails(t)
  PROVE  LifeInv' /\ Life!UpgradeRestarts
<1>1. /\ callers[t].step \in Upgrading /\ callers[t].step # "idle" /\ startLock = t
      /\ Silent(t)
  BY TaskWaits DEF Life!OldAnswers, Life!OldDown, Life!Spawn, Life!Ready, Life!Restarted,
     Life!EnsureFails, Upgrading
<1>2. CASE Life!GiveUp(t)
  <2>1. /\ Life!Fail(t) /\ (startLock' = startLock \/ (startLock = t /\ startLock' = None))
        /\ UNCHANGED <<agents, endpoint, Life!services, desktop, displaced, halted>>
    BY <1>2 DEF Life!GiveUp
  <2> QED
    BY <1>1, <2>1, LifeGivesUp
<1>3. LifeShaped /\ StartsDone /\ t \in Life!Callers
  BY LifeWho DEF LifeInv
<1>4. /\ agents \in [Life!Agents -> LifeProcess]
      /\ callers[t].restart \subseteq {"web", "mariadb"}
  BY <1>3 DEF LifeShaped, Life!Calls
<1>5. CASE Life!OldAnswers(t) /\ ~Life!GiveUp(t)
  <2>1. /\ Life!Move(t, "oldDown") /\ halted' = {}
        /\ UNCHANGED <<agents, endpoint, Life!services, desktop, startLock, tray,
             displaced>>
    BY <1>5 DEF Life!OldAnswers
  <2>2. "oldDown" \in LifeSteps \ {"idle"}
    BY DEF LifeSteps
  <2> QED
    BY <1>1, <1>4, <2>1, <2>2, LifeGoesOn
<1>6. CASE Life!OldDown(t)
  <2>1. /\ Life!Move(t, "spawn")
        /\ UNCHANGED <<agents, endpoint, Life!services, desktop, startLock, tray, displaced,
             halted>>
    BY <1>6 DEF Life!OldDown
  <2>2. "spawn" \in LifeSteps \ {"idle"}
    BY DEF LifeSteps
  <2> QED
    BY <1>1, <1>4, <2>1, <2>2, LifeGoesOn
<1>7. CASE Life!Spawn(t)
  <2>1. /\ Life!Move(t, "ready") /\ Life!Unlink
        /\ Life!Displace \/ (Windows /\ displaced' = displaced)
        /\ UNCHANGED <<Life!services, desktop, startLock, tray, halted>>
    BY <1>7 DEF Life!Spawn
  <2>2. PICK a \in Life!Agents :
          agents[a].phase = "none" /\ agents' = [agents EXCEPT ![a].phase = "preparing"]
    BY <1>7 DEF Life!Spawn, Life!Phase
  <2>3. "ready" \in LifeSteps \ {"idle"} /\ "preparing" \in LifePhases
    BY DEF LifeSteps, LifePhases
  <2>4. agents' \in [Life!Agents -> LifeProcess]
    BY <1>4, <2>2, <2>3, ProcessAltered
  <2>5. \A b \in Life!Agents :
          /\ agents'[b].queue = agents[b].queue
          /\ \/ agents'[b].phase = agents[b].phase
             \/ agents[b].phase = "none" /\ agents'[b].phase = "preparing"
    BY <1>4, <2>2 DEF LifeProcess
  <2> QED
    BY <1>1, <2>1, <2>3, <2>4, <2>5, LifeGoesOn
<1>8. ASSUME NEW started, Life!Proceed(t, started),
             callers[t].step \in {"ready", "startWeb", "startMariaDb"},
             "mariadb" \in started
               => callers[t].step = "startMariaDb" /\ callers[t].answer = "ok",
             "web" \in started
               => \/ callers[t].step = "startMariaDb"
                  \/ (callers[t].step = "startWeb" /\ callers[t].answer = "ok")
      PROVE  LifeInv' /\ Life!UpgradeRestarts
  <2> DEFINE s == Life!NextStart(t, started)
  <2>1. s \in {"startWeb", "startMariaDb", "send"} /\ s \in LifeSteps \ {"idle"}
    BY DEF Life!NextStart, LifeSteps
  <2>2. /\ s # "startWeb" => "web" \notin callers[t].restart \/ "web" \in started
        /\ s = "send" => "mariadb" \notin callers[t].restart \/ "mariadb" \in started
    BY DEF Life!NextStart
  <2>3. /\ Life!Move(t, s) /\ startLock' = IF s = "send" THEN None ELSE t
        /\ UNCHANGED <<agents, endpoint, Life!services, desktop, tray, displaced, halted>>
    BY <1>8 DEF Life!Proceed
  <2> HIDE DEF s
  <2>4. /\ "web" \in started /\ "web" \in callers[t].restart => Back("web", web)
        /\ "mariadb" \in started => Back("mariadb", mariadb)
    BY <1>3, <1>8 DEF StartsDone
  <2>5. s = "send" =>
          \A x \in callers[t].restart :
            (x = "web" /\ web # None) \/ (x = "mariadb" /\ mariadb # None) \/ x \in halted'
    BY <1>4, <2>2, <2>3, <2>4 DEF Back
  <2>6. s \in Upgrading => startLock' = t
    BY <2>1, <2>3 DEF Upgrading
  <2> QED
    BY <1>1, <1>4, <2>1, <2>2, <2>3, <2>4, <2>5, <2>6, LifeGoesOn
<1>9. CASE Life!Ready(t)
  BY <1>8, <1>9 DEF Life!Ready
<1>10. CASE Life!Restarted(t) /\ ~Life!GiveUp(t)
  <2>1. /\ callers[t].step \in {"startWeb", "startMariaDb"} /\ callers[t].answer = "ok"
        /\ Life!Proceed(t, IF callers[t].step = "startWeb" THEN {"web"}
             ELSE {"web", "mariadb"})
    BY <1>10 DEF Life!Restarted
  <2> QED
    BY <1>8, <2>1
<1> QED
  BY <1>2, <1>5, <1>6, <1>7, <1>9, <1>10 DEF Life!EnsureFails

\* The steps of the Desktop's tasks keep the invariant.
LEMMA LifeTasks ==
  ASSUME LifeAssumption, LifeInv, NEW t \in Tasks,
         Life!StopOld(t) \/ Life!Restart(t) \/ Life!Request(t) \/ Life!Answered(t)
  PROVE  LifeInv' /\ Life!UpgradeRestarts
<1>1. t \in Life!Callers /\ LifeShaped /\ CallsFit
  BY TaskWaits DEF LifeInv
<1>2. ASSUME NEW kind \in LifeAsked, Awaits(callers[t], kind), Life!Send(t, kind)
      PROVE  LifeInv' /\ Life!UpgradeRestarts
  BY <1>1, <1>2, LifeSends
<1>3. CASE Life!StopOld(t) \/ Life!Restart(t)
  BY <1>2, <1>3 DEF Life!StopOld, Life!Restart, LifeAsked, Awaits
<1>4. CASE Life!Request(t) /\ callers[t].kind # "GetStatus"
  <2>1. Life!Send(t, callers[t].kind) /\ callers[t].step = "send"
    BY <1>4 DEF Life!Request
  <2>2. callers[t].kind \in LifeAsked
    BY <1>1, LifeWho DEF LifeShaped, Life!Calls, LifeAsked
  <2> QED
    BY <1>2, <2>1, <2>2 DEF Awaits
<1>5. CASE Life!Request(t) /\ callers[t].kind = "GetStatus"
  <2>1. /\ callers[t].step = "send" /\ Life!Unsent(t)
        /\ UNCHANGED <<agents, endpoint, Life!services, desktop, startLock, tray, displaced,
             halted>>
    BY <1>5 DEF Life!Request
  <2>2. PICK answer \in {"lost", "ok"} : callers' = [callers EXCEPT ![t].answer = answer]
    BY <1>5 DEF Life!Request
  <2> QED
    BY <2>1, <2>2, LifeStatusSent
<1>6. CASE Life!Answered(t) /\ callers[t].answer = "ok"
  BY <1>6, LifeShows DEF Life!Answered
<1>7. CASE Life!Answered(t) /\ callers[t].answer # "ok"
  <2>1. /\ Silent(t) /\ callers[t].step # "idle" /\ Life!Fail(t)
        /\ UNCHANGED <<agents, endpoint, Life!services, desktop, startLock, displaced,
             halted>>
    BY <1>7, TaskWaits DEF Life!Answered
  <2> QED
    BY <2>1, LifeGivesUp
<1> QED
  BY <1>3, <1>4, <1>5, <1>6, <1>7

\* The command line's steps keep the invariant.
LEMMA LifeCli ==
  ASSUME LifeAssumption, LifeInv, Life!Cli
  PROVE  LifeInv' /\ Life!UpgradeRestarts
<1>1. /\ "cli" \in Life!Callers /\ LifeShaped
      /\ (callers["cli"].step = "idle" \/ callers["cli"].answer # None => Silent("cli"))
  BY LifeWho, NoneQueued DEF LifeInv
<1>2. CASE /\ Life!Idle("cli")
           /\ \E kind \in Kinds \ {"GetStatus"} :
                callers' = [callers EXCEPT !["cli"] =
                              [Life!NoCall EXCEPT !.step = "send", !.kind = kind]]
           /\ UNCHANGED <<agents, endpoint, Life!services, desktop, startLock, tray,
                displaced, halted, troubles>>
  <2>1. PICK kind \in Kinds :
          callers' = [callers EXCEPT !["cli"] =
                        [Life!NoCall EXCEPT !.step = "send", !.kind = kind]]
    BY <1>2
  <2>2. /\ "send" \in LifeSteps /\ kind \in Kinds \cup {"GetStatus", "none"}
        /\ None \in Life!Agents \cup {None}
    BY DEF LifeSteps
  <2>3. [Life!NoCall EXCEPT !.step = "send", !.kind = kind] \in Life!Calls
    BY <2>2, NewCalls
  <2> QED
    BY <1>1, <1>2, <2>1, <2>3, LifeCliTurns DEF Life!Idle
<1>3. CASE callers["cli"].step = "send" /\ Life!Send("cli", callers["cli"].kind)
  <2>1. callers["cli"].kind \in LifeAsked
    BY <1>1 DEF LifeShaped, Life!Calls, LifeAsked
  <2> QED
    BY <1>1, <1>3, <2>1, LifeSends DEF Awaits
<1>4. CASE /\ callers["cli"].answer # None
           /\ callers' = [callers EXCEPT !["cli"] = Life!NoCall]
           /\ UNCHANGED <<agents, endpoint, Life!services, desktop, startLock, tray,
                displaced, halted, Life!bounds>>
  <2>1. Life!NoCall \in Life!Calls
    BY NoCallIs
  <2> QED
    BY <1>1, <1>4, <2>1, LifeCliTurns
<1> QED
  BY <1>2, <1>3, <1>4 DEF Life!Cli

\* The steps of Quit keep the invariant.
LEMMA LifeQuit ==
  ASSUME LifeAssumption, LifeInv, Life!QuitSteps
  PROVE  LifeInv' /\ Life!UpgradeRestarts
<1>1. /\ "quit" \in Life!Callers /\ LifeShaped /\ CallsFit
      /\ callers["quit"].answer # None \/ callers["quit"].step \in {"ping", "down", "leave"}
           => Silent("quit")
  BY LifeWho, NoneQueued DEF LifeInv
<1>2. CASE Life!QuitAsked
  BY <1>2, LifeQuitAsked
<1>3. CASE Life!QuitPing
  <2>1. /\ callers["quit"].step = "ping"
        /\ UNCHANGED <<agents, Life!services, desktop, startLock, tray, halted>>
    BY <1>3 DEF Life!QuitPing, Life!Quit
  <2>2. CASE Life!Move("quit", "leave") /\ Life!Unlink /\ Life!Displace
    BY <1>1, <2>1, <2>2, LifeQuitMoves
  <2>3. CASE /\ Life!Reached # None /\ UNCHANGED <<endpoint, displaced>>
             /\ callers' = [callers EXCEPT !["quit"].step = "stop",
                              !["quit"].found = Life!Reached]
    BY <2>1, <2>3, LifeQuitFinds
  <2> QED
    BY <1>3, <2>2, <2>3 DEF Life!QuitPing
<1>4. CASE Life!QuitSends
  <2>1. PICK kind \in {"StopAll", "Shutdown"} :
          Life!Send("quit", kind) /\ Awaits(callers["quit"], kind)
    BY <1>4 DEF Life!QuitSends, Awaits, Life!Quit
  <2> QED
    BY <1>1, <2>1, LifeSends DEF LifeAsked
<1>5. ASSUME Life!QuitFails, callers["quit"].step # "idle",
             \/ callers["quit"].answer # None
             \/ callers["quit"].step \in {"down", "leave"},
             UNCHANGED <<agents, endpoint, Life!services, desktop, startLock, displaced,
                         halted>>
      PROVE  LifeInv' /\ Life!UpgradeRestarts
  <2>1. desktop = "running"
    BY <1>1, <1>5, LifeWho DEF CallsFit, LifeShaped
  <2> QED
    BY <1>1, <1>5, <2>1, LifeQuitFails
<1>6. CASE Life!QuitAnswered
  <2>1. /\ Silent("quit")
        /\ UNCHANGED <<agents, endpoint, Life!services, desktop, startLock, displaced,
             halted>>
    BY <1>1, <1>6 DEF Life!QuitAnswered, Life!Quit
  <2>2. CASE callers["quit"].step = "stop" /\ callers["quit"].answer # "lost"
    BY <1>6, <2>1, <2>2, LifeQuitMoves DEF Life!QuitAnswered, Life!Quit
  <2>3. CASE callers["quit"].step = "shutdown" /\ callers["quit"].answer = "ok"
    BY <1>6, <2>1, <2>3, LifeQuitMoves DEF Life!QuitAnswered, Life!Quit
  <2>4. CASE Life!QuitFails
    <3>1. callers["quit"].answer # None /\ callers["quit"].step # "idle"
      BY <1>1, <1>6 DEF Life!QuitAnswered, Life!Quit, CallsFit
    <3> QED
      BY <1>5, <2>1, <2>4, <3>1
  <2> QED
    BY <1>6, <2>2, <2>3, <2>4 DEF Life!QuitAnswered, Life!Quit
<1>7. CASE Life!QuitDown \/ Life!QuitUnheard
  <2>1. /\ \/ callers["quit"].step = "down"
           \/ callers["quit"].step = "shutdown" /\ callers["quit"].answer # None
        /\ Life!Move("quit", "leave") /\ Life!Displace
        /\ endpoint' = endpoint \/ Life!Unlink
        /\ UNCHANGED <<agents, Life!services, desktop, startLock, tray, halted>>
    BY <1>1, <1>7 DEF Life!QuitDown, Life!QuitUnheard, Life!Quit, LifeAssumption
  <2> QED
    BY <1>1, <2>1, LifeQuitMoves
<1>8. CASE Life!QuitGivesUp
  BY <1>5, <1>8 DEF Life!QuitGivesUp, Life!Quit
<1>9. CASE Life!Leave
  BY <1>9, LifeLeave
<1>10. CASE Life!AnswerLate("quit")
  BY <1>1, <1>10, LifeLate
<1> QED
  BY <1>2, <1>3, <1>4, <1>6, <1>7, <1>8, <1>9, <1>10 DEF Life!QuitSteps

\* Every step keeps the invariant, and an upgrade that is finished has restarted
\* what it stopped.
LEMMA LifeStep ==
  ASSUME LifeAssumption, LifeInv, [Life!Next]_Life!vars
  PROVE  LifeInv' /\ Life!UpgradeRestarts
<1>1. CASE Life!AgentSteps
  BY <1>1, LifeAgents DEF Life!AgentSteps
<1>2. CASE Life!TaskSteps
  <2>1. PICK t \in Tasks :
          \/ \E kind \in Kinds, action \in BOOLEAN : Life!Ask(t, kind, action)
          \/ Life!Ping(t) \/ Life!StopOld(t) \/ Life!OldAnswers(t) \/ Life!OldDown(t)
          \/ Life!Spawn(t) \/ Life!Ready(t) \/ Life!Restart(t) \/ Life!Restarted(t)
          \/ Life!EnsureFails(t) \/ Life!Request(t) \/ Life!Answered(t) \/ Life!AnswerLate(t)
    BY <1>2 DEF Life!TaskSteps
  <2>2. t \in Life!Callers
    BY LifeWho
  <2> QED
    BY <2>1, <2>2, LifeAsk, LifePing, LifeUpgrades, LifeTasks, LifeLate
<1>3. CASE Life!Cli
  BY <1>3, LifeCli
<1>4. CASE Life!QuitSteps
  BY <1>4, LifeQuit
<1>5. CASE UNCHANGED Life!vars
  <2>1. UNCHANGED <<agents, endpoint, web, mariadb, desktop, startLock, callers, tray,
          displaced, halted>>
    BY <1>5 DEF Life!vars, Life!services
  <2>2. /\ LifeShaped /\ QueueFits /\ CallsFit /\ LockHeld /\ Life!ShutdownLeavesNothing
        /\ FoundHeld /\ TrayPending /\ StartsDone
    BY DEF LifeInv
  <2>3. LifeShaped' /\ CallsFit' /\ LockHeld' /\ Life!ShutdownLeavesNothing'
    BY <2>1, <2>2 DEF LifeShaped, CallsFit, LockHeld, Life!ShutdownLeavesNothing
  <2>4. QueueFits'
    BY <2>1, <2>2, QueuesUntouched
  <2>5. FoundHeld' /\ TrayPending' /\ StartsDone'
    BY <2>1, <2>2 DEF FoundHeld, Life!Quit, Life!Listening, TrayPending, StartsDone, Back
  <2>6. Life!UpgradeRestarts
    BY <2>1 DEF Life!UpgradeRestarts
  <2> QED
    BY <2>2, <2>3, <2>4, <2>5, <2>6 DEF LifeInv
<1> QED
  BY <1>1, <1>2, <1>3, <1>4, <1>5 DEF Life!Next, Life!Done

\* The invariant holds initially.
LEMMA LifeInit == ASSUME LifeAssumption, Life!Init PROVE LifeInv
<1>1. /\ Life!NoCall \in Life!Calls /\ Life!NoCall.step = "idle"
      /\ Life!NoCall.found = None /\ Life!NoCall.answer = None /\ Life!NoCall.agent = None
  BY NoCallIs
<1>2. PICK first \in {"none", "serving"}, old \in BOOLEAN :
        /\ agents = [a \in Life!Agents |-> [phase |-> IF a = 1 THEN first ELSE "none",
                                          old |-> old /\ a = 1, queue |-> <<>>]]
        /\ endpoint = IF first = "none" THEN None ELSE 1
        /\ web \in (IF first = "none" THEN {None} ELSE {None, 1})
        /\ mariadb \in (IF first = "none" THEN {None} ELSE {None, 1})
  BY DEF Life!Init
<1>3. 1 \in Life!Agents
  BY DEF LifeAssumption, Life!Agents
<1>4. agents \in [Life!Agents -> LifeProcess]
  <2>1. \A a \in Life!Agents :
          [phase |-> IF a = 1 THEN first ELSE "none", old |-> old /\ a = 1, queue |-> <<>>]
            \in LifeProcess
    <3> SUFFICES ASSUME NEW a \in Life!Agents
                 PROVE  [phase |-> IF a = 1 THEN first ELSE "none",
                         old |-> old /\ a = 1, queue |-> <<>>] \in LifeProcess
      OBVIOUS
    <3>1. <<>> \in Seq(LifeQueued)
      OBVIOUS
    <3>2. (IF a = 1 THEN first ELSE "none") \in LifePhases
      BY <1>2 DEF LifePhases
    <3>3. (old /\ a = 1) \in BOOLEAN
      OBVIOUS
    <3> DEFINE p == IF a = 1 THEN first ELSE "none"
               o == old /\ a = 1
               Q == Seq(LifeQueued)
    <3> HIDE DEF p, o, Q
    <3>4. [phase |-> p, old |-> o, queue |-> <<>>]
            \in [phase : LifePhases, old : BOOLEAN, queue : Q]
      BY <3>1, <3>2, <3>3 DEF p, o, Q
    <3> QED
      BY <3>4 DEF p, o, Q, LifeProcess
  <2> QED
    BY <1>2, <2>1
<1>5. \A a \in Life!Agents :
        agents[a].queue = <<>> /\ agents[a].phase \in {"none", "serving"}
  BY <1>2
<1>6. /\ callers \in [Life!Callers -> Life!Calls]
      /\ \A c \in Life!Callers : callers[c] = Life!NoCall
  BY <1>1 DEF Life!Init
<1>7. tray \in LifeTray /\ tray.webOn = TRUE
  BY DEF Life!Init, Life!Usable, LifeTray
<1>8. LifeShaped
  BY <1>2, <1>3, <1>4, <1>6, <1>7 DEF Life!Init, LifeShaped
<1>9. QueueFits /\ Life!ShutdownLeavesNothing
  BY <1>5 DEF QueueFits, Life!ShutdownLeavesNothing
<1>10. CallsFit /\ LockHeld /\ FoundHeld /\ TrayPending /\ StartsDone
  <2>1. /\ \A c \in Life!Callers : callers[c].step = "idle" /\ callers[c].found = None
        /\ \A c \in Life!Callers : callers[c].agent = None /\ callers[c].answer = None
        /\ "quit" \in Life!Callers /\ Tasks \subseteq Life!Callers /\ desktop = "running"
    BY <1>1, <1>6, LifeWho DEF Life!Init
  <2> QED
    BY <1>7, <2>1 DEF CallsFit, LockHeld, Upgrading, FoundHeld, Life!Quit, TrayPending,
       StartsDone
<1> QED
  BY <1>8, <1>9, <1>10 DEF LifeInv

\* The invariant of AgentLifecycle, and its action property.
LEMMA LifeHolds == ASSUME LifeAssumption, LifeInv PROVE Life!TypeOK /\ Life!StopsAsked
<1>1. Life!TypeOK
  BY DEF LifeInv, LifeShaped, LifeProcess, LifePhases, Life!TypeOK
<1>2. Life!ShutdownLeavesNothing
  BY DEF LifeInv
<1>3. Life!QuitStopsWhatItFound
  BY DEF LifeInv, FoundHeld, Life!QuitStopsWhatItFound
<1>4. Life!TrayRecovers
  <2> SUFFICES ASSUME desktop = "running", \A c \in Life!Callers \ {"cli"} : Life!Idle(c)
               PROVE  tray.webOn
    BY DEF Life!TrayRecovers
  <2>1. "quit" \in Life!Callers \ {"cli"} /\ Tasks \subseteq Life!Callers \ {"cli"}
    BY LifeWho
  <2> QED
    BY <2>1 DEF LifeInv, TrayPending, Refreshes, Life!Idle, Life!Quit
<1> QED
  BY <1>1, <1>2, <1>3, <1>4 DEF Life!StopsAsked

\* Every state of AgentLifecycle is typed; an Agent that is closing runs no service
\* any more, the Agent that Quit found is gone when the Desktop has exited, and the
\* tray can be used again once nothing is under way (StopsAsked); and an upgrade
\* that is done has restarted what the old Agent ran (UpgradesRestart):
\* handle_request, ensure_agent_running, shutdown_agent_before_exit and the tray's
\* handlers.
THEOREM LifecycleHolds ==
  ASSUME LifeAssumption
  PROVE  Life!Spec => [](Life!TypeOK /\ Life!StopsAsked) /\ Life!UpgradesRestart
<1>1. Life!Init => LifeInv
  BY LifeInit
<1>2. LifeInv /\ [Life!Next]_Life!vars => LifeInv'
  BY LifeStep
<1>3. LifeInv /\ [Life!Next]_Life!vars => Life!UpgradeRestarts
  BY LifeStep
<1>4. LifeInv => Life!TypeOK /\ Life!StopsAsked
  BY LifeHolds
<1> QED
  BY <1>1, <1>2, <1>3, <1>4, PTL DEF Life!Spec, Life!UpgradesRestart
=============================================================================
