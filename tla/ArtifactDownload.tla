-------------------------- MODULE ArtifactDownload --------------------------
(***************************************************************************)
(* The transfer of one verified file: a Runtime package for the Agent or   *)
(* the installer of a newer fabDev for the desktop.  There is at most one  *)
(* attempt at a time (the download manager, APP_UPDATE_LOCK).  A release   *)
(* has a file name of its own, and beside it a ".part" and, on Windows,    *)
(* one ".resume" file per segment.                                         *)
(*                                                                         *)
(* A file is the sequence of its chunks, each "right" or "wrong"; it       *)
(* matches the SHA-256 when it is all there and all right.  A segment is   *)
(* one chunk.  The server, the disk and the network go wrong at most       *)
(* MaxFaults times.                                                        *)
(***************************************************************************)
EXTENDS Naturals, Sequences, SequencesExt

CONSTANTS
  Installer,    \* the app installer, not a Runtime package
  Segmented,    \* Windows x64
  Size,         \* chunks in a file
  Releases,     \* 1..n, published in this order
  MaxFaults,
  Absent

VARIABLES
  newest,       \* the release that the catalog or the manifest offers
  running,      \* the version of fabDev that runs; 0 for a Runtime package
  target,       \* target[r]: the finished file
  partial,      \* partial[r]: the ".part" file
  segments,     \* segments[r][i]: Absent, "short", "right" or "wrong"
  pending,      \* the release named by the pending manifest of the app update
  at,           \* what the attempt does next
  wanted,       \* its release
  fetched,      \* the chunks it has hashed
  cancelled,    \* its cancellation flag
  outcome,      \* of the last attempt
  faultless,    \* history: nothing has gone wrong in the current attempt
  failures,     \* history: faultless attempts that failed since the last fault
  spoiled,      \* history: releases whose finished file was damaged
  interrupted,  \* history: releases whose segments stayed after they were finished
  mishaps

files == <<target, partial, segments, pending>>
attempt == <<at, wanted, fetched, cancelled, outcome>>
history == <<faultless, failures, spoiled, interrupted>>
vars == <<newest, running, files, attempt, history, mishaps>>

Pieces == 1..Size
Chunk == {"right", "wrong"}
Whole == [i \in Pieces |-> "right"]
NoSegments == [i \in Pieces |-> Absent]

Init ==
  /\ newest = 1 /\ running = 0
  /\ target = [r \in Releases |-> Absent]
  /\ partial = [r \in Releases |-> Absent]
  /\ segments = [r \in Releases |-> NoSegments]
  /\ pending = Absent
  /\ at = "idle" /\ wanted = 1 /\ fetched = <<>> /\ cancelled = FALSE /\ outcome = "none"
  /\ faultless = TRUE /\ failures = 0 /\ spoiled = {} /\ interrupted = {} /\ mishaps = 0

Publish ==
  /\ newest + 1 \in Releases /\ newest' = newest + 1
  /\ UNCHANGED <<running, files, attempt, history, mishaps>>

Go(state) == at' = state /\ UNCHANGED <<wanted, fetched, cancelled, outcome>>

\* Something outside goes wrong, once more.
Fault ==
  /\ mishaps < MaxFaults /\ mishaps' = mishaps + 1
  /\ faultless' = FALSE /\ failures' = 0

Fine == UNCHANGED <<faultless, failures, mishaps>>

Done(result) ==
  at' = "idle" /\ outcome' = result /\ fetched' = <<>> /\ cancelled' = FALSE /\ UNCHANGED wanted

\* An attempt that was not disturbed, and fails: what it found was no good.
DoneBadly ==
  /\ Done("failed")
  /\ failures' = IF faultless THEN failures + 1 ELSE failures
  /\ UNCHANGED <<faultless, mishaps>>

SetPartial(content) == partial' = [partial EXCEPT ![wanted] = content]
DropSegments == segments' = [segments EXCEPT ![wanted] = NoSegments]

-----------------------------------------------------------------------------
(* Around the transfer.                                                    *)

\* The release is the one of the cached catalog or of the manifest.
Begin ==
  /\ at = "idle"
  /\ wanted' = newest /\ at' = "selected" /\ fetched' = <<>> /\ cancelled' = FALSE /\ outcome' = "none"
  /\ faultless' = TRUE
  /\ UNCHANGED <<newest, running, files, failures, spoiled, interrupted, mishaps>>

\* macOS has no cancellation of an app update.
Cancel ==
  /\ at # "idle" /\ ~cancelled /\ (Installer => Segmented)
  /\ cancelled' = TRUE
  /\ UNCHANGED <<newest, running, files, at, wanted, fetched, outcome, history, mishaps>>

\* A cancellation this early cleans up nothing.
SelectCancelled ==
  /\ at = "selected" /\ cancelled
  /\ Done("cancelled early")
  /\ UNCHANGED <<newest, running, files, history, mishaps>>

\* The app update has to be newer than what runs.
SelectUpToDate ==
  /\ at = "selected" /\ Installer /\ ~cancelled /\ wanted <= running
  /\ Done("none")
  /\ UNCHANGED <<newest, running, files, history, mishaps>>

\* The manifest cannot be fetched.
SelectFails ==
  /\ at = "selected" /\ Installer /\ Fault /\ Done("failed")
  /\ UNCHANGED <<newest, running, files, spoiled, interrupted>>

\* The file that is renamed into place has just been verified.
Finish(content) ==
  /\ target' = [target EXCEPT ![wanted] = content]
  /\ spoiled' = spoiled \ {wanted}

Failed == UNCHANGED <<target, spoiled>> /\ DoneBadly

\* A finished file is used again if it verifies, and removed if not.
Prepare ==
  /\ at = "selected" /\ ~cancelled /\ (Installer => wanted > running)
  /\ IF target[wanted] = Whole
       THEN Go("delivered") /\ UNCHANGED files
       ELSE /\ Go("transfer")
            /\ target' = [target EXCEPT ![wanted] = Absent]
            /\ SetPartial(IF Installer THEN Absent ELSE partial[wanted])
            /\ UNCHANGED <<segments, pending>>
  /\ Fine /\ UNCHANGED <<newest, running, spoiled, interrupted>>

\* The Agent discards a package whose download was cancelled meanwhile.
DeliverPackage ==
  /\ at = "delivered" /\ ~Installer
  /\ IF cancelled
       THEN target' = [target EXCEPT ![wanted] = Absent] /\ Done("cancelled")
       ELSE UNCHANGED target /\ Done("ok")
  /\ failures' = 0
  /\ UNCHANGED <<newest, running, partial, segments, pending, faultless, mishaps, spoiled, interrupted>>

\* The pending manifest is removed and then replaced; a cancellation is no
\* longer looked at.
RemoveManifest ==
  /\ at = "delivered" /\ Installer
  /\ pending' = Absent /\ Go("manifest")
  /\ Fine /\ UNCHANGED <<newest, running, target, partial, segments, spoiled, interrupted>>

WriteManifest ==
  /\ at = "manifest"
  /\ pending' = wanted /\ Done("ok") /\ failures' = 0
  /\ UNCHANGED <<newest, running, target, partial, segments, faultless, mishaps, spoiled, interrupted>>

WriteManifestFails ==
  /\ at \in {"delivered", "manifest"} /\ Installer /\ Fault /\ Done("failed")
  /\ UNCHANGED <<newest, running, files, spoiled, interrupted>>

\* What a failed transfer leaves: the app update drops its ".part", the
\* package keeps it for the next attempt.
AfterFailure(content) == SetPartial(IF Installer THEN Absent ELSE content)

-----------------------------------------------------------------------------
(* One stream, resumed with a Range for a package.                         *)

\* Cancelled before a request or while one waits.
TransferCancelled ==
  /\ at \in {"transfer", "body"} /\ ~Segmented /\ cancelled
  /\ SetPartial(Absent) /\ Done("cancelled")
  /\ UNCHANGED <<newest, running, target, segments, pending, history, mishaps>>

\* A ".part" of full length is verified, and removed when it does not match.
FinishPartial ==
  /\ at = "transfer" /\ ~Segmented /\ ~cancelled
  /\ partial[wanted] # Absent /\ Len(partial[wanted]) = Size
  /\ SetPartial(Absent)
  /\ IF partial[wanted] = Whole
       THEN Finish(Whole) /\ Go("delivered") /\ Fine
       ELSE Failed
  /\ UNCHANGED <<newest, running, segments, pending, interrupted>>

\* What is already there is hashed; the answer goes on from it, or starts
\* the file and the hash again.
Respond ==
  /\ at = "transfer" /\ ~Segmented /\ ~cancelled
  /\ LET there == IF partial[wanted] = Absent THEN <<>> ELSE partial[wanted]
     IN  /\ Len(there) < Size
         /\ \E restart \in BOOLEAN :
              LET kept == IF restart THEN <<>> ELSE there
              IN  fetched' = kept /\ SetPartial(kept)
  /\ at' = "body" /\ UNCHANGED <<wanted, cancelled, outcome>>
  /\ Fine /\ UNCHANGED <<newest, running, target, segments, pending, spoiled, interrupted>>

\* No answer, an error status or a wrong Content-Range keeps the ".part"; a
\* resumed answer of the wrong length drops it.
RespondFails ==
  /\ at = "transfer" /\ ~Segmented /\ ~cancelled /\ Fault
  /\ \E wrongLength \in BOOLEAN :
       AfterFailure(IF wrongLength THEN Absent ELSE partial[wanted])
  /\ Done("failed")
  /\ UNCHANGED <<newest, running, target, segments, pending, spoiled, interrupted>>

Receive(chunk) ==
  /\ at = "body" /\ ~cancelled /\ Len(fetched) < Size
  /\ fetched' = Append(fetched, chunk)
  /\ SetPartial(Append(partial[wanted], chunk))
  /\ UNCHANGED <<newest, running, target, segments, pending, at, wanted, cancelled, outcome,
                 spoiled, interrupted>>

ReceiveChunk ==
  \/ Receive("right") /\ Fine
  \/ Receive("wrong") /\ Fault

\* The connection breaks or ends early, a write fails, or too much is sent.
BodyFails ==
  /\ at = "body" /\ ~cancelled /\ Fault
  /\ \/ AfterFailure(partial[wanted])
     \/ partial[wanted] # <<>> /\ AfterFailure(Front(partial[wanted]))
     \/ SetPartial(Absent)
  /\ Done("failed")
  /\ UNCHANGED <<newest, running, target, segments, pending, spoiled, interrupted>>

\* Fault: a mismatch leaves the ".part" to be resumed.
FinishBodyKeeping ==
  /\ at = "body" /\ ~cancelled /\ Len(fetched) = Size
  /\ IF fetched = Whole
       THEN Finish(partial[wanted]) /\ SetPartial(Absent) /\ Go("delivered") /\ Fine
       ELSE UNCHANGED partial /\ Failed
  /\ UNCHANGED <<newest, running, segments, pending, interrupted>>

\* The hash of the stream decides; what is renamed is the file.
FinishBody ==
  /\ at = "body" /\ ~cancelled /\ Len(fetched) = Size
  /\ SetPartial(Absent)
  /\ IF fetched = Whole
       THEN Finish(partial[wanted]) /\ Go("delivered") /\ Fine
       ELSE Failed
  /\ UNCHANGED <<newest, running, segments, pending, interrupted>>

-----------------------------------------------------------------------------
(* Windows: segments in parallel, combined and hashed at the end.          *)

\* A segment file of full length counts as fetched; a short one is dropped.
ScanSegments ==
  /\ at = "transfer" /\ Segmented /\ ~cancelled
  /\ SetPartial(Absent)
  /\ segments' = [segments EXCEPT ![wanted] =
       [i \in Pieces |-> IF @[i] \in Chunk THEN @[i] ELSE Absent]]
  /\ Go("segments")
  /\ Fine /\ UNCHANGED <<newest, running, target, pending, spoiled, interrupted>>

\* Cancelled before the segments are all there: nothing is left.
SegmentsCancelled ==
  /\ at \in {"transfer", "segments"} /\ Segmented /\ cancelled
  /\ SetPartial(Absent) /\ DropSegments /\ Done("cancelled")
  /\ UNCHANGED <<newest, running, target, pending, history, mishaps>>

SetSegment(i, content) == segments' = [segments EXCEPT ![wanted][i] = content]

CreateSegment(i) ==
  /\ at = "segments" /\ ~cancelled /\ segments[wanted][i] = Absent
  /\ SetSegment(i, "short")
  /\ Fine /\ UNCHANGED <<newest, running, target, partial, pending, attempt, spoiled, interrupted>>

\* The answer covers the range that was asked for.
FetchSegment(i) ==
  /\ at = "segments" /\ ~cancelled /\ segments[wanted][i] = "short"
  /\ SetSegment(i, "right") /\ Fine
  /\ UNCHANGED <<newest, running, target, partial, pending, attempt, spoiled, interrupted>>

\* A failed attempt at a segment removes it and is retried; its content may
\* also be wrong.
FetchSegmentBadly(i) ==
  /\ at = "segments" /\ ~cancelled /\ segments[wanted][i] = "short" /\ Fault
  /\ \E content \in {Absent, "wrong"} : SetSegment(i, content)
  /\ UNCHANGED <<newest, running, target, partial, pending, attempt, spoiled, interrupted>>

\* No range support, or a segment that failed every time: the others stop
\* where they are and keep what they have.
SegmentsFail ==
  /\ at = "segments" /\ ~cancelled /\ (\E i \in Pieces : segments[wanted][i] \notin Chunk) /\ Fault
  /\ \/ UNCHANGED segments
     \/ \E i \in Pieces : segments[wanted][i] = "short" /\ SetSegment(i, Absent)
  /\ Done("failed")
  /\ UNCHANGED <<newest, running, target, partial, pending, spoiled, interrupted>>

Fetched == \A i \in Pieces : segments[wanted][i] \in Chunk

\* From here on a cancellation is not looked at.
Combine ==
  /\ at = "segments" /\ ~cancelled /\ Fetched
  /\ SetPartial(segments[wanted]) /\ Go("combined")
  /\ Fine /\ UNCHANGED <<newest, running, target, segments, pending, spoiled, interrupted>>

CombineFails ==
  /\ at = "segments" /\ ~cancelled /\ Fetched /\ Fault
  /\ AfterFailure(Front(segments[wanted])) /\ Done("failed")
  /\ UNCHANGED <<newest, running, target, segments, pending, spoiled, interrupted>>

\* Fault: a mismatch keeps the segments.
FinishCombinedKeeping ==
  /\ at = "combined"
  /\ SetPartial(Absent)
  /\ IF partial[wanted] = Whole
       THEN Finish(Whole) /\ Go("cleanup") /\ Fine
       ELSE Failed
  /\ UNCHANGED <<newest, running, segments, pending, interrupted>>

FinishCombined ==
  /\ at = "combined"
  /\ SetPartial(Absent)
  /\ IF partial[wanted] = Whole
       THEN Finish(Whole) /\ Go("cleanup") /\ Fine /\ UNCHANGED segments
       ELSE Failed /\ DropSegments
  /\ UNCHANGED <<newest, running, pending, interrupted>>

\* A segment that cannot be removed is left.
CleanupSegments ==
  /\ at = "cleanup" /\ Go("delivered")
  /\ \/ DropSegments /\ Fine /\ interrupted' = interrupted \ {wanted}
     \/ /\ UNCHANGED segments /\ Fault
        /\ interrupted' = interrupted \cup {wanted}
  /\ UNCHANGED <<newest, running, target, partial, pending, spoiled>>

-----------------------------------------------------------------------------
(* The rest of the world.                                                  *)

\* The verified installer of the pending manifest is opened and replaces
\* what runs.
Install ==
  /\ Installer /\ at = "idle" /\ outcome = "ok" /\ pending # Absent
  /\ target[pending] = Whole
  /\ running' = pending /\ outcome' = "none"
  /\ UNCHANGED <<newest, files, at, wanted, fetched, cancelled, history, mishaps>>

\* The process ends.  The Agent removes every ".part" when it starts, the
\* desktop none.
Restart ==
  /\ at # "idle" /\ Fault /\ Done("none")
  /\ IF Installer THEN UNCHANGED partial
     ELSE partial' = [r \in Releases |-> Absent]
  /\ interrupted' = IF at = "cleanup" THEN interrupted \cup {wanted} ELSE interrupted
  /\ UNCHANGED <<newest, running, target, segments, pending, spoiled>>

\* The disk damages a file that was left.
Damage ==
  /\ at = "idle" /\ Fault
  /\ \E r \in Releases :
       \/ /\ target[r] = Whole
          /\ target' = [target EXCEPT ![r][1] = "wrong"]
          /\ spoiled' = spoiled \cup {r} /\ UNCHANGED segments
       \/ /\ \E i \in Pieces : segments[r][i] = "right" /\ segments' = [segments EXCEPT ![r][i] = "wrong"]
          /\ UNCHANGED <<target, spoiled>>
  /\ UNCHANGED <<newest, running, partial, pending, attempt, interrupted>>

Next ==
  \/ Publish \/ Begin \/ Cancel \/ SelectCancelled \/ SelectUpToDate \/ SelectFails \/ Prepare
  \/ DeliverPackage \/ RemoveManifest \/ WriteManifest \/ WriteManifestFails
  \/ TransferCancelled \/ FinishPartial \/ Respond \/ RespondFails
  \/ ReceiveChunk \/ BodyFails \/ FinishBody
  \/ ScanSegments \/ SegmentsCancelled \/ SegmentsFail
  \/ \E i \in Pieces : CreateSegment(i) \/ FetchSegment(i) \/ FetchSegmentBadly(i)
  \/ Combine \/ CombineFails \/ FinishCombined \/ CleanupSegments
  \/ Install \/ Restart \/ Damage

Spec == Init /\ [][Next]_vars

-----------------------------------------------------------------------------

\* Each variable has its type.
TypeOK ==
  /\ newest \in Releases /\ running \in Releases \cup {0} /\ wanted \in Releases
  /\ \A r \in Releases :
       /\ target[r] = Absent \/ target[r] \in [Pieces -> Chunk]
       /\ partial[r] = Absent \/ partial[r] \in SeqOf(Chunk, Size)
       /\ segments[r] \in [Pieces -> Chunk \cup {"short", Absent}]
  /\ pending \in Releases \cup {Absent}
  /\ at \in {"idle", "selected", "transfer", "body", "segments", "combined", "cleanup",
             "delivered", "manifest"}
  /\ fetched \in SeqOf(Chunk, Size) /\ cancelled \in BOOLEAN /\ faultless \in BOOLEAN
  /\ outcome \in {"none", "ok", "failed", "cancelled", "cancelled early"}
  /\ failures \in Nat /\ spoiled \subseteq Releases /\ interrupted \subseteq Releases
  /\ mishaps \in 0..MaxFaults

\* Whatever was resumed, restarted, retried or interrupted, a file under a
\* release's own name is the one its SHA-256 names, unless the disk damaged
\* it since; an attempt only ever delivers such a file, and the pending
\* manifest names one (download_cached_runtime_update, download_app_update).
OnlyVerified ==
  /\ at \in {"delivered", "manifest"} => target[wanted] = Whole
  /\ \A r \in Releases : target[r] \in {Absent, Whole} \/ r \in spoiled
  /\ pending # Absent => target[pending] = Whole \/ pending \in spoiled
  /\ outcome = "ok" =>
       /\ target[wanted] = Whole \/ wanted \in spoiled
       /\ Installer => pending = wanted

\* No file that an attempt leaves makes the next ones fail: once nothing
\* goes wrong any more, at most one further attempt fails.
RetrySucceeds == failures <= 1

\* A download that finished, or whose cancellation was noticed during the
\* transfer, leaves neither its ".part" nor a ".resume" (cleanup_segments).
NothingLeft ==
  at = "idle" /\ outcome \in {"ok", "cancelled"} /\ wanted \notin interrupted =>
    partial[wanted] = Absent /\ segments[wanted] = NoSegments

DownloadsHold == OnlyVerified /\ RetrySucceeds /\ NothingLeft
=============================================================================
