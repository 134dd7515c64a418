---------------------------- MODULE LogRotation ----------------------------
(***************************************************************************)
(* Rotation of one managed log (services rotate_log_file), while the       *)
(* service it belongs to keeps the file open and appends to it: the        *)
(* archives move up by one, the log is copied to the first, and truncated. *)
(* Entries are numbered as they are written.                               *)
(***************************************************************************)
EXTENDS Naturals, Sequences, SequencesExt

CONSTANTS
  MaxSize,     \* a log of this length is due
  Retention,   \* archives kept
  MaxEntries, MaxFaults   \* bounds

VARIABLES
  log,         \* the log
  archives,    \* <log>.1, <log>.2, ...: <<>> where there is none
  step,        \* what the rotation does next
  at,          \* the archive it is at
  written,     \* entries written so far
  late,        \* history: entries written between the copy and the truncation
  expired,     \* history: entries that left with the oldest archive
  faults

vars == <<log, archives, step, at, written, late, expired, faults>>

Init ==
  /\ log = <<>> /\ archives = [i \in 1..Retention |-> <<>>]
  /\ step = "idle" /\ at = 0
  /\ written = 0 /\ late = {} /\ expired = {} /\ faults = 0

Entries(f) == ToSet(f)

WriteEntry ==
  /\ written < MaxEntries
  /\ written' = written + 1
  /\ log' = Append(log, written + 1)
  /\ late' = IF step = "truncate" THEN late \cup {written + 1} ELSE late
  /\ UNCHANGED <<archives, step, at, expired, faults>>

\* The log has its size at the start of the services, in GetStatus or when the
\* timer looks: always under the lock of the services.
Due ==
  /\ step = "idle" /\ Len(log) >= MaxSize
  /\ step' = "drop" /\ at' = Retention
  /\ UNCHANGED <<log, archives, written, late, expired, faults>>

DropOldest ==
  /\ step = "drop"
  /\ archives' = [archives EXCEPT ![Retention] = <<>>]
  /\ expired' = expired \cup Entries(archives[Retention])
  /\ step' = IF Retention = 1 THEN "copy" ELSE "shift"
  /\ at' = Retention - 1
  /\ UNCHANGED <<log, written, late, faults>>

\* From the oldest to the newest; what is in the way is removed first.
Source == at

Shift ==
  /\ step = "shift"
  /\ LET i == Source
     IN archives' = IF archives[i] = <<>> THEN archives
                    ELSE [archives EXCEPT ![i + 1] = archives[i], ![i] = <<>>]
  /\ IF at = 1 THEN step' = "copy" /\ at' = at ELSE step' = step /\ at' = at - 1
  /\ UNCHANGED <<log, written, late, expired, faults>>

Copy ==
  /\ step = "copy"
  /\ archives' = [archives EXCEPT ![1] = log]
  /\ step' = "truncate"
  /\ UNCHANGED <<log, at, written, late, expired, faults>>

Truncate ==
  /\ step = "truncate"
  /\ log' = <<>>
  /\ step' = "idle" /\ at' = 0
  /\ UNCHANGED <<archives, written, late, expired, faults>>

\* The Agent dies or an operation fails; a copy may be cut short.
Fail ==
  /\ step # "idle" /\ faults < MaxFaults
  /\ faults' = faults + 1
  /\ \/ archives' = archives
     \/ /\ step = "copy"
        /\ \E k \in 0..Len(log) : archives' = [archives EXCEPT ![1] = SubSeq(log, 1, k)]
  /\ step' = "idle" /\ at' = 0
  /\ late' = {e \in late : e \notin Entries(log)}
  /\ UNCHANGED <<log, written, expired>>

Done == written = MaxEntries /\ step = "idle" /\ Len(log) < MaxSize /\ UNCHANGED vars

Next == WriteEntry \/ Due \/ DropOldest \/ Shift \/ Copy \/ Truncate \/ Fail \/ Done

Spec == Init /\ [][Next]_vars

-----------------------------------------------------------------------------
TypeOK ==
  /\ Entries(log) \subseteq 1..written
  /\ step \in {"idle", "drop", "shift", "copy", "truncate"} /\ at \in 0..Retention

Held == (UNION {Entries(archives[i]) : i \in 1..Retention}) \cup Entries(log)

\* Wherever a rotation stops, an entry is in the log or in an archive until it
\* leaves with the oldest one, but for those written while the log was copied;
\* a newer archive never begins before an older one; and without a fault
\* nothing expires before there are as many archives as there may be.
EntriesKept ==
  /\ 1..written \subseteq Held \cup expired \cup late
  /\ \A i, j \in 1..Retention : i < j /\ archives[i] # <<>> /\ archives[j] # <<>> =>
       Head(archives[j]) <= Head(archives[i])
  /\ faults = 0 /\ step = "idle" /\ expired # {} =>
       \A i \in 1..Retention : archives[i] # <<>>
=============================================================================
