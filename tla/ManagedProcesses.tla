-------------------------- MODULE ManagedProcesses --------------------------
(***************************************************************************)
(* How fabDev ends service processes that it has no handle of (those of an *)
(* Agent that is gone): it lists the processes, tells its own by their     *)
(* command line or executable, and stops one after the other.              *)
(*                                                                         *)
(* On Unix it lists masters, sends SIGTERM and, after 3 s, SIGKILL, always *)
(* to a PID.  On Windows it lists every PID, opens each, and decides and   *)
(* terminates through that handle.                                         *)
(***************************************************************************)
EXTENDS Naturals, FiniteSets

CONSTANTS
  Windows,
  Pids,
  MaxStarts,   \* bound: processes that start by themselves
  MaxFaults    \* bound: processes that do not obey, workers that die

VARIABLES
  kind,        \* per PID: "none", "master", "worker" or "foreign" (the user's own)
  master,      \* per worker: its master, or 0 once that is gone
  step,        \* the stop: "idle", "next", "wait", "stopped", "failed"
  listed,      \* PIDs still to look at
  current,     \* the PID it waits for
  asked,       \* PIDs that were sent SIGTERM
  orphans,     \* history: workers without a master before the stop
  fresh,       \* history: PIDs taken since the listing
  forced,      \* history: a master was sent SIGKILL
  harmed,      \* history: PIDs of foreign processes that were signalled
  starts, faults

vars == <<kind, master, step, listed, current, asked, orphans, fresh, forced, harmed,
          starts, faults>>

Of(k) == {p \in Pids : kind[p] = k}

Init ==
  /\ kind \in {k \in [Pids -> {"none", "master", "worker", "foreign"}] :
                 Cardinality({p \in Pids : k[p] = "foreign"}) <= 1}
  /\ master \in [Of("worker") -> Of("master") \cup {0}]
  /\ step = "idle" /\ listed = {} /\ current = 0 /\ asked = {}
  /\ orphans = {p \in DOMAIN master : master[p] = 0}
  /\ fresh = {} /\ forced = FALSE /\ harmed = {}
  /\ starts = 0 /\ faults = 0

WorkersOf(m) == {w \in DOMAIN master : master[w] = m}

\* The processes ps are gone; the workers of a master among them have none.
Gone(ps) ==
  /\ kind' = [p \in Pids |-> IF p \in ps THEN "none" ELSE kind[p]]
  /\ master' = [w \in DOMAIN master \ ps |-> IF master[w] \in ps THEN 0 ELSE master[w]]
  /\ asked' = asked \ ps

-----------------------------------------------------------------------------
(* The processes.                                                          *)

\* A free PID goes to somebody else's process, or to a worker that a master
\* puts in the place of one that ended.
Start(p) ==
  /\ kind[p] = "none" /\ starts < MaxStarts /\ starts' = starts + 1
  /\ \/ kind' = [kind EXCEPT ![p] = "foreign"] /\ master' = master
     \/ \E m \in Of("master") \ asked :
          /\ kind' = [kind EXCEPT ![p] = "worker"]
          /\ master' = [w \in DOMAIN master \cup {p} |-> IF w = p THEN m ELSE master[w]]
  /\ fresh' = IF step = "idle" THEN fresh ELSE fresh \cup {p}
  /\ UNCHANGED <<step, listed, current, asked, orphans, forced, harmed, faults>>

\* A process that got SIGTERM ends, a master with its workers.
Obey(p) ==
  /\ p \in asked
  /\ Gone({p} \cup WorkersOf(p))
  /\ UNCHANGED <<step, listed, current, orphans, fresh, forced, harmed, starts, faults>>

Die(p) ==
  /\ kind[p] # "none" /\ faults < MaxFaults /\ faults' = faults + 1
  /\ Gone({p})
  /\ orphans' = IF step = "idle" THEN {w \in DOMAIN master' : master'[w] = 0} ELSE orphans
  /\ forced' = (forced \/ (step # "idle" /\ kind[p] = "master"))
  /\ UNCHANGED <<step, listed, current, fresh, harmed, starts>>

-----------------------------------------------------------------------------
(* stop_untracked_web_processes, stop_untracked_mariadb_processes.          *)

\* Command lines tell masters only; a worker names neither its executable nor
\* its configuration.
Managed(p) == kind[p] = "master" \/ (Windows /\ kind[p] = "worker")

List ==
  /\ step = "idle"
  /\ listed' = IF Windows THEN {p \in Pids : kind[p] # "none"} ELSE {p \in Pids : Managed(p)}
  /\ step' = "next"
  /\ UNCHANGED <<kind, master, current, asked, orphans, fresh, forced, harmed, starts, faults>>

Harm(p) == harmed' = IF kind[p] = "foreign" THEN harmed \cup {p} ELSE harmed

\* stop_process: whoever has the PID now.
Term(p) ==
  /\ ~Windows /\ step = "next" /\ p \in listed
  /\ listed' = listed \ {p}
  /\ IF kind[p] = "none"
     THEN UNCHANGED <<step, current, asked, harmed>>
     ELSE /\ asked' = asked \cup {p}
          /\ Harm(p)
          /\ step' = "wait" /\ current' = p
  /\ UNCHANGED <<kind, master, orphans, fresh, forced, starts, faults>>

NotAsked == kind[current] = "none" \/ current \in asked
HasEnded == kind[current] = "none"

Ended ==
  /\ step = "wait" /\ HasEnded
  /\ step' = "next" /\ current' = 0
  /\ UNCHANGED <<kind, master, listed, asked, orphans, fresh, forced, harmed, starts, faults>>

\* After 3 s: SIGKILL, which a master's workers survive.  The process did not
\* obey, or its PID is somebody else's by now.
Kill ==
  /\ step = "wait" /\ ~HasEnded
  /\ IF current \in asked THEN faults < MaxFaults /\ faults' = faults + 1
     ELSE faults' = faults
  /\ Harm(current)
  /\ forced' = (forced \/ kind[current] = "master")
  /\ Gone({current})
  /\ step' = "next" /\ current' = 0
  /\ UNCHANGED <<listed, orphans, fresh, starts>>

IsManagedExecutable(p) == Managed(p)

\* stop_windows_processes: the handle keeps meaning the process it was opened for.
Terminate(p) ==
  /\ Windows /\ step = "next" /\ p \in listed
  /\ listed' = listed \ {p}
  /\ IF IsManagedExecutable(p) THEN Gone({p}) /\ Harm(p)
     ELSE UNCHANGED <<kind, master, asked, harmed>>
  /\ UNCHANGED <<step, current, orphans, fresh, forced, starts, faults>>

\* TerminateProcess is refused or the process is still there after 3 s.
TerminateFails(p) ==
  /\ Windows /\ step = "next" /\ p \in listed /\ Managed(p)
  /\ faults < MaxFaults /\ faults' = faults + 1
  /\ step' = "failed" /\ listed' = {}
  /\ UNCHANGED <<kind, master, current, asked, orphans, fresh, forced, harmed, starts>>

Stopped ==
  /\ step = "next" /\ listed = {}
  /\ step' = "stopped"
  /\ UNCHANGED <<kind, master, listed, current, asked, orphans, fresh, forced, harmed, starts,
                 faults>>

Done == step \in {"stopped", "failed"} /\ UNCHANGED vars

Next ==
  \/ \E p \in Pids : Start(p) \/ Obey(p) \/ Die(p) \/ Term(p) \/ Terminate(p) \/ TerminateFails(p)
  \/ List \/ Ended \/ Kill \/ Stopped \/ Done

Spec == Init /\ [][Next]_vars

-----------------------------------------------------------------------------
TypeOK ==
  /\ DOMAIN master = Of("worker")
  /\ \A w \in DOMAIN master : master[w] \in Of("master") \cup {0}
  /\ listed \subseteq Pids /\ asked \subseteq Pids

\* A stop that is reported as done leaves no service process: only those that
\* started during it, workers that had lost their master before it on Unix,
\* and, once a master had to be killed or crashed, its workers.
StopLeavesNone ==
  step = "stopped" =>
    /\ Of("master") \subseteq fresh
    /\ ~forced => Of("worker") \subseteq fresh \cup (IF Windows THEN {} ELSE orphans)

\* Somebody else's process is signalled only if it took a PID after the listing,
\* and never on Windows.
OthersUnharmed == harmed \subseteq IF Windows THEN {} ELSE fresh

StopsItsOwn == StopLeavesNone /\ OthersUnharmed
=============================================================================
