---------------------------- MODULE ProxyHealth ----------------------------
(***************************************************************************)
(* One running Proxy connection: the task that accepts clients and polls   *)
(* the periodic TCP probe, the tasks of the clients it has accepted, the   *)
(* health record they all write, and the Proxy manager, which reads the    *)
(* record for a status answer and stops the task.                          *)
(*                                                                         *)
(* The record is behind a tokio Mutex, a fair queue: who unlocks hands the *)
(* lock to the first that waits, whether or not that one is polled again.  *)
(* The probe is a future of the accepting task; it only makes progress     *)
(* while that task is in its select!, not in the body of another branch.   *)
(***************************************************************************)
EXTENDS Integers, Sequences, SequencesExt

CONSTANTS Clients, None

VARIABLES
  reachable,  \* the upstream accepts TCP connections
  loop,       \* the accepting task: "selecting", in a branch, or past its end
  probe,      \* the probe's future
  clients,    \* clients[c]: a connection's task
  queue,      \* the record's lock: the holder, then those that wait
  manager,    \* who holds the Proxy manager's mutex
  stopSent,
  periodicError, periodicFailures, periodicSuccesses,
  requestError, requestSuccesses,
  runtimeError,
  results     \* history: what the last probes and requests recorded

record == <<periodicError, periodicFailures, periodicSuccesses, requestError, requestSuccesses,
            runtimeError, results>>
vars == <<reachable, loop, probe, clients, queue, manager, stopSent, record>>

FailureThreshold == 3
RecoveryThreshold == 2
RequestThreshold == 2

Healthy ==
  /\ periodicError' = FALSE /\ periodicFailures' = 0 /\ periodicSuccesses' = 0
  /\ requestError' = None /\ requestSuccesses' = 0
  /\ runtimeError' = FALSE
  /\ results' = [probes |-> 0, requests |-> 0]

Asks(who) == queue' = Append(queue, who)
Holds(who) == queue # <<>> /\ Head(queue) = who
Unlocks == queue' = Tail(queue)
\* A task that is dropped leaves the queue, whatever its place.
Leave(who) == SelectSeq(queue, LAMBDA w : w \notin who)

Polled == loop = "selecting"
\* Results in a row: successes count up from zero, failures down.
Succeeded(kind, top) ==
  results' = [results EXCEPT ![kind] = IF @ < 0 THEN 1 ELSE IF @ < top THEN @ + 1 ELSE @]
Failed(kind, top) ==
  results' = [results EXCEPT ![kind] = IF @ > 0 THEN -1 ELSE IF @ > -top THEN @ - 1 ELSE @]
Capped(n, top) == IF n < top THEN n + 1 ELSE top

(***************************************************************************)
(* The accepting task                                                      *)
(***************************************************************************)
Accepts ==
  /\ Polled
  /\ loop' \in {"accepted", "refused"}
  /\ Asks("loop")
  /\ UNCHANGED <<reachable, probe, clients, manager, stopSent, record>>

RuntimeSuccess ==
  /\ loop = "accepted" /\ Holds("loop") /\ Unlocks
  /\ runtimeError' = FALSE
  /\ \E c \in Clients : clients[c] = "none" /\ clients' = [clients EXCEPT ![c] = "open"]
  /\ loop' = "selecting"
  /\ UNCHANGED <<reachable, probe, manager, stopSent, periodicError, periodicFailures,
                 periodicSuccesses, requestError, requestSuccesses, results>>

\* More clients than Clients are not modelled: one leaves as it comes.
RuntimeSuccessFull ==
  /\ loop = "accepted" /\ Holds("loop") /\ Unlocks
  /\ \A c \in Clients : clients[c] # "none"
  /\ runtimeError' = FALSE
  /\ loop' = "selecting"
  /\ UNCHANGED <<reachable, probe, clients, manager, stopSent, periodicError, periodicFailures,
                 periodicSuccesses, requestError, requestSuccesses, results>>

RuntimeFailure ==
  /\ loop = "refused" /\ Holds("loop") /\ Unlocks
  /\ runtimeError' = TRUE
  /\ loop' = "pausing"
  /\ UNCHANGED <<reachable, probe, clients, manager, stopSent, periodicError, periodicFailures,
                 periodicSuccesses, requestError, requestSuccesses, results>>

Pauses ==
  /\ loop = "pausing"
  /\ loop' = "selecting"
  /\ UNCHANGED <<reachable, probe, clients, queue, manager, stopSent, record>>

\* The probe is dropped before the clients are drained.
TakesStop ==
  /\ Polled /\ stopSent
  /\ loop' = "draining"
  /\ probe' = "dropped" /\ queue' = Leave({"probe"})
  /\ UNCHANGED <<reachable, clients, manager, stopSent, record>>

Ended ==
  /\ loop' = "ended" /\ probe' = "dropped"
  /\ clients' = [c \in Clients |-> "none"]
  /\ queue' = Leave(Clients \cup {"probe", "loop"})

\* All clients are gone, or those left after CONNECTION_DRAIN_TIMEOUT are aborted.
Drained ==
  /\ loop = "draining"
  /\ Ended
  /\ UNCHANGED <<reachable, manager, stopSent, record>>

(***************************************************************************)
(* The probe                                                               *)
(***************************************************************************)
Tick ==
  /\ Polled /\ probe = "waiting"
  /\ probe' = "connecting"
  /\ UNCHANGED <<reachable, loop, clients, queue, manager, stopSent, record>>

\* A timeout is a failure as well.
Outcome(o) == IF probe = "connecting" THEN o = "succeeded" => reachable ELSE probe = o

\* A free lock is taken and the result recorded in the same poll.
Records(o) ==
  /\ Polled /\ Outcome(o)
  /\ IF probe = "connecting" THEN queue = <<>> /\ UNCHANGED queue ELSE Holds("probe") /\ Unlocks

Waits ==
  /\ Polled /\ probe = "connecting" /\ queue # <<>>
  /\ \E o \in {"succeeded", "failed"} : Outcome(o) /\ probe' = o
  /\ Asks("probe")
  /\ UNCHANGED <<reachable, loop, clients, manager, stopSent, record>>

PeriodicFailure ==
  /\ probe \in {"connecting", "failed"} /\ Records("failed")
  /\ periodicSuccesses' = 0
  /\ periodicFailures' = Capped(periodicFailures, FailureThreshold)
  /\ periodicError' = (periodicError \/ periodicFailures' = FailureThreshold)
  /\ Failed("probes", FailureThreshold)
  /\ probe' = "waiting"
  /\ UNCHANGED <<reachable, loop, clients, manager, stopSent, requestError, requestSuccesses,
                 runtimeError>>

\* Fault: failures that lie apart are added up.
KeepsFailures == periodicFailures
Forgotten == 0

\* The second success in a row ends the error, and with it an error of requests
\* that the network explains; the client pool is replaced after the unlock.
PeriodicSuccess ==
  /\ probe \in {"connecting", "succeeded"} /\ Records("succeeded")
  /\ periodicFailures' = Forgotten
  /\ Succeeded("probes", RecoveryThreshold)
  /\ LET successes == IF periodicError THEN periodicSuccesses + 1 ELSE 0
         recovers == successes = RecoveryThreshold
     IN /\ periodicSuccesses' = IF recovers THEN 0 ELSE successes
        /\ periodicError' = (periodicError /\ ~recovers)
        /\ probe' = IF recovers THEN "resetting" ELSE "waiting"
        /\ IF recovers /\ requestError = "network"
             THEN requestError' = None /\ requestSuccesses' = 0
             ELSE UNCHANGED <<requestError, requestSuccesses>>
  /\ UNCHANGED <<reachable, loop, clients, manager, stopSent, runtimeError>>

\* Requests under way keep the client they have.
Reset ==
  /\ Polled /\ probe = "resetting"
  /\ clients' = [c \in Clients |-> IF clients[c] = "sent" THEN "late" ELSE clients[c]]
  /\ probe' = "waiting"
  /\ UNCHANGED <<reachable, loop, queue, manager, stopSent, record>>

(***************************************************************************)
(* The clients                                                             *)
(***************************************************************************)
To(c, state) == clients' = [clients EXCEPT ![c] = state]

\* A preflight of an allowed origin is answered without the upstream.
Sends(c) ==
  /\ clients[c] = "open"
  /\ To(c, "sent")
  /\ UNCHANGED <<reachable, loop, probe, queue, manager, stopSent, record>>

\* A request over the replaced pool may still fail on a connection of the outage.
Answered(c) ==
  /\ clients[c] \in {"sent", "late"}
  /\ \/ reachable /\ To(c, "success")
     \/ (~reachable \/ clients[c] = "late") /\ To(c, "network")
     \/ To(c, "other")
  /\ Asks(c)
  /\ UNCHANGED <<reachable, loop, probe, manager, stopSent, record>>

RequestFailure(c) ==
  /\ clients[c] \in {"network", "other"} /\ Holds(c) /\ Unlocks
  /\ requestError' = clients[c]
  /\ requestSuccesses' = 0
  /\ Failed("requests", 1)
  /\ To(c, "open")
  /\ UNCHANGED <<reachable, loop, probe, manager, stopSent, periodicError, periodicFailures,
                 periodicSuccesses, runtimeError>>

RequestSuccess(c) ==
  /\ clients[c] = "success" /\ Holds(c) /\ Unlocks
  /\ LET successes == IF requestError = None THEN 0 ELSE requestSuccesses + 1
         recovers == successes = RequestThreshold
     IN /\ requestSuccesses' = IF recovers THEN 0 ELSE successes
        /\ requestError' = IF recovers THEN None ELSE requestError
  /\ Succeeded("requests", RequestThreshold)
  /\ To(c, "open")
  /\ UNCHANGED <<reachable, loop, probe, manager, stopSent, periodicError, periodicFailures,
                 periodicSuccesses, runtimeError>>

Closes(c) ==
  /\ clients[c] = "open"
  /\ To(c, "none")
  /\ UNCHANGED <<reachable, loop, probe, queue, manager, stopSent, record>>

(***************************************************************************)
(* The manager, whose mutex the Agent holds through a whole request        *)
(***************************************************************************)
Status ==
  /\ manager = "free" /\ loop # "ended"
  /\ manager' = "status"
  /\ Asks("status")
  /\ UNCHANGED <<reachable, loop, probe, clients, stopSent, record>>

LastError ==
  /\ manager = "status" /\ Holds("status") /\ Unlocks
  /\ manager' = "free"
  /\ UNCHANGED <<reachable, loop, probe, clients, stopSent, record>>

Stop ==
  /\ manager = "free" /\ loop # "ended"
  /\ manager' = "stop" /\ stopSent' = TRUE
  /\ UNCHANGED <<reachable, loop, probe, clients, queue, record>>

\* Fault: the task is waited for as long as it takes.
WaitsForever == FALSE
TimedOut == loop \in {"accepted", "refused", "pausing"}

\* A task that does not end in time is aborted.
Aborted ==
  /\ manager = "stop" /\ TimedOut
  /\ Ended
  /\ UNCHANGED <<reachable, manager, stopSent, record>>

Stopped ==
  /\ manager = "stop" /\ loop = "ended"
  /\ manager' = "free"
  /\ UNCHANGED <<reachable, loop, probe, clients, queue, stopSent, record>>

Start ==
  /\ manager = "free" /\ loop = "ended"
  /\ loop' = "selecting" /\ probe' = "waiting"
  /\ stopSent' = FALSE
  /\ Healthy
  /\ UNCHANGED <<reachable, clients, queue, manager>>

Upstream ==
  /\ reachable' = ~reachable
  /\ UNCHANGED <<loop, probe, clients, queue, manager, stopSent, record>>

Init ==
  /\ reachable = TRUE
  /\ loop = "ended" /\ probe = "dropped"
  /\ clients = [c \in Clients |-> "none"]
  /\ queue = <<>>
  /\ manager = "free" /\ stopSent = FALSE
  /\ periodicError = FALSE /\ periodicFailures = 0 /\ periodicSuccesses = 0
  /\ requestError = None /\ requestSuccesses = 0
  /\ runtimeError = FALSE
  /\ results = [probes |-> 0, requests |-> 0]

Loop == RuntimeSuccess \/ RuntimeSuccessFull \/ RuntimeFailure \/ Pauses \/ TakesStop \/ Drained

Next ==
  \/ Accepts \/ Loop
  \/ Tick \/ Waits \/ PeriodicFailure \/ PeriodicSuccess \/ Reset
  \/ \E c \in Clients : Sends(c) \/ Answered(c) \/ RequestFailure(c) \/ RequestSuccess(c) \/ Closes(c)
  \/ Status \/ LastError \/ Stop \/ Aborted \/ Stopped \/ Start
  \/ Upstream

\* A task that can run is run, a timeout expires, a request that holds the lock
\* unlocks; whether clients come, the upstream answers or a user stops is open.
Fairness ==
  /\ WF_vars(Loop) /\ SF_vars(TakesStop)
  /\ SF_vars(PeriodicFailure \/ PeriodicSuccess)
  /\ \A c \in Clients : WF_vars(RequestFailure(c) \/ RequestSuccess(c))
  /\ WF_vars(LastError) /\ WF_vars(Aborted) /\ WF_vars(Stopped)

Spec == Init /\ [][Next]_vars /\ Fairness

(***************************************************************************)
(* Properties                                                              *)
(***************************************************************************)
TypeOK ==
  /\ loop \in {"selecting", "accepted", "refused", "pausing", "draining", "ended"}
  /\ probe \in {"waiting", "connecting", "succeeded", "failed", "resetting", "dropped"}
  /\ periodicFailures \in 0..FailureThreshold
  /\ periodicSuccesses \in 0..(RecoveryThreshold - 1)
  /\ requestSuccesses \in 0..(RequestThreshold - 1)
  /\ requestError \in {None, "network", "other"}
  /\ manager \in {"free", "status", "stop"}
  /\ IsInjective(queue)

\* Only the third failed probe in a row degrades a connection and only the second
\* good one ends that; an error of requests ends with the second good request in a
\* row, or with the probes if the network explains it
\* (proxy 132-182, 224-236).
ThresholdsHold ==
  [][loop # "ended" =>
      /\ ~periodicError /\ periodicError' => results'.probes = -FailureThreshold
      /\ periodicError /\ ~periodicError' => results'.probes = RecoveryThreshold
      /\ results'.probes = -FailureThreshold => periodicError'
      /\ (requestError # None /\ requestError' = None) =>
           \/ results'.requests = RequestThreshold
           \/ requestError = "network" /\ periodicError /\ ~periodicError']_vars

\* A stop that has the manager is answered, be the task stuck or its clients slow:
\* the manager is free again (proxy 568-590).
StopReturns == (manager = "stop") ~> (manager = "free")

\* Waiting of the probe never keeps the task from accepting clients
\* (docs/FABDEV_CODE_AUDIT_2026-09-27.md:62): a client that is accepted is handed
\* to its task and the next one can come.
ProbeNeverBlocks == (loop = "accepted") ~> (loop \in {"selecting", "ended"})
=============================================================================
