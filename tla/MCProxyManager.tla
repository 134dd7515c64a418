--------------------------- MODULE MCProxyManager ---------------------------
(* Two connections; three settings, two of which claim the same port and two *)
(* the same domain, one of them plain HTTP.  And, checked beside them, one   *)
(* running connection with a client and its health: part names which of the *)
(* two takes the steps of a behaviour.                                       *)
EXTENDS ProxyManager, TLC

CONSTANTS api, web, s1, s2, s3, client

VARIABLES
  part,
  reachable, loop, probe, clients, queue, holder, stopSent, periodicError, periodicFailures,
  periodicSuccesses, requestError, requestSuccesses, runtimeError, results   \* ProxyHealth

MCIds == {api, web}
MCSettings == {s1, s2, s3}
MCPorts == (s1 :> {3017, 43017}) @@ (s2 :> {3018, 43018}) @@ (s3 :> {3017})
MCDomain == (s1 :> "api.test") @@ (s2 :> "web.test") @@ (s3 :> "web.test")
MCSecured == {s1, s2}

Health == INSTANCE ProxyHealth WITH Clients <- {client}, manager <- holder

healthVars ==
  <<reachable, loop, probe, clients, queue, holder, stopSent, periodicError, periodicFailures,
    periodicSuccesses, requestError, requestSuccesses, runtimeError, results>>

MCInit == part \in {"manager", "health"} /\ Init /\ Health!Init

MCNext ==
  /\ part' = part
  /\ \/ part = "manager" /\ Next /\ UNCHANGED healthVars
     \/ part = "health" /\ Health!Next /\ UNCHANGED vars

MCSpec == MCInit /\ [][MCNext]_<<part, vars, healthVars>> /\ Health!Fairness

\* The counts that degrade a connection and end that are of results in a row
\* (proxy lib.rs:132-182).
ThresholdsHold == Health!ThresholdsHold

\* A stop of a connection is answered whatever its clients do (proxy
\* lib.rs:568-590).
StopReturns == Health!StopReturns
=============================================================================
