------------------------------- MODULE LanShare -------------------------------
(***************************************************************************)
(* Sharing Sites on the LAN: which Sites the Agent shares (info), the one  *)
(* listener all of them share (ShareServer) with the domains it lets pass, *)
(* and the HTTP connections to it.  A connection stays open for many       *)
(* requests, each of which is checked against the domains of that moment,  *)
(* and may turn into a WebSocket, which is not looked into any more.       *)
(*                                                                         *)
(* The Agent's requests hold the lan_share mutex and come one at a time;   *)
(* the connections are tasks of their own.                                 *)
(***************************************************************************)
EXTENDS Naturals, FiniteSets

CONSTANTS
  Sites, Domains, Ports,
  Connections,   \* connections to the listener that are open together
  None,
  MaxChanges     \* bound: the Agent's requests

VARIABLES
  registered,   \* registered[s]: the domain of an enabled Site, or None
  info,         \* info: what is shared, and the port; or None
  allowed,      \* the listener's allowed_domains, or None without a listener
  accepts,      \* the listener's task still accepts
  conns,        \* conns[c]: phase and request of a connection
  changes

vars == <<registered, info, allowed, accepts, conns, changes>>

Closed == [phase |-> "closed", domain |-> None, first |-> {}, seen |-> {}]

Init ==
  /\ registered \in {f \in [Sites -> Domains] : \A s, t \in Sites : f[s] = f[t] => s = t}
  /\ info = None /\ allowed = None /\ accepts = FALSE
  /\ conns = [c \in Connections |-> Closed]
  /\ changes = 0

Change == changes < MaxChanges /\ changes' = changes + 1

-----------------------------------------------------------------------------
(* The Agent's side: LanShareState and ShareServer.                        *)

DomainsOf(shared) == {shared[s] : s \in {t \in Sites : shared[t] # None}}

\* A request under way has seen each list of domains that held meanwhile.
Allow(domains) ==
  /\ allowed' = domains
  /\ conns' = [c \in Connections |-> [conns[c] EXCEPT !.seen = @ \cup domains]]

\* stop: the task ends every connection, WebSockets included.
CloseAll ==
  /\ allowed' = None /\ accepts' = FALSE
  /\ conns' = [c \in Connections |-> Closed]

Share(shared, port) == info' = [sites |-> shared, port |-> port]

\* The first Site opens the listener; a port that is taken opens none.
Start(s, port) ==
  /\ Change /\ registered[s] # None
  /\ IF info = None
       THEN /\ Share([t \in Sites |-> IF t = s THEN registered[s] ELSE None], port)
            /\ Allow({registered[s]}) /\ accepts' = TRUE
       ELSE /\ port = info.port   \* another port is refused
            /\ info.sites[s] = None
            /\ LET shared == [info.sites EXCEPT ![s] = registered[s]]
               IN Share(shared, port) /\ Allow(DomainsOf(shared)) /\ UNCHANGED accepts
  /\ UNCHANGED registered

Keep(shared) ==
  IF DomainsOf(shared) = {} THEN info' = None /\ CloseAll
  ELSE Share(shared, info.port) /\ Allow(DomainsOf(shared)) /\ UNCHANGED accepts

StopSite(s) ==
  /\ Change /\ info # None
  /\ Keep([info.sites EXCEPT ![s] = None])
  /\ UNCHANGED registered

\* StopLanShare, StopAll and Shutdown.
Stop ==
  /\ Change
  /\ IF info = None THEN UNCHANGED <<info, allowed, accepts, conns>> ELSE info' = None /\ CloseAll
  /\ UNCHANGED registered

\* An edit that changes the domain renames what is shared.
UpdateSite(s, domain) ==
  /\ Change /\ registered[s] # None /\ \A t \in Sites : registered[t] # domain
  /\ registered' = [registered EXCEPT ![s] = domain]
  /\ IF info # None /\ info.sites[s] # None THEN Keep([info.sites EXCEPT ![s] = domain])
     ELSE UNCHANGED <<info, allowed, accepts, conns>>

\* A scan of the home directory may drop, rename and exchange Sites; what is
\* shared follows the Site, never a domain that another Site has now.
SyncSites ==
  /\ Change
  /\ registered' \in {f \in [Sites -> Domains \cup {None}] :
       \A s, t \in Sites : f[s] = f[t] /\ f[s] # None => s = t}
  /\ IF info = None THEN UNCHANGED <<info, allowed, accepts, conns>>
     ELSE Keep([s \in Sites |-> IF info.sites[s] # None THEN registered'[s] ELSE None])

Requests ==
  \/ \E s \in Sites, port \in Ports : Start(s, port)
  \/ \E s \in Sites : StopSite(s)
  \/ \E s \in Sites, domain \in Domains : UpdateSite(s, domain)
  \/ Stop \/ SyncSites

-----------------------------------------------------------------------------
(* A connection.                                                           *)

Phase(c, phase) == conns' = [conns EXCEPT ![c].phase = phase]
Still == UNCHANGED <<registered, info, allowed, accepts, changes>>

\* proxy takes the domains of the moment and waits for the first header.
Accept(c) ==
  /\ accepts /\ conns[c].phase = "closed"
  /\ conns' = [conns EXCEPT ![c] = [phase |-> "first", domain |-> None, first |-> allowed,
                                    seen |-> allowed]]
  /\ Still

\* The first request is answered with 403, or handed on with the rest.
ReadFirst(c, domain) ==
  /\ conns[c].phase = "first"
  /\ conns' = [conns EXCEPT ![c] =
       IF domain \in conns[c].first THEN [@ EXCEPT !.phase = "arrived", !.domain = domain] ELSE Closed]
  /\ Still

\* The service reads allowed_domains for every request.
Allowed(c) == allowed

Check(c) ==
  /\ conns[c].phase = "arrived" /\ allowed # None
  /\ Phase(c, IF conns[c].domain \in Allowed(c) THEN "passed" ELSE "open")
  /\ Still

\* To nginx, one request of the connection at a time; the answer may be that
\* of a WebSocket.
Forward(c) ==
  /\ conns[c].phase = "passed"
  /\ \E phase \in {"open", "upgraded", "closed"} :
       conns' = [conns EXCEPT ![c] = IF phase = "closed" THEN Closed ELSE [@ EXCEPT !.phase = phase]]
  /\ Still

NextRequest(c, domain) ==
  /\ conns[c].phase = "open" /\ allowed # None
  /\ conns' = [conns EXCEPT ![c] = [@ EXCEPT !.phase = "arrived", !.domain = domain, !.seen = allowed]]
  /\ Still

Close(c) ==
  /\ conns[c].phase \notin {"closed"}
  /\ conns' = [conns EXCEPT ![c] = Closed]
  /\ Still

\* accept fails: the task returns and drops the connections; nobody is told.
AcceptFails ==
  /\ accepts /\ Change
  /\ accepts' = FALSE
  /\ conns' = [c \in Connections |-> Closed]
  /\ UNCHANGED <<registered, info, allowed>>

Traffic ==
  \/ \E c \in Connections : Accept(c) \/ Check(c) \/ Forward(c) \/ Close(c)
  \/ \E c \in Connections, domain \in Domains : ReadFirst(c, domain) \/ NextRequest(c, domain)
  \/ AcceptFails

\* The bound on the Agent's requests is reached.
Done == changes = MaxChanges /\ UNCHANGED vars

Next == Requests \/ Traffic \/ Done
Spec == Init /\ [][Next]_vars

-----------------------------------------------------------------------------
TypeOK ==
  /\ registered \in [Sites -> Domains \cup {None}]
  /\ allowed \in (SUBSET Domains) \cup {None} /\ accepts \in BOOLEAN
  /\ \A c \in Connections :
       /\ conns[c].phase \in {"closed", "first", "arrived", "passed", "open", "upgraded"}
       /\ conns[c].domain \in Domains \cup {None}

\* A request goes to nginx only for a domain that was shared at some moment
\* since it arrived, and nothing of the listener outlives its stop
\* (share 156-185, restricted_http 36-53, agent 580-598).
SharedOnly ==
  /\ \A c \in Connections : conns[c].phase = "passed" => conns[c].domain \in conns[c].seen
  /\ allowed = None => ~accepts /\ \A c \in Connections : conns[c] = Closed

\* What passes is what the Agent says it shares, under the Sites' own domains
\* (agent 541-592).
SharedAsToldOf ==
  /\ info = None <=> allowed = None
  /\ info # None => /\ allowed = DomainsOf(info.sites)
                    /\ \A s \in Sites : info.sites[s] # None => info.sites[s] = registered[s]

SharedAsAsked == SharedOnly /\ SharedAsToldOf
=============================================================================
