---------------------------- MODULE ProxyManager ----------------------------
(***************************************************************************)
(* The Proxy Manager of the Agent: the connections and their listener      *)
(* tasks, the Nginx TLS routes, the Windows hosts block and the two stored *)
(* settings, and the request handlers that change all of them.             *)
(*                                                                         *)
(* A handler holds the manager's mutex and the lifecycle lock from its     *)
(* first to its last step, so one request at a time is at hand.  Its steps *)
(* are: change the manager, write the routes, write the hosts block, save; *)
(* a failing step makes it undo the change and write everything again,     *)
(* this time without looking at the results.  The Agent may die between    *)
(* two steps, and a listener task may end by itself at any moment.         *)
(***************************************************************************)
EXTENDS Naturals, FiniteSets

CONSTANTS
  Ids,       \* connection ids
  Settings,  \* what a user may enter for a connection
  Ports,     \* Ports[s]: the HTTP port, and the HTTPS port if s is secured
  Domain,    \* Domain[s]: its .test domain
  Secured,   \* settings with HTTPS enabled
  HostsFile, \* TRUE on Windows, where the .test domains go to the hosts file
  None

ASSUME SettingsAssumption == None \notin Settings /\ Secured \subseteq Settings
ASSUME HostsFileAssumption == HostsFile \in BOOLEAN
ASSUME IdsAssumption == None \notin Ids

VARIABLES
  connections,   \* connections[id]: its settings, or None
  running,       \* running[id]: the settings its task was spawned with, or None
  ended,         \* ids whose task has ended by itself but is still in the map
  failed,        \* ids with an entry in the map of failures
  routes,        \* Nginx route files: settings, and whether they forward or answer 503
  hosts,         \* domains in the hosts block
  stored,        \* the two rows of app_settings: connections and running ids
  phase,         \* the next step of the request at hand
  job,           \* the request: what it is and what it must undo
  wanted,        \* history: ids started by the user and not stopped since
  displaced,     \* history: of these, the ones that lost their listener otherwise
  strained       \* history: a repeated routing step failed, its result ignored

manager == <<connections, running, ended, failed>>
outside == <<routes, hosts, stored>>
history == <<wanted, displaced, strained>>
vars == <<manager, outside, phase, job, history>>

Kinds == {"add", "update", "remove", "start", "stop", "startAll", "stopAll",
          "shutdown", "restore"}
Phases == {"down", "idle", "routing", "hosting", "saving", "stopping",
           "rerouting", "rehosting", "resaving"}
Jobs == [kind : Kinds, id : Ids \cup {None}, previous : Settings \cup {None},
         ran : SUBSET Ids, resave : BOOLEAN]
NoJob == [kind |-> "restore", id |-> None, previous |-> None, ran |-> {}, resave |-> FALSE]

Routes == [settings : Settings, location : {"proxy_pass", "return 503"}]

Existing == {id \in Ids : connections[id] # None}
RunningIds == {id \in Ids : running[id] # None}

\* Two connections may share neither a port nor a domain.
Clash(s, t) == Ports[s] \cap Ports[t] # {} \/ Domain[s] = Domain[t]

\* Fault: the HTTPS ports and domains of other connections are not compared.
UniqueById(s, replacing) == \A id \in Existing \ {replacing} : connections[id] # s

Unique(s, replacing) == \A id \in Existing \ {replacing} : ~Clash(connections[id], s)

\* Fault: a stopped connection's route goes on forwarding.
WantedRoutesLive ==
  {[settings |-> connections[id], location |-> "proxy_pass"] :
     id \in {i \in Existing : connections[i] \in Secured}}

Location(id) == IF running[id] = None THEN "return 503" ELSE "proxy_pass"

\* The route files that match the manager: one per secured connection.
WantedRoutes ==
  {[settings |-> connections[id], location |-> Location(id)] :
     id \in {i \in Existing : connections[i] \in Secured}}

WantedHosts == IF HostsFile THEN {Domain[connections[id]] : id \in Existing} ELSE {}

-----------------------------------------------------------------------------
(* ProxyManager::start and ::stop, for one id or all of them.  A listener  *)
(* cannot be bound when another program holds its port (taken).            *)

StartTasks(ids, taken) ==
  LET fresh == ids \ (RunningIds \ ended) IN
    /\ running' = [id \in Ids |-> IF id \notin fresh THEN running[id]
                                  ELSE IF id \in taken THEN None ELSE connections'[id]]
    /\ ended' = ended \ fresh
    /\ failed' = (failed \ fresh) \cup (fresh \cap taken)

\* Fault: a task that has ended by itself stays noted.
StopTasksOnly(ids) ==
  /\ running' = [id \in Ids |-> IF id \in ids THEN None ELSE running[id]]
  /\ failed' = failed \ ids
  /\ UNCHANGED ended

StopTasks(ids) ==
  /\ running' = [id \in Ids |-> IF id \in ids THEN None ELSE running[id]]
  /\ ended' = ended \ ids
  /\ failed' = failed \ ids

\* Stops the task and spawns it again with the settings connections' gives it.
RestartTask(id, taken) ==
  /\ running' = [running EXCEPT ![id] = IF id \in taken THEN None ELSE connections'[id]]
  /\ ended' = ended \ {id}
  /\ failed' = IF id \in taken THEN failed \cup {id} ELSE failed \ {id}

\* Wanted connections that a step leaves without a task.
Displace == displaced' = displaced \cup {id \in wanted : running'[id] = None}

Begin(kind, id, previous) ==
  job' = [kind |-> kind, id |-> id, previous |-> previous, ran |-> RunningIds,
          resave |-> FALSE]

Goto(next) == phase' = next /\ UNCHANGED job
Done == phase' = "idle" /\ job' = NoJob

Init ==
  /\ connections = [id \in Ids |-> None]
  /\ running = [id \in Ids |-> None]
  /\ ended = {}
  /\ failed = {}
  /\ routes = {}
  /\ hosts = {}
  /\ stored = [connections |-> connections, running |-> {}]
  /\ phase = "idle"
  /\ job = NoJob
  /\ wanted = {}
  /\ displaced = {}
  /\ strained = FALSE

-----------------------------------------------------------------------------
(* The requests: what each changes in the manager before its routing.      *)

Add(id, s) ==
  /\ phase = "idle"
  /\ connections[id] = None
  /\ Unique(s, id)
  /\ connections' = [connections EXCEPT ![id] = s]
  /\ Begin("add", id, None)
  /\ phase' = "routing"
  /\ UNCHANGED <<running, ended, failed, outside, history>>

\* Fault: the listener keeps the settings it was spawned with.
UpdateInPlace(id, s, taken) ==
  /\ phase = "idle"
  /\ taken = {}
  /\ id \in Existing
  /\ Unique(s, id)
  /\ connections' = [connections EXCEPT ![id] = s]
  /\ Begin("update", id, connections[id])
  /\ phase' = "routing"
  /\ UNCHANGED <<running, ended, failed, outside, history>>

\* A running connection is restarted with its new settings.
Update(id, s, taken) ==
  /\ phase = "idle"
  /\ id \in Existing
  /\ Unique(s, id)
  /\ connections' = [connections EXCEPT ![id] = s]
  /\ IF running[id] = None
       THEN failed' = failed \ {id} /\ UNCHANGED <<running, ended>>
       ELSE id \notin taken /\ RestartTask(id, taken)
  /\ Begin("update", id, connections[id])
  /\ phase' = "routing"
  /\ UNCHANGED <<outside, history>>

\* The new settings cannot be bound: the old ones are bound again, and the
\* request ends without any routing.
UpdateRefused(id, taken) ==
  /\ phase = "idle"
  /\ running[id] # None
  /\ UNCHANGED <<connections, outside, phase, job, wanted, strained>>
  /\ RestartTask(id, taken)
  /\ Displace

Remove(id) ==
  /\ phase = "idle"
  /\ id \in Existing
  /\ connections' = [connections EXCEPT ![id] = None]
  /\ StopTasks({id})
  /\ Begin("remove", id, connections[id])
  /\ phase' = "routing"
  /\ wanted' = wanted \ {id}
  /\ UNCHANGED <<outside, displaced, strained>>

\* A connection that cannot be bound has no routing to do.
Start(id, taken) ==
  /\ phase = "idle"
  /\ id \in Existing
  /\ UNCHANGED <<connections, outside, wanted, strained>>
  /\ StartTasks({id}, taken)
  /\ Begin("start", id, None)
  /\ phase' = IF running'[id] # None THEN "routing" ELSE "saving"
  /\ Displace

Stop(id) ==
  /\ phase = "idle"
  /\ id \in Existing
  /\ StopTasks({id})
  /\ Begin("stop", id, None)
  /\ phase' = "routing"
  /\ wanted' = wanted \ {id}
  /\ UNCHANGED <<connections, outside, displaced, strained>>

StartAll(taken) ==
  /\ phase = "idle"
  /\ UNCHANGED <<connections, outside, wanted, strained>>
  /\ StartTasks(Existing, taken)
  /\ Begin("startAll", None, None)
  /\ phase' = IF \E id \in Ids : running'[id] # None THEN "routing" ELSE "saving"
  /\ Displace

StopAll ==
  /\ phase = "idle"
  /\ StopTasks(Existing)
  /\ Begin("stopAll", None, None)
  /\ phase' = "routing"
  /\ wanted' = {}
  /\ UNCHANGED <<connections, outside, displaced, strained>>

\* stop_for_shutdown; the preferences stay as they are.
Shutdown ==
  /\ phase = "idle"
  /\ StopTasks(Existing)
  /\ Begin("shutdown", None, None)
  /\ phase' = "routing"
  /\ UNCHANGED <<connections, outside, history>>

-----------------------------------------------------------------------------
(* Routing: the Nginx files first, then the hosts block.                   *)

SyncsHosts == job.kind \in {"update", "remove", "start", "startAll", "restore"}

\* The Agent restores the hosts block at its start only if something runs.
HostsDue == SyncsHosts /\ (job.kind = "restore" => RunningIds # {})

RoutesWritten ==
  /\ phase = "routing"
  /\ routes' = WantedRoutes
  /\ IF HostsDue THEN Goto("hosting")
     ELSE IF job.kind = "restore" THEN Done
     ELSE Goto(IF job.kind = "shutdown" THEN "stopping" ELSE "saving")
  /\ UNCHANGED <<manager, hosts, stored, history>>

HostsWritten ==
  /\ phase = "hosting"
  /\ hosts' = WantedHosts
  /\ IF job.kind = "restore" THEN Done ELSE Goto("saving")
  /\ UNCHANGED <<manager, routes, stored, history>>

\* What each handler takes back; a listener it starts again may fail to bind.
Undo(taken) ==
  LET id == job.id IN
  \/ /\ job.kind = "add"
     /\ connections' = [connections EXCEPT ![id] = None]
     /\ StopTasks({id})
  \/ /\ job.kind = "update"
     /\ connections' = [connections EXCEPT ![id] = job.previous]
     /\ IF id \in job.ran THEN RestartTask(id, taken) ELSE StopTasks({id})
  \/ /\ job.kind = "remove"
     /\ connections' = [connections EXCEPT ![id] = job.previous]
     /\ StartTasks({id} \cap job.ran, taken)
  \/ /\ job.kind \in {"start", "startAll"}
     /\ UNCHANGED connections
     /\ StopTasks(IF job.kind = "start" THEN {id} \ job.ran ELSE Existing)
  \/ /\ job.kind \in {"stop", "stopAll"}
     /\ UNCHANGED connections
     /\ StartTasks(IF job.kind = "stop" THEN {id} \cap job.ran ELSE job.ran, taken)

\* A failed step of a request: its change is undone and routed again.
TakeBack(taken, resave) ==
  /\ Undo(taken)
  /\ Displace
  /\ phase' = "rerouting"
  /\ job' = [job EXCEPT !.resave = resave]
  /\ UNCHANGED <<outside, wanted, strained>>

\* At its start the Agent only reports the failure, and goes on.
RestoreRoutingFails ==
  /\ phase = "routing"
  /\ job.kind = "restore"
  /\ strained' = TRUE
  /\ IF HostsDue THEN Goto("hosting") ELSE Done
  /\ UNCHANGED <<manager, outside, wanted, displaced>>

\* The old files are put back when Nginx rejects the new ones.
RoutingFails(taken) ==
  /\ phase = "routing"
  /\ job.kind \notin {"restore", "shutdown"}
  /\ TakeBack(taken, job.kind = "startAll")

RestoreHostsFail ==
  /\ phase = "hosting"
  /\ HostsFile
  /\ job.kind = "restore"
  /\ strained' = TRUE
  /\ Done
  /\ UNCHANGED <<manager, outside, wanted, displaced>>

HostsFail(taken) ==
  /\ phase = "hosting"
  /\ HostsFile
  /\ job.kind # "restore"
  /\ TakeBack(taken, job.kind = "startAll")

\* Shutdown reports a failure of its routing or of the services, and the
\* Agent lives on with every connection stopped.
ShutdownFails(routed) ==
  /\ IF routed THEN phase = "stopping"
               ELSE phase = "routing" /\ job.kind = "shutdown"
  /\ displaced' = displaced \cup wanted
  /\ strained' = (strained \/ ~routed)
  /\ Done
  /\ UNCHANGED <<manager, outside, wanted>>

-----------------------------------------------------------------------------
(* Saving, and what follows a failure.                                     *)

SavesConnections == job.kind \in {"add", "update", "remove"}

\* Fault: a task that has ended by itself is not counted as running.
RowsOfLive ==
  [connections |-> IF SavesConnections THEN connections ELSE stored.connections,
   running |-> IF job.kind = "add" THEN stored.running ELSE RunningIds \ ended]

\* The rows a request writes: Add only the connections, Update and Remove
\* both in one transaction, the others only the running ids.
Rows ==
  [connections |-> IF SavesConnections THEN connections ELSE stored.connections,
   running |-> IF job.kind = "add" THEN stored.running ELSE RunningIds]

Saved ==
  /\ phase = "saving"
  /\ stored' = Rows
  /\ LET confirmed == IF job.kind = "start" THEN {job.id} \cap RunningIds
                      ELSE IF job.kind = "startAll" THEN RunningIds ELSE {}
     IN wanted' = wanted \cup confirmed /\ displaced' = displaced \ confirmed
  /\ Done
  /\ UNCHANGED <<manager, routes, hosts, strained>>

\* Fault: an edit that cannot be saved is only reported.
SaveFailsOpen(taken) ==
  /\ phase = "saving"
  /\ taken = {}
  /\ Done
  /\ UNCHANGED <<manager, outside, history>>

\* Starting and stopping are not taken back when their preference cannot be
\* saved.
SaveFails(taken) ==
  /\ phase = "saving"
  /\ IF SavesConnections
       THEN TakeBack(taken, job.kind # "add")
       ELSE Done /\ UNCHANGED <<manager, outside, history>>

RerouteEnds == IF job.resave THEN Goto("resaving") ELSE Done

\* The routes again, and the hosts block only if the routes were written.
Reroute(ok) ==
  /\ phase = "rerouting"
  /\ routes' = IF ok THEN WantedRoutes ELSE routes
  /\ strained' = (strained \/ ~ok)
  /\ IF ok /\ SyncsHosts THEN Goto("rehosting") ELSE RerouteEnds
  /\ UNCHANGED <<manager, hosts, stored, wanted, displaced>>

Rehost(ok) ==
  /\ phase = "rehosting"
  /\ HostsFile \/ ok
  /\ hosts' = IF ok THEN WantedHosts ELSE hosts
  /\ strained' = (strained \/ ~ok)
  /\ RerouteEnds
  /\ UNCHANGED <<manager, routes, stored, wanted, displaced>>

Resave(ok) ==
  /\ phase = "resaving"
  /\ stored' = IF ~ok THEN stored
               ELSE IF job.kind = "startAll" THEN [stored EXCEPT !.running = {}]
               ELSE Rows
  /\ Done
  /\ UNCHANGED <<manager, routes, hosts, history>>

-----------------------------------------------------------------------------
(* What happens by itself, and the life of the Agent.                      *)

TaskEnds(id) ==
  /\ running[id] # None
  /\ id \notin ended
  /\ ended' = ended \cup {id}
  /\ UNCHANGED <<connections, running, failed, outside, phase, job, history>>

AgentEnds ==
  /\ connections' = [id \in Ids |-> None]
  /\ running' = [id \in Ids |-> None]
  /\ ended' = {}
  /\ failed' = {}
  /\ phase' = "down"
  /\ job' = NoJob
  /\ UNCHANGED <<outside, history>>

ShutdownEnds == phase = "stopping" /\ AgentEnds

Crash == phase # "down" /\ AgentEnds

\* The stored connections are loaded and the stored running ids started; an
\* id without a connection is only reported.
Restart(taken) ==
  /\ phase = "down"
  /\ connections' = stored.connections
  /\ StartTasks({id \in stored.running : stored.connections[id] # None}, taken)
  /\ Displace
  /\ phase' = "routing"
  /\ job' = NoJob
  /\ UNCHANGED <<outside, wanted, strained>>

-----------------------------------------------------------------------------
Requests ==
  \/ StopAll \/ Shutdown
  \/ \E taken \in SUBSET Ids : StartAll(taken)
  \/ \E id \in Ids :
       \/ Remove(id) \/ Stop(id)
       \/ \E s \in Settings : Add(id, s)
       \/ \E taken \in SUBSET {id} :
            \/ Start(id, taken) \/ UpdateRefused(id, taken)
            \/ \E s \in Settings : Update(id, s, taken)

Routing ==
  \/ RoutesWritten \/ HostsWritten \/ RestoreRoutingFails \/ RestoreHostsFail
  \/ \E routed \in BOOLEAN : ShutdownFails(routed)
  \/ \E taken \in SUBSET Ids : RoutingFails(taken) \/ HostsFail(taken)

Saving ==
  \/ Saved
  \/ \E taken \in SUBSET Ids : SaveFails(taken)
  \/ \E ok \in BOOLEAN : Reroute(ok) \/ Rehost(ok) \/ Resave(ok)

Life ==
  \/ ShutdownEnds \/ Crash
  \/ \E taken \in SUBSET Ids : Restart(taken)
  \/ \E id \in Ids : TaskEnds(id)

Next == Requests \/ Routing \/ Saving \/ Life

Spec == Init /\ [][Next]_vars
-----------------------------------------------------------------------------
(* Properties.                                                             *)

\* Maps, rows and requests have the shape the Rust types give them.
TypeOK ==
  /\ connections \in [Ids -> Settings \cup {None}]
  /\ running \in [Ids -> Settings \cup {None}]
  /\ ended \subseteq RunningIds
  /\ failed \subseteq Ids
  /\ routes \subseteq Routes
  /\ \A r \in routes : r.settings \in Secured
  /\ stored \in [connections : [Ids -> Settings \cup {None}], running : SUBSET Ids]
  /\ phase \in Phases
  /\ job \in Jobs
  /\ wanted \subseteq Ids
  /\ displaced \subseteq Ids
  /\ strained \in BOOLEAN

\* The stored connections never clash: the Agent refuses to start on ones
\* that do, and nothing but the Agent could repair them.
StoredLoadable ==
  \A a, b \in Ids :
    a # b /\ stored.connections[a] # None /\ stored.connections[b] # None =>
      ~Clash(stored.connections[a], stored.connections[b])

\* Between requests the stored connections are the ones in memory, whatever
\* routing, save or bind failed: no restart brings back a removed connection
\* or loses an added or edited one.
StoreFollows == phase = "idle" => stored.connections = connections

\* A listener serves the settings its connection has now, also after edits
\* that were refused half-way or rolled back.
TasksCurrent == \A id \in RunningIds : running[id] = connections[id]

\* No route of a removed or unsecured connection, and exactly one of each that
\* has not failed.
RoutesMatch ==
  /\ \A r \in routes : \E id \in Ids : connections[id] = r.settings
  /\ \A id \in Existing \ failed : connections[id] \in Secured =>
       {r \in routes : r.settings = connections[id]}
         = {[settings |-> connections[id], location |-> Location(id)]}

\* Between requests the TLS routes match the connections: none of a removed
\* or unsecured one, forwarding exactly to what was started and answering
\* 503 for what was stopped.  A repeated routing that failed excuses all of
\* them, a failed connection only its own.
RoutesFollow == phase = "idle" /\ ~strained => RoutesMatch

\* The hosts block holds the domains of these connections.
Resolve(ids) == HostsFile => {Domain[connections[id]] : id \in ids} \subseteq hosts

\* On Windows a started connection's domain resolves.
HostsOfRunning == phase = "idle" /\ ~strained => Resolve(RunningIds)

\* What runs is reachable under its domain, by routes and hosts entries.
Reachable == RoutesFollow /\ HostsOfRunning

\* What the user started and did not stop is in the stored preference and is
\* started again with the Agent, unless that very connection has lost its
\* listener since.  Failures of other connections, of routing, of saving,
\* crashes and shutdowns do not take it away.
PreferenceKept == phase \in {"idle", "down"} => wanted \ displaced \subseteq stored.running

\* The same without the exception, as the architecture document promises:
\* only stopping a connection, or all of them, changes the preference.
PreferenceRemembered == phase \in {"idle", "down"} => wanted \subseteq stored.running

-----------------------------------------------------------------------------
(* The inductive invariant behind the first four properties.               *)

Disjoint(cs) ==
  \A a, b \in Ids : a # b /\ cs[a] # None /\ cs[b] # None => ~Clash(cs[a], cs[b])

\* The change of the request at hand is in memory and not yet in the store.
Ahead == phase \in {"routing", "hosting", "saving"} /\ SavesConnections

\* What the store lacks is exactly what the request would take back.
StoreBehind ==
  phase # "down" =>
    stored.connections =
      IF Ahead THEN [connections EXCEPT ![job.id] = job.previous] ELSE connections

JobFits ==
  /\ phase = "hosting" => SyncsHosts
  /\ phase = "resaving" => job.resave
  /\ Ahead => job.id \in Ids
  /\ Ahead /\ job.kind = "add" => job.previous = None
  /\ Ahead /\ job.kind = "remove" => connections[job.id] = None

\* While the Agent is down nothing is in memory.
DownEmpty == phase = "down" => Existing = {}

Inv ==
  /\ TypeOK /\ StoredLoadable /\ TasksCurrent
  /\ Disjoint(connections) /\ StoreBehind /\ JobFits /\ DownEmpty

ShuttingDown == phase = "stopping" \/ (phase = "routing" /\ job.kind = "shutdown")

\* Starting all connections failed in its routing: all of them are stopped.
AllTakenBack == job.kind = "startAll" /\ job.resave

\* The inductive form of PreferenceKept: at every step, and with the tasks
\* that keep the preference alive at the next save.
PreferenceSafe ==
  /\ wanted \ displaced \subseteq stored.running
  /\ phase # "down" /\ ~ShuttingDown => wanted \ displaced \subseteq RunningIds
  /\ AllTakenBack => wanted \subseteq displaced

\* The inductive form of Reachable: what the files hold at each step of a
\* request.  A request that will write the hosts block is not relied on before
\* it has; one that will not can start again what was running when it began.
FilesKnown ==
  /\ failed \cap RunningIds = {}
  /\ ~strained /\ phase \notin {"down", "routing", "rerouting"} => RoutesMatch
  /\ ~strained /\ phase \in {"idle", "saving", "resaving", "stopping"} =>
       Resolve(RunningIds)
  /\ ~strained /\ phase = "rerouting" /\ ~SyncsHosts => Resolve(RunningIds)
  /\ ~strained /\ phase = "routing" /\ ~SyncsHosts => Resolve(RunningIds \cup job.ran)
=============================================================================
