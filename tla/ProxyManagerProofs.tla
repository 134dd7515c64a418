------------------------- MODULE ProxyManagerProofs -------------------------
(* Theorems about ProxyManager, for any connections, settings, ports and     *)
(* domains, with and without a hosts file.                                   *)
EXTENDS ProxyManager, TLAPS

-----------------------------------------------------------------------------
(* The manager's own state: its maps are typed and each task serves what its *)
(* connection says.                                                          *)

ManagerOK ==
  /\ connections \in [Ids -> Settings \cup {None}]
  /\ running \in [Ids -> Settings \cup {None}]
  /\ ended \subseteq RunningIds
  /\ failed \subseteq Ids
  /\ TasksCurrent

\* Starting connections keeps the manager consistent as long as no running
\* connection is edited in the same step.
LEMMA StartKeepsManager ==
  ASSUME ManagerOK, NEW ids \in SUBSET Ids, NEW taken, StartTasks(ids, taken),
         connections' \in [Ids -> Settings \cup {None}],
         \A id \in RunningIds : connections'[id] = connections[id]
  PROVE  ManagerOK'
  BY DEF ManagerOK, StartTasks, RunningIds, TasksCurrent

\* Stopping connections keeps the manager consistent as long as only stopped
\* ones are edited in the same step.
LEMMA StopKeepsManager ==
  ASSUME ManagerOK, NEW ids, StopTasks(ids),
         connections' \in [Ids -> Settings \cup {None}],
         \A id \in RunningIds \ ids : connections'[id] = connections[id]
  PROVE  ManagerOK'
  BY DEF ManagerOK, StopTasks, RunningIds, TasksCurrent

\* Restarting a connection keeps the manager consistent when no other running
\* one is edited in the same step.
LEMMA RestartKeepsManager ==
  ASSUME ManagerOK, NEW id \in Ids, NEW taken, RestartTask(id, taken),
         connections' \in [Ids -> Settings \cup {None}],
         \A i \in RunningIds \ {id} : connections'[i] = connections[i]
  PROVE  ManagerOK'
  BY DEF ManagerOK, RestartTask, RunningIds, TasksCurrent

-----------------------------------------------------------------------------
\* Whatever a handler takes back, the connections in memory are then the
\* stored ones and every task serves the connection it belongs to.
LEMMA UndoReturns ==
  ASSUME Inv, NEW taken, Undo(taken),
         phase \in {"routing", "hosting", "saving"},
         job.kind \notin {"restore", "shutdown"}
  PROVE  connections' = stored.connections /\ ManagerOK'
  <1>1. ManagerOK /\ job \in Jobs /\ stored.connections \in [Ids -> Settings \cup {None}]
    BY DEF Inv, TypeOK, ManagerOK
  <1>2. CASE job.kind = "add"
    <2>1. connections' = [connections EXCEPT ![job.id] = None] /\ StopTasks({job.id})
      BY <1>2 DEF Undo
    <2>2. job.id \in Ids /\ stored.connections = connections'
      BY <1>2, <2>1 DEF Inv, StoreBehind, JobFits, Ahead, SavesConnections
    <2> QED
      BY <1>1, <2>1, <2>2, StopKeepsManager DEF ManagerOK, RunningIds
  <1>3. CASE job.kind = "update"
    <2>1. /\ connections' = [connections EXCEPT ![job.id] = job.previous]
          /\ IF job.id \in job.ran THEN RestartTask(job.id, taken) ELSE StopTasks({job.id})
      BY <1>3 DEF Undo
    <2>2. job.id \in Ids /\ stored.connections = connections'
      BY <1>3, <2>1 DEF Inv, StoreBehind, JobFits, Ahead, SavesConnections
    <2>3. \A i \in RunningIds \ {job.id} : connections'[i] = connections[i]
      BY <1>1, <2>1 DEF ManagerOK, RunningIds
    <2> QED
      BY <1>1, <2>1, <2>2, <2>3, StopKeepsManager, RestartKeepsManager
  <1>4. CASE job.kind = "remove"
    <2>1. /\ connections' = [connections EXCEPT ![job.id] = job.previous]
          /\ StartTasks({job.id} \cap job.ran, taken)
      BY <1>4 DEF Undo
    <2>2. /\ job.id \in Ids
          /\ stored.connections = connections'
          /\ connections[job.id] = None
      BY <1>4, <2>1 DEF Inv, StoreBehind, JobFits, Ahead, SavesConnections
    <2>3. \A i \in RunningIds : connections'[i] = connections[i]
      BY <1>1, <2>1, <2>2 DEF ManagerOK, RunningIds, TasksCurrent
    <2> QED
      BY <1>1, <2>1, <2>2, <2>3, StartKeepsManager DEF Jobs
  <1>5. CASE job.kind \in {"start", "stop", "startAll", "stopAll"}
    <2>1. connections' = connections
      BY <1>5 DEF Undo
    <2>2. stored.connections = connections
      BY <1>5 DEF Inv, StoreBehind, Ahead, SavesConnections
    <2>3. \/ \E ids : StopTasks(ids)
          \/ \E ids \in SUBSET Ids : StartTasks(ids, taken)
      BY <1>1, <1>5 DEF Undo, Jobs
    <2> QED
      BY <1>1, <2>1, <2>2, <2>3, StopKeepsManager, StartKeepsManager DEF ManagerOK
  <1> QED
    BY <1>1, <1>2, <1>3, <1>4, <1>5 DEF Jobs, Kinds

-----------------------------------------------------------------------------
(* The invariant.                                                            *)

\* The rest of the invariant, beside ManagerOK.
OutsideOK ==
  /\ routes \subseteq Routes
  /\ \A r \in routes : r.settings \in Secured
  /\ stored \in [connections : [Ids -> Settings \cup {None}], running : SUBSET Ids]
  /\ phase \in Phases
  /\ job \in Jobs
  /\ StoredLoadable /\ Disjoint(connections) /\ StoreBehind /\ JobFits /\ DownEmpty

HistoryOK == wanted \subseteq Ids /\ displaced \subseteq Ids /\ strained \in BOOLEAN

LEMMA InvParts ==
  /\ Inv <=> ManagerOK /\ OutsideOK /\ HistoryOK
  /\ Inv' <=> ManagerOK' /\ OutsideOK' /\ HistoryOK'
  BY DEF Inv, TypeOK, ManagerOK, OutsideOK, HistoryOK

\* A new Agent without connections satisfies the invariant.
LEMMA InvInit == Init => Inv
  <1> SUFFICES ASSUME Init PROVE Inv
    OBVIOUS
  <1>1. ManagerOK /\ HistoryOK
    BY DEF Init, ManagerOK, HistoryOK, RunningIds, TasksCurrent
  <1>2. /\ stored \in [connections : [Ids -> Settings \cup {None}], running : SUBSET Ids]
        /\ stored.connections = connections
        /\ job \in Jobs
        /\ phase = "idle" /\ phase \in Phases
    BY DEF Init, Jobs, Kinds, NoJob, Phases
  <1>3. OutsideOK
    BY <1>2
       DEF Init, OutsideOK, StoredLoadable, Disjoint, StoreBehind, JobFits, DownEmpty, Ahead
  <1> QED
    BY <1>1, <1>3, InvParts

\* The files a routing writes are typed.
LEMMA RoutesTyped ==
  ASSUME Inv
  PROVE  /\ WantedRoutes \subseteq Routes
         /\ \A r \in WantedRoutes : r.settings \in Secured
  <1> SUFFICES ASSUME NEW r \in WantedRoutes PROVE r \in Routes /\ r.settings \in Secured
    OBVIOUS
  <1>1. PICK id \in Ids : /\ connections[id] \in Secured
                          /\ r = [settings |-> connections[id], location |-> Location(id)]
    BY DEF WantedRoutes, Existing
  <1>2. Location(id) \in {"proxy_pass", "return 503"}
    BY DEF Location
  <1> QED
    BY <1>1, <1>2, SettingsAssumption DEF Routes

\* Every request that begins keeps the invariant.
LEMMA RequestStep == Inv /\ Requests => Inv'
  <1> SUFFICES ASSUME Inv, Requests PROVE Inv'
    OBVIOUS
  <1> USE DEF Begin, outside, history
  <1>1. ManagerOK /\ OutsideOK /\ HistoryOK
    BY InvParts
  <1>2. RunningIds \in SUBSET Ids /\ Existing \in SUBSET Ids
    BY DEF RunningIds, Existing
  <1>3. RunningIds \subseteq Existing
    BY <1>1 DEF ManagerOK, TasksCurrent, RunningIds, Existing
  <1>4. phase = "idle" => stored.connections = connections
    BY <1>1 DEF OutsideOK, StoreBehind, Ahead
  <1>5. ASSUME NEW id \in Ids, NEW s \in Settings, Add(id, s) PROVE Inv'
    <2>1. ManagerOK'
      BY <1>1, <1>5, SettingsAssumption DEF Add, ManagerOK, TasksCurrent, RunningIds
    <2>2. Disjoint(connections)'
      BY <1>1, <1>5 DEF Add, OutsideOK, Disjoint, Unique, Existing, Clash, ManagerOK
    <2>3. job' \in Jobs /\ phase' \in Phases /\ JobFits'
      BY <1>2, <1>5 DEF Add, Jobs, Kinds, Phases, JobFits, Ahead, SavesConnections, SyncsHosts
    <2>4. StoreBehind'
      BY <1>1, <1>4, <1>5, SettingsAssumption
         DEF Add, StoreBehind, Ahead, SavesConnections, ManagerOK
    <2>5. OutsideOK'
      BY <1>1, <1>5, <2>2, <2>3, <2>4 DEF Add, OutsideOK, StoredLoadable, DownEmpty
    <2> QED
      BY <1>1, <1>5, <2>1, <2>5, InvParts DEF Add, HistoryOK
  <1>6. ASSUME NEW id \in Ids, NEW s \in Settings, NEW taken \in SUBSET {id},
               Update(id, s, taken)
        PROVE Inv'
    <2>1. connections' \in [Ids -> Settings \cup {None}]
      BY <1>1, <1>6 DEF Update, ManagerOK
    <2>2. ManagerOK'
      <3>1. CASE running[id] = None
        BY <1>1, <1>6, <2>1, <3>1 DEF Update, ManagerOK, TasksCurrent, RunningIds
      <3>2. CASE running[id] # None
        BY <1>1, <1>6, <2>1, <3>2, RestartKeepsManager DEF Update, ManagerOK, RunningIds
      <3> QED
        BY <3>1, <3>2
    <2>3. Disjoint(connections)'
      BY <1>1, <1>6 DEF Update, OutsideOK, Disjoint, Unique, Existing, Clash, ManagerOK
    <2>4. OutsideOK'
      BY <1>1, <1>2, <1>4, <1>6, <2>3
         DEF Update, OutsideOK, StoredLoadable, StoreBehind, JobFits, DownEmpty, Ahead,
             Phases, Jobs, Kinds, SavesConnections, SyncsHosts, ManagerOK
    <2> QED
      BY <1>1, <1>6, <2>2, <2>4, InvParts DEF Update, HistoryOK
  <1>7. ASSUME NEW id \in Ids, NEW taken \in SUBSET {id}, UpdateRefused(id, taken)
        PROVE Inv'
    <2>1. ManagerOK'
      BY <1>1, <1>7, RestartKeepsManager DEF UpdateRefused, ManagerOK, RunningIds
    <2>2. OutsideOK'
      BY <1>1, <1>7
         DEF UpdateRefused, OutsideOK, StoredLoadable, Disjoint, StoreBehind, JobFits,
             DownEmpty, Ahead, SavesConnections, SyncsHosts, Existing
    <2> QED
      BY <1>1, <1>7, <2>1, <2>2, InvParts DEF UpdateRefused, HistoryOK, Displace
  <1>8. ASSUME NEW id \in Ids, Remove(id) PROVE Inv'
    <2>1. ManagerOK'
      BY <1>1, <1>8, StopKeepsManager DEF Remove, ManagerOK, RunningIds
    <2>2. Disjoint(connections)'
      BY <1>1, <1>8 DEF Remove, OutsideOK, Disjoint, ManagerOK
    <2>3. OutsideOK'
      BY <1>1, <1>2, <1>4, <1>8, <2>2
         DEF Remove, OutsideOK, StoredLoadable, StoreBehind, JobFits, DownEmpty, Ahead,
             Phases, Jobs, Kinds, SavesConnections, SyncsHosts, ManagerOK, Existing
    <2> QED
      BY <1>1, <1>8, <2>1, <2>3, InvParts DEF Remove, HistoryOK
  <1>9. ASSUME NEW id \in Ids, NEW taken \in SUBSET {id}, Start(id, taken) PROVE Inv'
    <2>1. ManagerOK'
      BY <1>1, <1>9, StartKeepsManager DEF Start, ManagerOK, RunningIds
    <2>2. OutsideOK'
      BY <1>1, <1>2, <1>4, <1>9
         DEF Start, OutsideOK, StoredLoadable, Disjoint, StoreBehind, JobFits, DownEmpty,
             Ahead, Phases, Jobs, Kinds, SavesConnections, SyncsHosts
    <2> QED
      BY <1>1, <1>9, <2>1, <2>2, InvParts DEF Start, HistoryOK, Displace
  <1>10. ASSUME NEW id \in Ids, Stop(id) PROVE Inv'
    <2>1. ManagerOK'
      BY <1>1, <1>10, StopKeepsManager DEF Stop, ManagerOK, RunningIds
    <2>2. OutsideOK'
      BY <1>1, <1>2, <1>4, <1>10
         DEF Stop, OutsideOK, StoredLoadable, Disjoint, StoreBehind, JobFits, DownEmpty,
             Ahead, Phases, Jobs, Kinds, SavesConnections, SyncsHosts
    <2> QED
      BY <1>1, <1>10, <2>1, <2>2, InvParts DEF Stop, HistoryOK
  <1>11. ASSUME NEW taken \in SUBSET Ids, StartAll(taken) PROVE Inv'
    <2>1. ManagerOK'
      BY <1>1, <1>2, <1>11, StartKeepsManager DEF StartAll, ManagerOK, RunningIds
    <2>2. OutsideOK'
      BY <1>1, <1>2, <1>4, <1>11
         DEF StartAll, OutsideOK, StoredLoadable, Disjoint, StoreBehind, JobFits, DownEmpty,
             Ahead, Phases, Jobs, Kinds, SavesConnections, SyncsHosts
    <2> QED
      BY <1>1, <1>11, <2>1, <2>2, InvParts DEF StartAll, HistoryOK, Displace
  <1>12. ASSUME StopAll PROVE Inv'
    <2>1. ManagerOK'
      BY <1>1, <1>12, StopKeepsManager DEF StopAll, ManagerOK, RunningIds
    <2>2. OutsideOK'
      BY <1>1, <1>2, <1>4, <1>12
         DEF StopAll, OutsideOK, StoredLoadable, Disjoint, StoreBehind, JobFits, DownEmpty,
             Ahead, Phases, Jobs, Kinds, SavesConnections, SyncsHosts
    <2> QED
      BY <1>1, <1>12, <2>1, <2>2, InvParts DEF StopAll, HistoryOK
  <1>13. ASSUME Shutdown PROVE Inv'
    <2>1. ManagerOK'
      BY <1>1, <1>13, StopKeepsManager DEF Shutdown, ManagerOK, RunningIds
    <2>2. OutsideOK'
      BY <1>1, <1>2, <1>4, <1>13
         DEF Shutdown, OutsideOK, StoredLoadable, Disjoint, StoreBehind, JobFits, DownEmpty,
             Ahead, Phases, Jobs, Kinds, SavesConnections, SyncsHosts
    <2> QED
      BY <1>1, <1>13, <2>1, <2>2, InvParts DEF Shutdown, HistoryOK
  <1> QED
    BY <1>5, <1>6, <1>7, <1>8, <1>9, <1>10, <1>11, <1>12, <1>13
       DEF Requests

\* Taking a request back keeps the invariant.
LEMMA TakeBackStep ==
  ASSUME Inv, NEW taken, NEW resave \in BOOLEAN, TakeBack(taken, resave),
         phase \in {"routing", "hosting", "saving"},
         job.kind \notin {"restore", "shutdown"}
  PROVE  Inv'
  <1>1. connections' = stored.connections /\ ManagerOK'
    BY UndoReturns DEF TakeBack
  <1>2. OutsideOK'
    BY <1>1
       DEF Inv, TypeOK, TakeBack, outside, OutsideOK, StoredLoadable, Disjoint, StoreBehind,
           JobFits, DownEmpty, Ahead, Phases, Jobs
  <1> QED
    BY <1>1, <1>2, InvParts DEF Inv, TypeOK, TakeBack, Displace, HistoryOK


\* The change is still to be saved, or was not to be saved before either.
SameAhead == (Ahead /\ Ahead' /\ job' = job) \/ (~Ahead /\ ~Ahead')

\* A step that leaves the manager and the store alone keeps the invariant.
LEMMA QuietStep ==
  ASSUME Inv, UNCHANGED manager, UNCHANGED stored, SameAhead, HistoryOK',
         routes' = routes \/ routes' = WantedRoutes,
         phase' \in Phases, phase # "down", phase' # "down", job' \in Jobs,
         phase' = "hosting" => SyncsHosts',
         phase' = "resaving" => job'.resave
  PROVE  Inv'
  <1>1. ManagerOK'
    BY DEF Inv, TypeOK, ManagerOK, manager, RunningIds, TasksCurrent
  <1>2. StoreBehind' /\ JobFits'
    BY DEF Inv, StoreBehind, JobFits, SameAhead, manager
  <1>3. OutsideOK'
    BY <1>2, RoutesTyped
       DEF Inv, TypeOK, OutsideOK, StoredLoadable, Disjoint, DownEmpty, manager
  <1> QED
    BY <1>1, <1>3, InvParts

\* Routing, successful or not, keeps the invariant.
LEMMA RoutingStep == Inv /\ Routing => Inv'
  <1> SUFFICES ASSUME Inv, Routing PROVE Inv'
    OBVIOUS
  <1>0. HistoryOK /\ job \in Jobs /\ NoJob \in Jobs /\ JobFits
    BY DEF Inv, TypeOK, HistoryOK, Jobs, Kinds, NoJob
  <1> USE <1>0 DEF Goto, Done, outside, history, HistoryOK, SameAhead, Ahead, Phases,
              SavesConnections, SyncsHosts, HostsDue
  <1>1. CASE RoutesWritten
    BY <1>1, QuietStep DEF RoutesWritten
  <1>2. CASE HostsWritten
    BY <1>2, QuietStep DEF HostsWritten, JobFits
  <1>3. CASE RestoreRoutingFails
    BY <1>3, QuietStep DEF RestoreRoutingFails
  <1>4. CASE RestoreHostsFail
    BY <1>4, QuietStep DEF RestoreHostsFail
  <1>5. ASSUME NEW routed \in BOOLEAN, ShutdownFails(routed) PROVE Inv'
    BY <1>5, QuietStep DEF ShutdownFails
  <1>6. ASSUME NEW taken \in SUBSET Ids, RoutingFails(taken) PROVE Inv'
    BY <1>6, TakeBackStep DEF RoutingFails
  <1>7. ASSUME NEW taken \in SUBSET Ids, HostsFail(taken) PROVE Inv'
    BY <1>7, TakeBackStep DEF HostsFail, JobFits
  <1> QED
    BY <1>1, <1>2, <1>3, <1>4, <1>5, <1>6, <1>7 DEF Routing

\* Saving, and routing and saving again after a failure, keep the invariant.
LEMMA SavingStep == Inv /\ Saving => Inv'
  <1> SUFFICES ASSUME Inv, Saving PROVE Inv'
    OBVIOUS
  <1>0. HistoryOK /\ job \in Jobs /\ NoJob \in Jobs /\ JobFits
    BY DEF Inv, TypeOK, HistoryOK, Jobs, Kinds, NoJob
  <1>1. CASE Saved
    <2>1. ManagerOK' /\ HistoryOK'
      BY <1>0, <1>1
         DEF Saved, Inv, TypeOK, manager, ManagerOK, HistoryOK, RunningIds, TasksCurrent
    <2>2. /\ stored' \in [connections : [Ids -> Settings \cup {None}], running : SUBSET Ids]
          /\ stored'.connections = connections
      BY <1>1 DEF Saved, Rows, Inv, TypeOK, RunningIds, StoreBehind, Ahead
    <2>3. OutsideOK'
      BY <1>0, <1>1, <2>2
         DEF Saved, Done, manager, Inv, TypeOK, OutsideOK, StoredLoadable, Disjoint,
             StoreBehind, JobFits, DownEmpty, Ahead, Phases
    <2> QED
      BY <2>1, <2>3, InvParts
  <1>2. ASSUME NEW taken \in SUBSET Ids, SaveFails(taken) PROVE Inv'
    <2>1. CASE SavesConnections
      BY <1>0, <1>2, <2>1, TakeBackStep DEF SaveFails, SavesConnections
    <2>2. CASE ~SavesConnections
      BY <1>0, <1>2, <2>2, QuietStep
         DEF SaveFails, Done, outside, history, HistoryOK, SameAhead, Ahead, Phases
    <2> QED
      BY <2>1, <2>2
  <1>3. ASSUME NEW ok \in BOOLEAN, Reroute(ok) PROVE Inv'
    BY <1>0, <1>3, QuietStep
       DEF Reroute, RerouteEnds, Goto, Done, HistoryOK, SameAhead, Ahead, Phases
  <1>4. ASSUME NEW ok \in BOOLEAN, Rehost(ok) PROVE Inv'
    BY <1>0, <1>4, QuietStep
       DEF Rehost, RerouteEnds, Goto, Done, HistoryOK, SameAhead, Ahead, Phases
  <1>5. ASSUME NEW ok \in BOOLEAN, Resave(ok) PROVE Inv'
    <2>1. ManagerOK' /\ HistoryOK'
      BY <1>0, <1>5
         DEF Resave, Inv, TypeOK, manager, history, ManagerOK, HistoryOK, RunningIds, TasksCurrent
    <2>2. /\ stored' \in [connections : [Ids -> Settings \cup {None}], running : SUBSET Ids]
          /\ stored'.connections = connections
      BY <1>5 DEF Resave, Rows, Inv, TypeOK, RunningIds, StoreBehind, Ahead
    <2>3. OutsideOK'
      BY <1>0, <1>5, <2>2
         DEF Resave, Done, manager, Inv, TypeOK, OutsideOK, StoredLoadable, Disjoint,
             StoreBehind, JobFits, DownEmpty, Ahead, Phases
    <2> QED
      BY <2>1, <2>3, InvParts
  <1> QED
    BY <1>1, <1>2, <1>3, <1>4, <1>5 DEF Saving

\* The end of a task, the end of the Agent and its next start keep the
\* invariant.
LEMMA LifeStep == Inv /\ Life => Inv'
  <1> SUFFICES ASSUME Inv, Life PROVE Inv'
    OBVIOUS
  <1>1. ASSUME AgentEnds PROVE Inv'
    BY <1>1
       DEF AgentEnds, Inv, TypeOK, NoJob, outside, history, RunningIds, TasksCurrent,
           StoredLoadable, Disjoint, StoreBehind, JobFits, DownEmpty, Ahead, Phases, Jobs,
           Kinds, SavesConnections, Existing
  <1>2. ASSUME NEW taken \in SUBSET Ids, Restart(taken) PROVE Inv'
    <2>1. ManagerOK /\ RunningIds = {}
      BY <1>2 DEF Restart, Inv, TypeOK, ManagerOK, DownEmpty, Existing, RunningIds, TasksCurrent
    <2>2. ManagerOK'
      <3> DEFINE ids == {id \in stored.running : stored.connections[id] # None}
      <3>1. ids \in SUBSET Ids
        BY DEF Inv, TypeOK
      <3>2. StartTasks(ids, taken) /\ connections' \in [Ids -> Settings \cup {None}]
        BY <1>2 DEF Restart, Inv, TypeOK
      <3> QED
        BY <2>1, <3>1, <3>2, StartKeepsManager
    <2>3. OutsideOK'
      BY <1>2
         DEF Restart, Inv, TypeOK, outside, OutsideOK, StoredLoadable, Disjoint, StoreBehind,
             JobFits, DownEmpty, Ahead, Phases, Jobs, Kinds, NoJob, SavesConnections
    <2> QED
      BY <1>2, <2>2, <2>3, InvParts DEF Restart, Inv, TypeOK, Displace, HistoryOK
  <1>3. ASSUME NEW id \in Ids, TaskEnds(id) PROVE Inv'
    BY <1>3
       DEF TaskEnds, Inv, TypeOK, outside, history, RunningIds, TasksCurrent,
           StoredLoadable, Disjoint, StoreBehind, JobFits, DownEmpty, Ahead,
           SavesConnections, SyncsHosts, Existing
  <1> QED
    BY <1>1, <1>2, <1>3 DEF Life, ShutdownEnds, Crash

LEMMA InvStep == Inv /\ [Next]_vars => Inv'
  <1>1. Inv /\ UNCHANGED vars => Inv'
    BY DEF Inv, TypeOK, vars, manager, outside, history, RunningIds, TasksCurrent,
           StoredLoadable, Disjoint, StoreBehind, JobFits, DownEmpty, Ahead,
           SavesConnections, SyncsHosts, Existing
  <1> QED
    BY <1>1, RequestStep, RoutingStep, SavingStep, LifeStep DEF Next

-----------------------------------------------------------------------------
(* The preference.                                                           *)

\* After a step that displaces what it leaves without a task, every wanted
\* connection has a task or is displaced.
LEMMA DisplaceSafe ==
  ASSUME Inv', Displace, UNCHANGED <<wanted, stored>>, PreferenceSafe,
         \/ ~AllTakenBack'
         \/ UNCHANGED job
         \/ RunningIds' = {}
  PROVE  PreferenceSafe'
  BY DEF Displace, Inv, TypeOK, RunningIds, PreferenceSafe, AllTakenBack

\* A step that stops no wanted task keeps the preference.
LEMMA KeptSafe ==
  ASSUME PreferenceSafe, phase # "down", ~ShuttingDown, UNCHANGED <<displaced, stored>>,
         wanted' \subseteq wanted, RunningIds \cap wanted' \subseteq RunningIds',
         ~AllTakenBack' \/ UNCHANGED job
  PROVE  PreferenceSafe'
  BY DEF PreferenceSafe, AllTakenBack

\* Every step keeps the preference of what is wanted and not displaced.
LEMMA PreferenceStep == Inv /\ Inv' /\ PreferenceSafe /\ [Next]_vars => PreferenceSafe'
  <1> SUFFICES ASSUME Inv, Inv', PreferenceSafe, [Next]_vars PROVE PreferenceSafe'
    OBVIOUS
  <1> USE DEF outside, history, AllTakenBack, Begin, NoJob, Done, Goto
  <1>1. CASE UNCHANGED vars
    BY <1>1 DEF vars, manager, PreferenceSafe, RunningIds, ShuttingDown
  <1>2. CASE Requests
    <2>1. ASSUME NEW id \in Ids, NEW s \in Settings, Add(id, s) PROVE PreferenceSafe'
      BY <2>1, KeptSafe DEF Add, RunningIds, ShuttingDown
    <2>2. ASSUME NEW id \in Ids, NEW s \in Settings, NEW taken \in SUBSET {id},
                 Update(id, s, taken)
          PROVE PreferenceSafe'
      <3>1. RunningIds \subseteq RunningIds'
        BY <2>2, SettingsAssumption DEF Update, RestartTask, RunningIds, Inv, TypeOK
      <3> QED
        BY <2>2, <3>1, KeptSafe DEF Update, ShuttingDown
    <2>3. ASSUME NEW id \in Ids, NEW taken \in SUBSET {id},
                 UpdateRefused(id, taken) \/ Start(id, taken)
          PROVE PreferenceSafe'
      BY <2>3, DisplaceSafe DEF UpdateRefused, Start
    <2>4. ASSUME NEW taken \in SUBSET Ids, StartAll(taken) PROVE PreferenceSafe'
      BY <2>4, DisplaceSafe DEF StartAll
    <2>5. ASSUME NEW id \in Ids, Remove(id) \/ Stop(id) PROVE PreferenceSafe'
      BY <2>5, KeptSafe DEF Remove, Stop, StopTasks, RunningIds, ShuttingDown
    <2>6. CASE StopAll
      BY <2>6 DEF StopAll, PreferenceSafe
    <2>7. CASE Shutdown
      BY <2>7 DEF Shutdown, Begin, PreferenceSafe, ShuttingDown, Inv, TypeOK, Jobs
    <2> QED
      BY <1>2, <2>1, <2>2, <2>3, <2>4, <2>5, <2>6, <2>7 DEF Requests
  <1>3. ASSUME NEW taken, NEW resave, TakeBack(taken, resave) PROVE PreferenceSafe'
    <2>1. CASE job.kind = "startAll"
      <3>1. StopTasks(Existing)
        BY <1>3, <2>1 DEF TakeBack, Undo
      <3>2. RunningIds' = {}
        BY <3>1 DEF StopTasks, RunningIds, Existing, Inv, TypeOK, TasksCurrent
      <3> QED
        BY <1>3, <3>2, DisplaceSafe DEF TakeBack
    <2>2. CASE job.kind # "startAll"
      BY <1>3, <2>2, DisplaceSafe DEF TakeBack, Inv, TypeOK, Jobs
    <2> QED
      BY <2>1, <2>2
  <1>4. CASE Routing
    <2>1. CASE RoutesWritten
      BY <2>1 DEF RoutesWritten, Goto, Done, manager, PreferenceSafe, RunningIds, ShuttingDown,
                  HostsDue, SyncsHosts
    <2>2. CASE HostsWritten \/ RestoreHostsFail
      BY <2>2, KeptSafe
         DEF HostsWritten, RestoreHostsFail, Goto, Done, manager, RunningIds, ShuttingDown
    <2>3. CASE RestoreRoutingFails
      BY <2>3, KeptSafe DEF RestoreRoutingFails, manager, RunningIds, ShuttingDown
    <2>4. ASSUME NEW routed \in BOOLEAN, ShutdownFails(routed) PROVE PreferenceSafe'
      BY <2>4 DEF ShutdownFails, PreferenceSafe
    <2> QED
      BY <1>3, <1>4, <2>1, <2>2, <2>3, <2>4 DEF Routing, RoutingFails, HostsFail
  <1>5. CASE Saving
    <2>1. CASE Saved
      <3> DEFINE confirmed == IF job.kind = "start" THEN {job.id} \cap RunningIds
                              ELSE IF job.kind = "startAll" THEN RunningIds ELSE {}
      <3>1. wanted \ displaced \subseteq RunningIds /\ wanted \ displaced \subseteq stored.running
        BY <2>1 DEF Saved, PreferenceSafe, ShuttingDown
      <3>2. /\ stored' = Rows /\ RunningIds' = RunningIds /\ ~AllTakenBack'
            /\ wanted' = wanted \cup confirmed /\ displaced' = displaced \ confirmed
        BY <2>1 DEF Saved, manager, RunningIds
      <3>3. confirmed \subseteq RunningIds /\ (job.kind = "add" => confirmed = {})
        OBVIOUS
      <3>4. wanted' \ displaced' \subseteq (wanted \ displaced) \cup confirmed
        BY <3>2
      <3>5. wanted' \ displaced' \subseteq RunningIds
        BY <3>1, <3>3, <3>4
      <3>6. Rows.running = IF job.kind = "add" THEN stored.running ELSE RunningIds
        BY DEF Rows
      <3>7. wanted' \ displaced' \subseteq Rows.running
        <4>1. CASE job.kind = "add"
          BY <3>1, <3>3, <3>4, <3>6, <4>1
        <4>2. CASE job.kind # "add"
          BY <3>5, <3>6, <4>2
        <4> QED
          BY <4>1, <4>2
      <3> HIDE DEF confirmed
      <3> QED
        BY <3>2, <3>5, <3>7 DEF PreferenceSafe, AllTakenBack
    <2>2. ASSUME NEW taken \in SUBSET Ids, SaveFails(taken) PROVE PreferenceSafe'
      <3>1. CASE SavesConnections
        BY <1>3, <2>2, <3>1 DEF SaveFails
      <3>2. CASE ~SavesConnections
        <4>1. /\ UNCHANGED <<wanted, displaced, stored>> /\ RunningIds' = RunningIds
              /\ ~AllTakenBack' /\ phase = "saving"
          BY <2>2, <3>2 DEF SaveFails, manager, RunningIds
        <4> QED
          BY <4>1 DEF PreferenceSafe, ShuttingDown
      <3> QED
        BY <3>1, <3>2
    <2>3. ASSUME NEW ok \in BOOLEAN, Reroute(ok) \/ Rehost(ok) PROVE PreferenceSafe'
      <3>1. /\ UNCHANGED <<wanted, displaced, stored>> /\ RunningIds' = RunningIds
            /\ phase \in {"rerouting", "rehosting"} /\ (~AllTakenBack' \/ UNCHANGED job)
        BY <2>3 DEF Reroute, Rehost, RerouteEnds, manager, RunningIds
      <3> QED
        BY <3>1 DEF PreferenceSafe, ShuttingDown
    <2>4. ASSUME NEW ok \in BOOLEAN, Resave(ok) PROVE PreferenceSafe'
      <3>1. /\ UNCHANGED <<wanted, displaced>> /\ RunningIds' = RunningIds
            /\ phase = "resaving" /\ ~AllTakenBack'
        BY <2>4 DEF Resave, manager, RunningIds
      <3>2. wanted \ displaced \subseteq RunningIds /\ wanted \ displaced \subseteq stored.running
        BY <3>1 DEF PreferenceSafe, ShuttingDown
      <3>3. wanted \ displaced \subseteq stored'.running
        <4>1. CASE ~ok
          BY <2>4, <3>2, <4>1 DEF Resave
        <4>2. CASE ok /\ job.kind = "startAll"
          <5>1. job.resave
            BY <3>1 DEF Inv, TypeOK, JobFits
          <5>2. wanted \ displaced = {}
            BY <4>2, <5>1 DEF PreferenceSafe
          <5> QED
            BY <5>2
        <4>3. CASE ok /\ job.kind # "startAll"
          BY <2>4, <3>2, <4>3 DEF Resave, Rows
        <4> QED
          BY <4>1, <4>2, <4>3
      <3> QED
        BY <3>1, <3>2, <3>3 DEF PreferenceSafe
    <2> QED
      BY <1>5, <2>1, <2>2, <2>3, <2>4 DEF Saving
  <1>6. CASE Life
    <2>1. CASE AgentEnds
      BY <2>1 DEF AgentEnds, PreferenceSafe
    <2>2. ASSUME NEW taken \in SUBSET Ids, Restart(taken) PROVE PreferenceSafe'
      BY <2>2, DisplaceSafe DEF Restart
    <2>3. ASSUME NEW id \in Ids, TaskEnds(id) PROVE PreferenceSafe'
      BY <2>3 DEF TaskEnds, PreferenceSafe, RunningIds, ShuttingDown
    <2> QED
      BY <1>6, <2>1, <2>2, <2>3 DEF Life, ShutdownEnds, Crash
  <1> QED
    BY <1>1, <1>2, <1>4, <1>5, <1>6 DEF Next

-----------------------------------------------------------------------------
(* Routes and hosts.                                                         *)

\* No connection both has a task and is noted as failed, whatever starts and
\* stops.
LEMMA FailedHasNoTask ==
  ASSUME failed \cap RunningIds = {},
         \/ UNCHANGED <<running, failed>>
         \/ \E ids, taken : StartTasks(ids, taken)
         \/ \E ids : StopTasks(ids)
         \/ \E id, taken : Inv /\ id \in Ids /\ RestartTask(id, taken)
  PROVE  (failed \cap RunningIds)' = {}
  <1>1. CASE UNCHANGED <<running, failed>>
    BY <1>1 DEF RunningIds
  <1>2. ASSUME NEW ids, NEW taken, StartTasks(ids, taken) PROVE (failed \cap RunningIds)' = {}
    BY <1>2 DEF StartTasks, RunningIds
  <1>3. ASSUME NEW ids, StopTasks(ids) PROVE (failed \cap RunningIds)' = {}
    BY <1>3 DEF StopTasks, RunningIds
  <1>4. ASSUME NEW id \in Ids, NEW taken, Inv, RestartTask(id, taken)
        PROVE  (failed \cap RunningIds)' = {}
    BY <1>4 DEF RestartTask, RunningIds, Inv, TypeOK
  <1> QED
    BY <1>1, <1>2, <1>3, <1>4

\* The files a routing writes are those the connections need.
LEMMA WantedMatch ==
  ASSUME Inv, UNCHANGED manager, routes' = WantedRoutes
  PROVE  RoutesMatch'
  <1> SUFFICES /\ \A r \in WantedRoutes : \E id \in Ids : connections[id] = r.settings
               /\ \A id \in Existing \ failed : connections[id] \in Secured =>
                    {r \in WantedRoutes : r.settings = connections[id]}
                      = {[settings |-> connections[id], location |-> Location(id)]}
    BY DEF RoutesMatch, manager, Existing, Location
  <1> DEFINE Route(id) == [settings |-> connections[id], location |-> Location(id)]
  <1>1. \A r : r \in WantedRoutes <=>
               \E id \in Ids : connections[id] # None /\ connections[id] \in Secured /\ r = Route(id)
    BY DEF WantedRoutes, Existing
  <1>2. \A r \in WantedRoutes : \E id \in Ids : connections[id] = r.settings
    BY <1>1
  <1>3. ASSUME NEW id \in Existing, connections[id] \in Secured
        PROVE  {r \in WantedRoutes : r.settings = connections[id]} = {Route(id)}
    <2>1. Route(id) \in WantedRoutes /\ Route(id).settings = connections[id]
      BY <1>1, <1>3 DEF Existing
    <2>2. ASSUME NEW other \in Ids, connections[other] = connections[id] PROVE other = id
      BY <1>3, <2>2 DEF Inv, Disjoint, Clash, Existing
    <2>3. ASSUME NEW r \in WantedRoutes, r.settings = connections[id] PROVE r = Route(id)
      <3>1. PICK other \in Ids : r = Route(other)
        BY <1>1
      <3>2. connections[other] = connections[id]
        BY <2>3, <3>1
      <3> QED
        BY <2>2, <3>1, <3>2
    <2> QED
      BY <2>1, <2>3
  <1> QED
    BY <1>2, <1>3

\* Routes stay right when nothing changes but tasks that are then noted as
\* failed.
LEMMA MatchKept ==
  ASSUME RoutesMatch, UNCHANGED <<connections, routes>>, failed \subseteq failed',
         \A id \in Existing \ failed' : running'[id] = running[id]
  PROVE  RoutesMatch'
  BY DEF RoutesMatch, Existing, Location

\* A hosts block just written holds the domains of all that runs.
LEMMA WantedResolve ==
  ASSUME Inv, UNCHANGED manager, hosts' = WantedHosts
  PROVE  Resolve(RunningIds)'
  BY DEF Inv, TasksCurrent, manager, WantedHosts, Resolve, RunningIds, Existing

\* A request that begins leaves the files as they are, and goes without
\* writing them only when nothing but failed connections has changed.
LEMMA FilesRequest == Inv /\ FilesKnown /\ Requests => FilesKnown'
  <1> SUFFICES ASSUME Inv, FilesKnown, Requests PROVE FilesKnown'
    OBVIOUS
  <1> USE DEF Begin, outside, history
  <1>1. /\ connections \in [Ids -> Settings \cup {None}]
        /\ running \in [Ids -> Settings \cup {None}]
        /\ \A id \in RunningIds : connections[id] # None
    BY DEF Inv, TypeOK, TasksCurrent, RunningIds
  <1>2. ASSUME NEW id \in Ids, NEW s \in Settings, Add(id, s) PROVE FilesKnown'
    <2>1. RunningIds' = RunningIds /\ \A i \in RunningIds : connections'[i] = connections[i]
      BY <1>1, <1>2 DEF Add, RunningIds
    <2>2. ~strained' => Resolve(RunningIds \cup job.ran)'
      BY <1>2, <2>1 DEF Add, FilesKnown, Resolve
    <2> QED
      BY <1>2, <2>1, <2>2 DEF Add, FilesKnown
  <1>3. ASSUME NEW id \in Ids, NEW s \in Settings, NEW taken \in SUBSET {id},
               Update(id, s, taken)
        PROVE FilesKnown'
    <2>1. (failed \cap RunningIds)' = {}
      <3>1. CASE running[id] = None
        BY <1>3, <3>1 DEF Update, RunningIds, FilesKnown
      <3>2. CASE running[id] # None
        BY <1>3, <3>2, FailedHasNoTask DEF Update, FilesKnown
      <3> QED
        BY <3>1, <3>2
    <2> QED
      BY <1>3, <2>1 DEF Update, FilesKnown, SyncsHosts
  <1>4. ASSUME NEW id \in Ids, NEW taken \in SUBSET {id}, UpdateRefused(id, taken)
        PROVE FilesKnown'
    <2>1. (failed \cap RunningIds)' = {}
      BY <1>4, FailedHasNoTask DEF UpdateRefused, FilesKnown
    <2>2. /\ RunningIds' \subseteq RunningIds
          /\ \A i \in Existing \ failed' : running'[i] = running[i]
          /\ failed \subseteq failed'
      BY <1>1, <1>4 DEF UpdateRefused, RestartTask, RunningIds, FilesKnown, Inv, TasksCurrent
    <2>3. ~strained => RoutesMatch'
      BY <1>4, <2>2, MatchKept DEF UpdateRefused, FilesKnown
    <2>4. ~strained => Resolve(RunningIds)'
      BY <1>4, <2>2 DEF UpdateRefused, FilesKnown, Resolve
    <2> QED
      BY <1>4, <2>1, <2>3, <2>4 DEF UpdateRefused, FilesKnown
  <1>5. ASSUME NEW id \in Ids, Remove(id) PROVE FilesKnown'
    BY <1>5, FailedHasNoTask DEF Remove, FilesKnown, SyncsHosts
  <1>6. ASSUME NEW id \in Ids, NEW taken \in SUBSET {id}, Start(id, taken) PROVE FilesKnown'
    <2>1. (failed \cap RunningIds)' = {}
      BY <1>6, FailedHasNoTask DEF Start, FilesKnown
    <2>2. CASE running'[id] # None
      BY <1>6, <2>1, <2>2 DEF Start, FilesKnown, SyncsHosts
    <2>3. CASE running'[id] = None
      <3>1. /\ RunningIds' \subseteq RunningIds
            /\ \A i \in Existing \ failed' : running'[i] = running[i]
            /\ failed \subseteq failed'
        BY <1>1, <1>6, <2>3 DEF Start, StartTasks, RunningIds, Existing
      <3>2. ~strained => RoutesMatch'
        BY <1>6, <3>1, MatchKept DEF Start, FilesKnown
      <3>3. ~strained => Resolve(RunningIds)'
        BY <1>6, <3>1 DEF Start, FilesKnown, Resolve
      <3> QED
        BY <1>6, <2>1, <2>3, <3>2, <3>3 DEF Start, FilesKnown
    <2> QED
      BY <2>2, <2>3
  <1>7. ASSUME NEW id \in Ids, Stop(id) PROVE FilesKnown'
    <2>1. RunningIds' \subseteq RunningIds
      BY <1>7 DEF Stop, StopTasks, RunningIds
    <2>2. ~strained => Resolve(RunningIds \cup job.ran)'
      BY <1>7, <2>1 DEF Stop, FilesKnown, Resolve
    <2> QED
      BY <1>7, <2>2, FailedHasNoTask DEF Stop, FilesKnown
  <1>8. ASSUME NEW taken \in SUBSET Ids, StartAll(taken) PROVE FilesKnown'
    <2>1. (failed \cap RunningIds)' = {}
      BY <1>8, FailedHasNoTask DEF StartAll, FilesKnown
    <2>2. CASE RunningIds' # {}
      BY <1>8, <2>1, <2>2 DEF StartAll, FilesKnown, SyncsHosts, RunningIds
    <2>3. CASE RunningIds' = {}
      <3>1. Existing \subseteq failed' /\ failed \subseteq failed'
        BY <1>1, <1>8, <2>3, SettingsAssumption DEF StartAll, StartTasks, RunningIds, Existing
      <3>2. ~strained => RoutesMatch'
        BY <1>8, <3>1, MatchKept DEF StartAll, FilesKnown
      <3>3. Resolve(RunningIds)'
        BY <2>3 DEF Resolve
      <3> QED
        BY <1>8, <2>1, <2>3, <3>2, <3>3 DEF StartAll, FilesKnown, RunningIds
    <2> QED
      BY <2>2, <2>3
  <1>9. CASE StopAll \/ Shutdown
    <2>1. RunningIds' \subseteq RunningIds
      BY <1>9 DEF StopAll, Shutdown, StopTasks, RunningIds
    <2>2. ~strained => Resolve(RunningIds \cup job.ran)'
      BY <1>9, <2>1 DEF StopAll, Shutdown, FilesKnown, Resolve
    <2> QED
      BY <1>9, <2>2, FailedHasNoTask DEF StopAll, Shutdown, FilesKnown
  <1> QED
    BY <1>2, <1>3, <1>4, <1>5, <1>6, <1>7, <1>8, <1>9 DEF Requests

\* What a handler takes back in memory starts again only what ran when the
\* request began, unless it also writes the hosts block.
LEMMA FilesTakeBack ==
  ASSUME Inv, FilesKnown, NEW taken, NEW resave \in BOOLEAN, TakeBack(taken, resave),
         phase \in {"routing", "hosting", "saving"},
         phase = "saving" => SavesConnections,
         job.kind \notin {"restore", "shutdown"}
  PROVE  FilesKnown'
  <1>1. (failed \cap RunningIds)' = {}
    <2>1. \/ \E ids : StartTasks(ids, taken)
          \/ \E ids : StopTasks(ids)
          \/ job.kind = "update" /\ RestartTask(job.id, taken)
      BY DEF TakeBack, Undo
    <2>2. job.kind = "update" => job.id \in Ids
      BY DEF Inv, JobFits, Ahead, SavesConnections
    <2> QED
      BY <2>1, <2>2, FailedHasNoTask DEF FilesKnown
  <1>2. SyncsHosts' <=> SyncsHosts
    BY DEF TakeBack, SyncsHosts, Inv, TypeOK, Jobs
  <1>3. ASSUME ~SyncsHosts, ~strained PROVE Resolve(RunningIds)'
    <2>1. CASE job.kind = "add"
      <3>1. /\ RunningIds' \subseteq RunningIds
            /\ \A i \in RunningIds' : connections'[i] = connections[i]
        BY <2>1 DEF TakeBack, Undo, StopTasks, RunningIds, Inv, TypeOK
      <3>2. Resolve(RunningIds)
        BY <1>3, <2>1 DEF FilesKnown, Resolve, Inv, JobFits, SyncsHosts
      <3> QED
        BY <3>1, <3>2 DEF TakeBack, outside, Resolve
    <2>2. CASE job.kind \in {"stop", "stopAll"}
      <3>1. /\ RunningIds' \subseteq RunningIds \cup job.ran
            /\ connections' = connections
        BY <2>2 DEF TakeBack, Undo, StartTasks, RunningIds, Inv, TypeOK
      <3>2. phase = "routing"
        BY <1>3, <2>2 DEF SavesConnections, Inv, JobFits
      <3>3. Resolve(RunningIds \cup job.ran)
        BY <1>3, <3>2 DEF FilesKnown
      <3> QED
        BY <3>1, <3>3 DEF TakeBack, outside, Resolve
    <2> QED
      BY <1>3, <2>1, <2>2 DEF SyncsHosts, Inv, TypeOK, Jobs, Kinds
  <1> QED
    BY <1>1, <1>2, <1>3 DEF TakeBack, FilesKnown

\* A step that changes neither the manager nor the files keeps what is known
\* of them.
LEMMA FilesQuiet ==
  ASSUME FilesKnown, UNCHANGED <<manager, routes, hosts>>, strained' = strained
  PROVE  /\ (failed \cap RunningIds)' = {}
         /\ RoutesMatch => RoutesMatch'
         /\ Resolve(RunningIds) => Resolve(RunningIds)'
  BY DEF FilesKnown, manager, RunningIds, RoutesMatch, Existing, Location, Resolve

\* Routing, successful or not, leaves the files as the connections need them,
\* or is noted as having failed.
LEMMA FilesRouting == Inv /\ FilesKnown /\ Routing => FilesKnown'
  <1> SUFFICES ASSUME Inv, FilesKnown, Routing PROVE FilesKnown'
    OBVIOUS
  <1> USE DEF outside, history
  <1>1. CASE RoutesWritten
    <2>1. RoutesMatch' /\ (failed \cap RunningIds)' = {}
      BY <1>1, WantedMatch DEF RoutesWritten, FilesKnown, manager, RunningIds
    <2>2. ~strained /\ ~HostsDue => Resolve(RunningIds)'
      BY <1>1 DEF RoutesWritten, FilesKnown, manager, RunningIds, Resolve, HostsDue
    <2>3. ~strained /\ phase' \in {"idle", "saving", "resaving", "stopping"} =>
            Resolve(RunningIds)'
      BY <1>1, <2>2 DEF RoutesWritten, Goto
    <2>4. phase' \notin {"routing", "rerouting"}
      BY <1>1 DEF RoutesWritten, Goto, Done
    <2> QED
      BY <1>1, <2>1, <2>3, <2>4 DEF RoutesWritten, FilesKnown
  <1>2. CASE HostsWritten
    BY <1>2, WantedResolve
       DEF HostsWritten, Goto, Done, FilesKnown, manager, RunningIds, RoutesMatch, Existing,
           Location
  <1>3. ASSUME RestoreRoutingFails \/ RestoreHostsFail PROVE FilesKnown'
    BY <1>3 DEF RestoreRoutingFails, RestoreHostsFail, FilesKnown, manager, RunningIds
  <1>4. ASSUME NEW routed \in BOOLEAN, ShutdownFails(routed) PROVE FilesKnown'
    <2>1. CASE routed
      <3>1. phase = "stopping" /\ phase' = "idle" /\ strained' = strained
        BY <1>4, <2>1 DEF ShutdownFails, Done, Inv, TypeOK
      <3> QED
        BY <1>4, <3>1, FilesQuiet DEF ShutdownFails, FilesKnown
    <2>2. CASE ~routed
      BY <1>4, <2>2 DEF ShutdownFails, Done, FilesKnown, manager, RunningIds
    <2> QED
      BY <2>1, <2>2
  <1>5. ASSUME NEW taken \in SUBSET Ids, RoutingFails(taken) PROVE FilesKnown'
    BY <1>5, FilesTakeBack DEF RoutingFails
  <1>6. ASSUME NEW taken \in SUBSET Ids, HostsFail(taken) PROVE FilesKnown'
    <2>1. job.kind # "shutdown"
      BY <1>6 DEF HostsFail, Inv, JobFits, SyncsHosts
    <2> QED
      BY <1>6, <2>1, FilesTakeBack DEF HostsFail
  <1> QED
    BY <1>1, <1>2, <1>3, <1>4, <1>5, <1>6 DEF Routing

\* Saving, and routing again after a failure, keep the files known.
LEMMA FilesSaving == Inv /\ FilesKnown /\ Saving => FilesKnown'
  <1> SUFFICES ASSUME Inv, FilesKnown, Saving PROVE FilesKnown'
    OBVIOUS
  <1> USE DEF outside, history
  <1>1. ASSUME Saved \/ \E ok \in BOOLEAN : Resave(ok) PROVE FilesKnown'
    <2>1. /\ UNCHANGED <<manager, routes, hosts, strained>>
          /\ phase \in {"saving", "resaving"} /\ phase' = "idle"
      BY <1>1 DEF Saved, Resave, Done
    <2> QED
      BY <2>1, FilesQuiet DEF FilesKnown
  <1>2. ASSUME NEW taken \in SUBSET Ids, SaveFails(taken) PROVE FilesKnown'
    <2>1. CASE SavesConnections
      BY <1>2, <2>1, FilesTakeBack DEF SaveFails, SavesConnections
    <2>2. CASE ~SavesConnections
      BY <1>2, <2>2, FilesQuiet DEF SaveFails, Done, FilesKnown
    <2> QED
      BY <2>1, <2>2
  <1>3. ASSUME NEW ok \in BOOLEAN, Reroute(ok) PROVE FilesKnown'
    <2>1. UNCHANGED <<manager, hosts>> /\ RunningIds' = RunningIds /\ phase = "rerouting"
      BY <1>3 DEF Reroute, manager, RunningIds
    <2>2. CASE ok
      <3>1. RoutesMatch' /\ strained' = strained
        BY <1>3, <2>1, <2>2, WantedMatch DEF Reroute, Inv, TypeOK
      <3>2. ~strained /\ ~SyncsHosts => Resolve(RunningIds)'
        BY <2>1 DEF FilesKnown, Resolve, manager
      <3>3. phase' \in {"rehosting", "resaving", "idle"} /\ (SyncsHosts => phase' = "rehosting")
        BY <1>3, <2>2 DEF Reroute, RerouteEnds, Goto, Done
      <3> QED
        BY <2>1, <3>1, <3>2, <3>3 DEF FilesKnown, manager
    <2>3. CASE ~ok
      BY <1>3, <2>1, <2>3 DEF Reroute, FilesKnown, manager
    <2> QED
      BY <2>2, <2>3
  <1>4. ASSUME NEW ok \in BOOLEAN, Rehost(ok) PROVE FilesKnown'
    <2>1. /\ UNCHANGED <<manager, routes>> /\ RunningIds' = RunningIds
          /\ phase = "rehosting" /\ phase' \in {"resaving", "idle"}
      BY <1>4 DEF Rehost, RerouteEnds, Goto, Done, manager, RunningIds
    <2>2. CASE ok
      <3>1. Resolve(RunningIds)' /\ strained' = strained
        BY <1>4, <2>1, <2>2, WantedResolve DEF Rehost, Inv, TypeOK
      <3>2. RoutesMatch => RoutesMatch'
        BY <2>1 DEF RoutesMatch, manager, Existing, Location
      <3> QED
        BY <2>1, <3>1, <3>2 DEF FilesKnown, manager
    <2>3. CASE ~ok
      BY <1>4, <2>1, <2>3 DEF Rehost, FilesKnown, manager
    <2> QED
      BY <2>2, <2>3
  <1> QED
    BY <1>1, <1>2, <1>3, <1>4 DEF Saving

\* A task that ends by itself is still in the map; an Agent that starts again
\* routes what it starts before it relies on it.
LEMMA FilesLife == Inv /\ FilesKnown /\ Life => FilesKnown'
  <1> SUFFICES ASSUME Inv, FilesKnown, Life PROVE FilesKnown'
    OBVIOUS
  <1> USE DEF outside, history
  <1>1. ASSUME AgentEnds PROVE FilesKnown'
    BY <1>1 DEF AgentEnds, FilesKnown
  <1>2. ASSUME NEW taken \in SUBSET Ids, Restart(taken) PROVE FilesKnown'
    <2>1. (failed \cap RunningIds)' = {}
      BY <1>2, FailedHasNoTask DEF Restart, FilesKnown
    <2> QED
      BY <1>2, <2>1 DEF Restart, FilesKnown, NoJob, SyncsHosts
  <1>3. ASSUME NEW id \in Ids, TaskEnds(id) PROVE FilesKnown'
    <2>1. UNCHANGED <<connections, running, failed, routes, hosts, strained, phase, job>>
      BY <1>3 DEF TaskEnds
    <2>2. RunningIds' = RunningIds /\ (RoutesMatch => RoutesMatch') /\ SyncsHosts' = SyncsHosts
      BY <2>1 DEF RunningIds, RoutesMatch, Existing, Location, SyncsHosts
    <2>3. /\ (Resolve(RunningIds) => Resolve(RunningIds)')
          /\ (Resolve(RunningIds \cup job.ran) => Resolve(RunningIds \cup job.ran)')
      BY <2>1, <2>2 DEF Resolve
    <2> QED
      BY <2>1, <2>2, <2>3 DEF FilesKnown
  <1> QED
    BY <1>1, <1>2, <1>3 DEF Life, ShutdownEnds, Crash

\* Every step keeps the files known.
LEMMA FilesStep == Inv /\ FilesKnown /\ [Next]_vars => FilesKnown'
  <1>1. ASSUME FilesKnown, UNCHANGED vars PROVE FilesKnown'
    <2>1. /\ UNCHANGED <<manager, routes, hosts, strained>>
          /\ phase' = phase /\ job' = job
      BY <1>1 DEF vars, outside, history
    <2>2. (SyncsHosts' <=> SyncsHosts) /\ RunningIds' = RunningIds
      BY <2>1 DEF SyncsHosts, manager, RunningIds
    <2>3. Resolve(RunningIds \cup job.ran) => Resolve(RunningIds \cup job.ran)'
      BY <2>1, <2>2 DEF Resolve, manager
    <2> QED
      BY <1>1, <2>1, <2>2, <2>3, FilesQuiet DEF FilesKnown
  <1> QED
    BY <1>1, FilesRequest, FilesRouting, FilesSaving, FilesLife DEF Next

-----------------------------------------------------------------------------
(* The results.                                                              *)

\* The inductive invariant holds in every reachable state.
THEOREM Invariance == Spec => []Inv
  BY InvInit, InvStep, PTL DEF Spec

\* Every value has its type.
THEOREM TypeCorrect == Spec => []TypeOK
  <1>1. Inv => TypeOK
    BY DEF Inv
  <1> QED
    BY <1>1, Invariance, PTL

\* The Agent can always load the connections it stored.
THEOREM RestartAccepted == Spec => []StoredLoadable
  <1>1. Inv => StoredLoadable
    BY DEF Inv
  <1> QED
    BY <1>1, Invariance, PTL

\* Between requests memory and store hold the same connections.
THEOREM StoreAgrees == Spec => []StoreFollows
  <1>1. Inv => StoreFollows
    BY DEF Inv, StoreBehind, StoreFollows, Ahead
  <1> QED
    BY <1>1, Invariance, PTL

\* Every listener serves the current settings of its connection.
THEOREM ListenersCurrent == Spec => []TasksCurrent
  <1>1. Inv => TasksCurrent
    BY DEF Inv
  <1> QED
    BY <1>1, Invariance, PTL

\* What the user started is in the stored preference until the user stops it
\* or that connection itself loses its listener.
THEOREM PreferenceSurvives == Spec => []PreferenceKept
  <1>1. Init => PreferenceSafe
    BY DEF Init, PreferenceSafe, AllTakenBack, NoJob
  <1>2. PreferenceSafe => PreferenceKept
    BY DEF PreferenceSafe, PreferenceKept
  <1> QED
    BY <1>1, <1>2, Invariance, PreferenceStep, PTL DEF Spec

\* Between requests what runs is reachable under its domain: its route
\* forwards to it, no route is left of what was removed or unsecured, and on
\* Windows its domain resolves, unless a repeated routing has failed.
THEOREM RunningReachable == Spec => []Reachable
  <1>1. Init => FilesKnown
    BY DEF Init, FilesKnown, RunningIds, RoutesMatch, Existing, Resolve
  <1>2. FilesKnown => Reachable
    BY DEF FilesKnown, Reachable, RoutesFollow, HostsOfRunning
  <1> QED
    BY <1>1, <1>2, Invariance, FilesStep, PTL DEF Spec
=============================================================================
