------------------------------ MODULE MariaDb ------------------------------
(***************************************************************************)
(* fabDev's own MariaDB: its settings files, its data directories, the     *)
(* server processes, what the service supervisor knows of them, and the    *)
(* database connection that PHP is configured with.                        *)
(*                                                                         *)
(* A request holds the supervisor's mutex and the lifecycle lock from its  *)
(* first to its last step, so one job is at hand.  Between two of its      *)
(* steps a server may become ready or end by itself, and the Agent may be  *)
(* killed, which leaves the servers running.                               *)
(***************************************************************************)
EXTENDS Naturals, FiniteSets

CONSTANTS
  Windows,        \* TRUE: a file is replaced by removing it and renaming another
  Dirs, DefaultDir,
  DefaultSettings, Choices,   \* settings a user saves
  Configs, Template,          \* contents of the user's my.cnf
  None,
  MaxFaults       \* bound: crashes, servers that end, failing writes and stops

VARIABLES
  settings,    \* config/mariadb.json
  connection,  \* config/mariadb-connection.json
  custom,      \* config/mariadb/my.cnf
  desired,     \* state/mariadb.json
  data,        \* what each data directory holds
  servers,     \* servers[d]: the server process that runs on data directory d
  pidFile,     \* the server that wrote mariadb.pid and mariadb.sock
  php,         \* the connection the running PHP uses, "off" when none runs
  installed,
  child, recovered, path,   \* the supervisor: its child, the process it took over, its Runtime path
  up,          \* the Agent runs
  step, task,
  accepted,    \* history: the settings last accepted
  lastGood,    \* history: whether the last successful request was a start
  excused,     \* history: which stores a fault has left apart
  faults

files == <<settings, connection, custom, desired>>
supervisor == <<child, recovered, path>>
history == <<accepted, lastGood, excused>>
vars == <<files, data, servers, pidFile, php, installed, supervisor, up, step, task,
          history, faults>>

Nobody == [d \in Dirs |-> None]
NoTask == [kind |-> "none", before |-> None, new |-> None]
Modes == {"managed", "system"}
\* "database": there is a mysql directory, be it complete or not.
Holds == {"missing", "empty", "stub", "scraps", "database"}
Excuses == {"settings", "custom", "desired", "php", "stray"}

MarkedWith(es) == excused' = excused \cup es
Fault == faults < MaxFaults /\ faults' = faults + 1

(***************************************************************************)
(* Loading the settings                                                    *)
(***************************************************************************)
\* The connection file overrides the mode in the settings file.
Merged(file, link) ==
  LET base == IF file = None THEN DefaultSettings ELSE file
  IN IF link = None THEN base ELSE [base EXCEPT !.mode = link]

Saved == Merged(settings, connection)

\* Without a settings file the managed default is returned as it is.
Unchecked == settings = None /\ Saved.mode = "managed"

\* Loading creates a missing default directory and removes the lone file that
\* the Windows installer leaves behind when it fails.
Repairs(d) ==
  /\ ~Unchecked
  /\ Saved.mode = "managed"
  /\ d = DefaultDir
  /\ Saved.dir = d
  /\ data[d] = "missing" \/ (Windows /\ data[d] = "stub")

Repaired == [d \in Dirs |-> IF Repairs(d) THEN "empty" ELSE data[d]]

Usable(s, on) == s.mode = "system" \/ on[s.dir] \in {"empty", "database"}

Loads == Unchecked \/ Usable(Saved, Repaired)

(***************************************************************************)
(* Processes                                                               *)
(***************************************************************************)
Listens(port) == \E d \in Dirs : servers[d] # None /\ servers[d].ready /\ servers[d].port = port

\* Fault: a restarted supervisor takes nothing over.
NothingFound(there) == None

\* Which process the pid file and the socket (Unix) or the port (Windows) lead to.
RecoveredPid(there) ==
  IF /\ there
     /\ pidFile # None
     /\ servers[pidFile] # None
     /\ IF Windows THEN Loads /\ Listens(Saved.port) ELSE servers[pidFile].ready
    THEN pidFile ELSE None

\* Unix asks whether the process taken over still lives, Windows looks anew.
RecoveredNow ==
  IF Windows THEN RecoveredPid(installed)
  ELSE IF recovered # None /\ servers[recovered] # None THEN recovered ELSE None

ChildAlive == child # None /\ servers[child] # None
StatusRunning == ChildAlive \/ (child = None /\ RecoveredNow # None)

\* status() forgets a child that has ended; the next look at a recovered one
\* comes after that.
Polled ==
  /\ child' = IF ChildAlive THEN child ELSE None
  /\ recovered' = IF child = None THEN RecoveredNow ELSE recovered

Available ==
  pidFile # None /\ (Windows => Listens(Saved.port))

Effective == IF Available THEN "managed" ELSE "system"
Followed == IF php = "off" THEN "off" ELSE Effective

\* Processes that stop_untracked_mariadb_processes recognises: on Unix by the
\* path they were launched with.
Recognised == {d \in Dirs : servers[d] # None /\ (Windows \/ servers[d].path = path)}

Stoppable == Recognised \cup ({child, recovered} \ {None})

Without(S) == [d \in Dirs |-> IF d \in S THEN None ELSE servers[d]]

Idle == step = "idle" /\ up
Finish == step' = "idle" /\ task' = NoTask
Goto(s) == step' = s /\ UNCHANGED task
Begin(kind, s, new) ==
  step' = s /\ task' = [kind |-> kind, before |-> desired, new |-> new]

(***************************************************************************)
(* Start, stop, restore                                                    *)
(***************************************************************************)
Start ==
  /\ Idle
  /\ Polled
  /\ desired' = TRUE
  /\ IF StatusRunning THEN Begin("confirm", "refreshing", None) ELSE Begin("start", "preparing", None)
  /\ UNCHANGED <<settings, connection, custom, data, servers, pidFile, php, installed,
                 path, up, history, faults>>

Restore ==
  /\ Idle
  /\ desired = TRUE
  /\ Polled
  /\ IF StatusRunning THEN Begin("confirm", "refreshing", None)
     ELSE installed /\ Begin("restore", "preparing", None)
  /\ UNCHANGED <<files, data, servers, pidFile, php, installed, path, up, history, faults>>

\* start_mariadb up to the launch: settings, port, files, and a first
\* initialisation when the directory has no database.
Prepare ==
  /\ step = "preparing"
  /\ installed /\ Loads /\ ~Listens(Saved.port)
  /\ data' = [Repaired EXCEPT ![Saved.dir] = IF @ = "missing" THEN "empty" ELSE @]
  /\ custom' = IF custom = None THEN Template ELSE custom
  /\ Goto(IF data[Saved.dir] = "database" THEN "launching" ELSE "initialising")
  /\ UNCHANGED <<settings, connection, desired, servers, pidFile, php, installed, supervisor,
                 up, history, faults>>

\* A start that fails takes the desired state back.
TakeBack == desired' = IF task.kind = "start" THEN task.before ELSE desired

\* The port may also be held by another program.
PrepareFails ==
  /\ step = "preparing"
  /\ data' = Repaired
  /\ TakeBack /\ Finish
  /\ UNCHANGED <<settings, connection, custom, servers, pidFile, php, installed, supervisor, up,
                 history, faults>>

Initialise ==
  /\ step = "initialising"
  /\ \/ data' = [data EXCEPT ![Saved.dir] = "database"] /\ Goto("launching")
        /\ UNCHANGED desired
     \/ \E left \in {"scraps", "database"} \cup
            (IF Windows /\ Saved.dir = DefaultDir THEN {"stub"} ELSE {}) :
          data' = [data EXCEPT ![Saved.dir] = left] /\ TakeBack /\ Finish
  /\ UNCHANGED <<settings, connection, custom, servers, pidFile, php, installed, supervisor, up,
                 history, faults>>

\* A directory that another server has locked ends the new one at once.
Launch ==
  /\ step = "launching"
  /\ pidFile' = None
  /\ recovered' = None
  /\ IF servers[Saved.dir] # None THEN UNCHANGED <<child, servers>>
     ELSE /\ child' = Saved.dir
          /\ servers' = [servers EXCEPT ![Saved.dir] =
               [port |-> Saved.port, custom |-> custom, path |-> path, ready |-> FALSE]]
  /\ Goto("waiting")
  /\ UNCHANGED <<files, data, php, installed, path, up, history, faults>>

LaunchFails ==
  /\ step = "launching"
  /\ pidFile' = None
  /\ recovered' = None
  /\ TakeBack /\ Finish
  /\ UNCHANGED <<settings, connection, custom, data, servers, php, installed, child, path, up,
                 history, faults>>

\* The waits look at the socket's path and at the port, not at the child.
Await ==
  /\ step = "waiting"
  /\ Listens(Saved.port)
  /\ Windows \/ pidFile # None
  /\ Goto("refreshing")
  /\ UNCHANGED <<files, data, servers, pidFile, php, installed, supervisor, up, history, faults>>

AwaitFails ==
  /\ step = "waiting"
  /\ Goto("stopping")
  /\ UNCHANGED <<files, data, servers, pidFile, php, installed, supervisor, up, history, faults>>

Stop ==
  /\ Idle
  /\ desired' = FALSE
  /\ Begin("stop", "stopping", None)
  /\ UNCHANGED <<settings, connection, custom, data, servers, pidFile, php, installed, supervisor,
                 up, history, faults>>

Shutdown ==
  /\ Idle
  /\ Begin("shutdown", "stopping", None)
  /\ UNCHANGED <<files, data, servers, pidFile, php, installed, supervisor, up, history, faults>>

\* No stray is left when no server is; PHP may still look for it.
Forgiven == IF "stray" \in excused /\ servers' = Nobody
              THEN (excused \ {"stray"}) \cup {"php"} ELSE excused

\* stop_mariadb: every kind of process, then the files; all of it is tried,
\* and what the supervisor knew is forgotten in any case.
StopServers ==
  /\ step = "stopping"
  /\ \E killed \in SUBSET Stoppable :
       /\ servers' = Without(killed)
       /\ child' = None /\ recovered' = None
       /\ IF killed = Stoppable
            THEN pidFile' = None /\ excused' = Forgiven /\ UNCHANGED faults
            ELSE pidFile' \in {pidFile, None} /\ Fault /\ MarkedWith({"stray", "php"})
       /\ up' = ~(task.kind = "shutdown" /\ killed = Stoppable)
       /\ IF task.kind = "stop" /\ killed = Stoppable
            THEN Goto("refreshing") /\ UNCHANGED desired
          ELSE IF task.new = "refreshed"
            THEN Goto("resetting") /\ UNCHANGED desired
          ELSE Finish /\ desired' = IF task.kind \in {"start", "stop"} THEN task.before ELSE desired
  /\ UNCHANGED <<settings, connection, custom, data, php, installed, path, accepted, lastGood>>

(***************************************************************************)
(* PHP: new configurations for every installed version, and a restart      *)
(***************************************************************************)
\* The files of a server that has ended still mislead PHP.
Stale == pidFile # None /\ servers[pidFile] = None
Renewed == IF Stale THEN {} ELSE {"php"}

\* What a start or a stop has achieved when PHP is left to follow.
Achieved ==
  lastGood' = CASE task.kind = "stop" -> FALSE
                [] task.kind \in {"start", "confirm", "restore"} -> TRUE
                [] OTHER -> lastGood

Refresh ==
  /\ step = "refreshing"
  /\ Loads
  /\ data' = Repaired
  /\ php' = Followed
  /\ Achieved
  /\ accepted' = IF task.kind = "settings" THEN task.new ELSE accepted
  /\ excused' = excused \ (Renewed \cup IF task.kind = "settings" THEN {"settings"}
                                       ELSE IF task.kind = "runtime" THEN {} ELSE {"desired"})
  /\ Finish
  /\ UNCHANGED <<files, servers, pidFile, installed, supervisor, up, faults>>

RefreshFails ==
  /\ step = "refreshing"
  /\ data' = Repaired
  /\ php' \in {php, Followed}
  /\ MarkedWith({"php"})
  /\ CASE task.kind = "start" -> /\ step' = "stopping" /\ task' = [task EXCEPT !.new = "refreshed"]
                                 /\ UNCHANGED lastGood
       [] task.kind = "settings" -> /\ step' = "writing" /\ task' = [task EXCEPT !.kind = "undo"]
                                    /\ UNCHANGED lastGood
       [] OTHER -> Finish /\ Achieved
  /\ UNCHANGED <<files, servers, pidFile, installed, supervisor, up, accepted, faults>>

\* The refresh behind an undone request; its result is ignored.
Reset ==
  /\ step = "resetting"
  /\ \/ Loads /\ php' = Followed /\ excused' = excused \ Renewed
     \/ php' \in {php, Followed} /\ UNCHANGED excused
  /\ data' = Repaired
  /\ TakeBack
  /\ Finish
  /\ UNCHANGED <<settings, connection, custom, servers, pidFile, installed, supervisor, up,
                 accepted, lastGood, faults>>

\* The Web services generate the same configuration; only when the settings load.
StartWeb ==
  /\ Idle
  /\ php = "off"
  /\ Loads
  /\ data' = Repaired
  /\ php' = Effective
  /\ excused' = excused \ Renewed
  /\ UNCHANGED <<files, servers, pidFile, installed, supervisor, up, step, task, accepted, lastGood,
                 faults>>

StopWeb ==
  /\ Idle
  /\ php' = "off"
  /\ UNCHANGED <<files, data, servers, pidFile, installed, supervisor, up, step, task, history, faults>>

(***************************************************************************)
(* Settings and configuration, only while the server is stopped            *)
(***************************************************************************)

Untracked == child = None /\ RecoveredNow = None

SaveSettings(new) ==
  /\ Idle
  /\ Loads /\ Untracked
  /\ Usable(new, Repaired)
  /\ data' = Repaired
  /\ recovered' = None
  /\ step' = "writing"
  /\ task' = [kind |-> "settings", before |-> Saved, new |-> new]
  /\ UNCHANGED <<files, servers, pidFile, php, installed, child, path, up, history, faults>>

Target == IF task.kind = "undo" THEN task.before ELSE task.new

WriteSettings ==
  /\ step = "writing"
  /\ settings' = Target
  /\ Goto("linking")
  /\ UNCHANGED <<connection, custom, desired, data, servers, pidFile, php, installed, supervisor,
                 up, history, faults>>

WriteConnection ==
  /\ step = "linking"
  /\ connection' = Target.mode
  /\ Goto(IF task.kind = "undo" THEN "resetting" ELSE "refreshing")
  /\ UNCHANGED <<settings, custom, desired, data, servers, pidFile, php, installed, supervisor,
                 up, history, faults>>

\* What a write that fails, or is cut off, can leave behind.
Interrupted(file) == IF Windows THEN {file, None} ELSE {file}

WriteFails ==
  /\ step \in {"writing", "linking"}
  /\ Fault
  /\ settings' \in IF step = "writing" THEN Interrupted(settings) ELSE {settings}
  /\ connection' \in IF step = "linking" THEN Interrupted(connection) ELSE {connection}
  /\ MarkedWith({"settings"})
  /\ Finish
  /\ UNCHANGED <<custom, desired, data, servers, pidFile, php, installed, supervisor, up,
                 accepted, lastGood>>

\* The installed binary has accepted the contents; the write may fail.
SaveConfig(contents) ==
  /\ Idle
  /\ Untracked /\ installed /\ Loads
  /\ data' = Repaired
  /\ recovered' = None
  /\ \/ custom' = contents /\ UNCHANGED faults
     \/ custom' \in Interrupted(custom) /\ Fault
  /\ UNCHANGED <<settings, connection, desired, servers, pidFile, php, installed, child, path,
                 up, step, task, history>>

(***************************************************************************)
(* Runtime                                                                 *)
(***************************************************************************)
InstallRuntime ==
  /\ Idle
  /\ ~StatusRunning
  /\ child' = None
  /\ installed' = TRUE
  /\ path' = "version"
  /\ recovered' = RecoveredPid(TRUE)
  /\ Begin("runtime", "refreshing", None)
  /\ UNCHANGED <<files, data, servers, pidFile, php, up, history, faults>>

\* The desired state is taken back first, whatever becomes of the removal.
RemoveRuntime ==
  /\ Idle
  /\ ~StatusRunning
  /\ child' = None
  /\ desired' = FALSE
  /\ lastGood' = FALSE
  /\ \/ /\ installed
        /\ installed' = FALSE /\ path' = "current" /\ recovered' = None
        /\ Begin("runtime", "refreshing", None)
     \/ UNCHANGED <<installed, path, recovered, step, task>>
  /\ UNCHANGED <<settings, connection, custom, data, servers, pidFile, php, up, accepted, excused,
                 faults>>

(***************************************************************************)
(* The servers, and the end of the Agent                                   *)
(***************************************************************************)
Ready(d) ==
  /\ servers[d] # None /\ ~servers[d].ready
  /\ ~Listens(servers[d].port)
  /\ servers' = [servers EXCEPT ![d].ready = TRUE]
  /\ pidFile' = d
  /\ excused' = IF step = "waiting" THEN excused ELSE excused \cup {"php"}
  /\ UNCHANGED <<files, data, php, installed, supervisor, up, step, task, accepted, lastGood,
                 faults>>

\* A server that ends in order removes its files.
Ends(d) ==
  /\ servers[d] # None
  /\ Fault
  /\ servers' = [servers EXCEPT ![d] = None]
  /\ pidFile' \in {pidFile} \cup IF pidFile = d THEN {None} ELSE {}
  /\ excused' = Forgiven \cup {"php"}
  /\ UNCHANGED <<files, data, php, installed, supervisor, up, step, task, accepted, lastGood>>

Crash ==
  /\ up
  /\ Fault
  /\ up' = FALSE
  /\ Finish
  /\ settings' \in IF step = "writing" THEN Interrupted(settings) ELSE {settings}
  /\ connection' \in IF step = "linking" THEN Interrupted(connection) ELSE {connection}
  /\ data' \in {data} \cup IF step # "initialising" THEN {}
                          ELSE {[data EXCEPT ![Saved.dir] = h] : h \in {"scraps", "database"}}
  /\ MarkedWith((IF step = "idle" THEN {} ELSE {"desired", "php"})
                \cup (IF task.kind \in {"settings", "undo"} THEN {"settings"} ELSE {})
                \cup (IF \E d \in Dirs : servers[d] # None /\ ~servers[d].ready
                        THEN {"stray"} ELSE {}))
  /\ UNCHANGED <<custom, desired, servers, pidFile, php, installed, supervisor, accepted, lastGood>>

Boot ==
  /\ ~up
  /\ up' = TRUE
  /\ child' = None
  /\ path' = "current"
  /\ recovered' = RecoveredPid(installed)
  /\ php' = "off"
  /\ excused' = excused \ Renewed
  /\ UNCHANGED <<files, data, servers, pidFile, installed, step, task, accepted, lastGood, faults>>

Init ==
  /\ settings = None /\ connection = None /\ custom = None /\ desired = FALSE
  /\ data = [d \in Dirs |-> IF d = DefaultDir THEN "missing" ELSE "empty"]
  /\ servers = Nobody /\ pidFile = None
  /\ php = "off"
  /\ installed = FALSE
  /\ child = None /\ recovered = None /\ path = "current"
  /\ up = TRUE
  /\ step = "idle" /\ task = NoTask
  /\ accepted = DefaultSettings /\ lastGood = FALSE
  /\ excused = {}
  /\ faults = 0

Next ==
  \/ Start \/ Restore \/ Prepare \/ PrepareFails \/ Initialise \/ Launch \/ LaunchFails
  \/ Await \/ AwaitFails \/ Stop \/ Shutdown \/ StopServers
  \/ Refresh \/ RefreshFails \/ Reset
  \/ \E new \in Choices : SaveSettings(new)
  \/ WriteSettings \/ WriteConnection \/ WriteFails
  \/ \E c \in Configs : SaveConfig(c)
  \/ StartWeb \/ StopWeb \/ InstallRuntime \/ RemoveRuntime
  \/ \E d \in Dirs : Ready(d) \/ Ends(d)
  \/ Crash \/ Boot

Spec == Init /\ [][Next]_vars

(***************************************************************************)
(* Properties                                                              *)
(***************************************************************************)
Setting == [mode : Modes, port : Nat, dir : Dirs]

TypeOK ==
  /\ settings \in Setting \cup {None}
  /\ connection \in Modes \cup {None}
  /\ custom \in Configs \cup {Template, None}
  /\ desired \in BOOLEAN
  /\ data \in [Dirs -> Holds]
  /\ \A d \in Dirs : servers[d] \in {None} \cup
       [port : Nat, custom : Configs \cup {Template}, path : {"current", "version"}, ready : BOOLEAN]
  /\ {pidFile, child, recovered} \subseteq Dirs \cup {None}
  /\ php \in Modes \cup {"off"}
  /\ path \in {"current", "version"}
  /\ {up, installed, lastGood} \subseteq BOOLEAN
  /\ excused \subseteq Excuses
  /\ faults \in 0..MaxFaults

\* state/mariadb.json tells the last start or stop that succeeded, whatever
\* requests failed since, unless a crash cut one short (services 645-673).
DesiredRemembers == step = "idle" /\ up /\ "desired" \notin excused => desired = lastGood

\* A server the supervisor knows, its child or one it took over after a restart,
\* runs with the directory, the port and the options that are saved: nothing can
\* be saved beneath it, unless a fault left a server that nobody knows
\* (services 697-717, 752-790, 4574-4650).
RunsWhatIsSaved ==
  \A d \in {child, recovered} \ {None} :
    servers[d] # None /\ "stray" \notin excused =>
      Saved.dir = d /\ Saved.port = servers[d].port /\ custom = servers[d].custom

\* When a stop reports success nothing runs any more, not even a server that no
\* supervisor knows; on Unix one launched from another Runtime path is missed
\* (services 608-643, 4066-4070, 4260-4267).
StopEndsAll ==
  (step = "refreshing" /\ task.kind = "stop") =>
    \A d \in Dirs : servers[d] # None => ~Windows /\ servers[d].path # path

\* Two servers run at once only after a crash left behind one that was not yet
\* ready, which a new supervisor does not find (services 571-590, 4574-4600).
OneServer == "stray" \notin excused => Cardinality({d \in Dirs : servers[d] # None}) <= 1

\* PHP that runs is configured with the managed server when that is available
\* and with the system's otherwise, but for a server that ended by itself and a
\* refresh that failed (services 734-750, 2502-2530, 2717-2740).
PhpFollows ==
  step = "idle" /\ up /\ excused \cap {"php", "stray"} = {} => php \in {"off", Effective}

\* What the two settings files say together is what a request last reported as
\* saved: one that PHP cannot follow is undone in both, unless a write failed
\* (services 715-732, 2314-2360, 2560-2620).
SettingsAreAccepted == step = "idle" /\ "settings" \notin excused => Saved = accepted

RunsAsSaved ==
  /\ DesiredRemembers /\ RunsWhatIsSaved /\ SettingsAreAccepted
  /\ OneServer /\ PhpFollows
=============================================================================
