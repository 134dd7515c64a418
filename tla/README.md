# TLA+ models of fabDev

fabDev is a local development environment: a Desktop application and a command
line talk over a local socket to the **Agent**, which installs PHP, Node.js and
MariaDB Runtimes, serves Sites with nginx and PHP-FPM, runs HTTP(S) proxies to
other services and shares Sites on the LAN. The code lives under `src/crates`
(Rust), `src/apps` (Desktop, Connect) and `src/helpers` (privileged helpers).
This directory holds TLA+ models of the parts whose behaviour depends on
interleaving, failure and restart, the TLC runs that check them, and TLAPS proofs.

Line numbers refer to the sources; `agent`, `runtime`, `updater`, `proxy` and
`services` stand for `src/crates/<name>/src/...` (`agent` is
`src/crates/agent/src/main.rs`).

## 1. Inventory

### How the parts interact

Every Desktop or CLI request is one frame on the socket; the Agent answers each
connection in a task of its own (agent 864). Requests in the *lifecycle list*
(agent 888-935: Site, Proxy, service and install requests, StartAll, StopAll,
Shutdown) hold the lifecycle lock for their whole duration, so they run one at
a time, but between their awaits the following still run:

- requests outside the list (CheckRuntimeUpdates, StartRuntimeDownload, its
  cancel and status queries);
- background tasks: download workers, proxy listeners, health checks, the LAN
  share, child processes that die by themselves;
- a crash or kill of the Agent between any two system calls. Children (nginx,
  PHP-FPM, MariaDB) are spawned with `kill_on_drop(false)` and outlive it.

### Components

| Component | State | Operations | What is hard | What must hold |
|---|---|---|---|---|
| Runtime download manager (agent 111-430) | registry of operations, per operation a snapshot, a cancel flag, a finished flag | start, get, cancel, begin/finish install, shutdown; workers | cancel, retry and shutdown race with workers; history cleanup at the limit | one live download per Runtime, one installer, cancellation is final, nothing live forgotten, shutdown quiesces |
| Runtime install (runtime 1343-1500, agent 1445-1875, 2397-2974, Desktop) | version directories, backups, staging, active link, `.removed` markers | online install/update, manual and bundled install, select, remove, rollback | a sequence of renames with failures and crashes between them | no installed version is lost, a rejected update changes nothing, the link is valid |
| Runtime catalog (updater 66-165, 686-762) | accepted state and cached catalog per schema | check, read the cache | two overlapping checks; crash inside the "atomic" write | acceptance never goes back, nothing torn, no v1 after v2 |
| Runtime offers (runtime 330-1124, 1507-1600, agent 2989-3181, updater 147-167, 259-288) | catalogs, package receipts | generate and validate a catalog, list offers, install from catalog, file or App | the catalog changes while a download waits; receipts of packages somebody else installed | what is installed is what the catalog of that moment lists, and the receipt names it |
| Package download (updater 169-290, 420-680, `windows_download.rs`) | partial and verified files, segments, pending manifest | download, resume, verify, cancel, retry | resumption against a changed or damaged file | a verified file has the catalog's hash; no leftover fails every later attempt |
| Proxy connections (agent 1876-2120, proxy 336-620, storage) | connections and listeners in memory, rows and preference in SQLite, TLS routes, hosts entries | add, update, remove, start, stop, start/stop all, shutdown, restart | five stores changed in turn, each may fail, rollbacks may fail | database, memory, routes and hosts agree; the preference survives |
| Proxy upstream health (proxy 48-330, 841-1028) | errors and counters behind a fair lock, one per listener | accept, periodic probe, request outcome, status, stop | the probe is a future of the accepting task, and both take the lock | an error shown is one that holds; a stop is answered |
| Proxy forwarding (proxy 1029-1245) | none | rewrite and stream one request | none of its own | header and CORS rules |
| Site configurations (agent 973-1345, services 859-1560) | Site rows, rendered files, certificates, hosts, nginx, pools | add, update, remove, HTTPS, PHP version, StartAll | files, database and the running nginx change one after another | what nginx serves is what the rows say; nothing of a removed Site stays |
| Site homes (agent 3235-3480, services 1107-1255, `crates/sites`) | home directories, derived rows | scan, batch apply, SaveSiteHome | one failing Site in a batch; directories that change meanwhile | rows match directories; a refused save changes nothing |
| Local CA (services `tls.rs`, agent 1298) | CA and certificate files | ensure, trust, sign | three files written one after another, outside the lifecycle lock | a certificate verifies against the trusted CA |
| Service supervisor: MariaDB (services 540-860, 2200-2760, 4560-4660) | settings files, data directory, process, pid file | start, stop, save, install, remove, recover | a server of a former Agent; two files that belong together | what runs is what was saved; one server |
| Service supervisor: PHP settings (services 1600-1910, 2960-3060) | php.ini, settings, generated copy, server | save, start, refresh | write, validate, restart and put back | a refused save changes nothing; a server runs what was saved |
| Service supervisor: processes and logs (services 4060-4800) | processes without a handle, log files | stop, rotate | PIDs and workers that change during the stop | a stop leaves none and harms no other; entries are kept |
| LAN sharing (agent 432-612, `crates/share`) | running shares, allowed domains, connections | start, stop, edit, filter | a share of a changed Site, kept-alive connections | only shared domains are reachable |
| Agent lifecycle (agent 615-950, 2121-2171, 3183-3218; Desktop 826-1098, 1640-1911) | endpoint, queue, shutting-down phase, callers, tray | dispatch, Shutdown, start, upgrade, Quit | requests queued behind Shutdown; two Agents | nothing restarts after Shutdown; an upgrade restarts what ran |
| Storage (`core/storage.rs`) | SQLite tables | transactions | external | atomic saves |
| App updater (updater `lib.rs`, Desktop) | installer, pending manifest | check, download | an installer of a version that runs already | the manifest names a verified file |
| Terminal PHP/Node (`crates/platform`) | shims, shell files or PATH, backup | enable, disable, select, remove | partial edits beside the user's own and Herd's | nothing of the user's is lost; the commands work |
| Desktop backend (`src-tauri`) | staging directories, markers | bundled installs at start | an install beside a removal by the Agent | removed Runtimes stay removed, installed ones are whole |
| Privileged helpers and Connect (`helpers/windows`, `apps/connect`) | hosts file and its backup | write a block, restore | several writers in place, crashes | the user's lines survive; each block is what its writer was told |
| Desktop UI (stores, `request-gate.ts`) | view state | queries | answers out of order | an old answer never replaces a newer one |
| Command line, packaging | none | formatting, build scripts | I/O | - |

### Where the code is hard to test

`PROJECT.json` lists the thirty-nine that matter most, each with its line. In short: two
scans of one registry with an unlocked cancel between them; waits on a watch
channel racing with shutdown; rename sequences interrupted anywhere; a "write
atomically" that removes before it renames; a validated value written after an
await; rollbacks of several stores of which any may fail too; files (hosts, CA,
staging, PATH) that several programs change without a lock; processes that outlive
the Agent that started them; and a lock that is handed to a future nobody polls.
Section 7 names those that no property covers.

## 2. Modules

```
RuntimeOperations   what a client sees of downloads        (abstract)
  ^ implemented by
RuntimeDownloads    the registry, callers, workers   --> RuntimeDownloadsProofs
RuntimeStore        what a user sees of one Runtime        (abstract)
  ^ implemented by (unless wounded)
RuntimeInstall      directories, link, markers       --> RuntimeInstallProofs
                                                         (and TerminalIntegration)
RuntimeCatalog      accepted state and cached catalogs --> RuntimeCatalogProofs
                                                         (and RuntimeOffers)
ProxyManager        Proxy requests over five stores  --> ProxyManagerProofs
Sites               Site requests over rows, files, certificates,
                    hosts, nginx, pools and LAN shares  --> SitesProofs
ProxyHealth         one running Proxy: accepting task, probe, lock, stop
RuntimeOffers       catalog generation and validation, offers, receipts
ArtifactDownload    one package or installer from the server to the disk
BundledRuntimes     the Desktop's start beside an Agent  --> RuntimeDownloadsProofs
MariaDb  PhpSettings  LogRotation                        the supervisor
ManagedProcesses    processes an Agent left behind   --> ManagedProcessesProofs (and the
                                                         three above)
SiteHomes  LocalCa  HostsFile                            around the Sites
LanShare            the listener of shared Sites     --> LanShareProofs (and HostsFile)
AgentLifecycle      Agents, endpoint, Desktop, CLI, Quit
TerminalIntegration php and node in the user's terminal
ServiceProofs       theorems about ArtifactDownload, LocalCa, SiteHomes and AgentLifecycle
MC<module>          constants of the TLC runs
MCServices          the thirteen modules after ProxyHealth as one suite
```

No action is shared between two modules: the components meet only through
values. A verified package of `ArtifactDownload` becomes a verified operation of
`RuntimeDownloads`, waits in `operations` of `RuntimeOffers` and is a member of `Catalog` in
`RuntimeInstall`; an accepted catalog of `RuntimeCatalog` is `accepted` of
`RuntimeOffers`. `Sites` and `ProxyManager` see the hosts helper as an outcome whose
inside is `HostsFile`, and `EnsureCertificate` as one whose inside is `LocalCa`.

`MCServices` is a sum: `part` is chosen in the initial state and names the component
whose steps the behaviour takes; the variables `x1..x19` are that component's and
None where it has fewer. The components share no state there, so their product would
multiply the states and show nothing more. Where Unix and Windows differ, both are
parts. `MCProxyManager` checks `ProxyHealth` as a second part in the same way.

### RuntimeDownloads

`operations` is the registry map, `holder` the caller that holds its mutex
between its two scans (the only critical section with two separate looks at
per-operation state that other tasks change without that mutex). `status`,
`cancelled` and `finished` are the fields of a `RuntimeDownloadTask`; they
change under the task's own snapshot mutex, so each change is one action.
`caller` and `worker` are the control states of `start()` and of the spawned
download; `cancelling` holds the cancels that have cloned their task and have
not called `cancel()` yet.

| Action | Code |
|---|---|
| Request, RefuseShuttingDown, WaitForCleanup, PassCleanupScan, RefuseDuplicate, RefuseFull, Admit, Resume | `start()`, agent 247-326, split where the mutex or a watch channel is awaited |
| BeginDownload, FinishDownload, RemovePackage, Exit | worker, agent 328-358, with begin_download/finish_download |
| LookUp, Cancel | `cancel()`, agent 376-385 |
| BeginInstall, FinishInstall | agent 387-419 |
| Shutdown | agent 421-429 |

Progress counters, URLs and packages are left out: no decision of the manager
reads them. A worker's exit sets `finished` (the drop of
`RuntimeDownloadCompletion`).

`RuntimeOperations` states what `GetRuntimeUpdateOperation` may show: one
atomic life cycle per operation, one live download per Runtime, one
installation in all, closing cancels every live operation in one step.
`PublishedSpec` is that specification with `closed <- shuttingDown`.

### RuntimeInstall

One Runtime (PHP, Node.js or MariaDB). `root[v]`, `backup[v]` and `staging[v]`
say what a directory holds: `Absent`, a package, or `Torn`/`Scraps` when a
removal was interrupted. `current` is the target of the active link and
`removed` the set of `.removed` markers. The lifecycle lock admits one job of the
Agent at a time (a bundled install by the Desktop is a job here too; it does not hold
the lock, and its overlap with the Agent's is in BundledRuntimes); `step` is the next
call of the job, `job` what it read when it began.
Each action is one call on the file system or one outcome of a longer
check (`Stage`/`StageFails` for extraction and health check, `Accept`/`Reject`
for the service that must come up with the new version). `Crash` forgets the
job and keeps the directories; a removal in progress may leave `Torn`.

Windows and Unix switch the link differently (runtime 1871-1903): on Windows it
is removed before the pending one is renamed, so `Unlink` and the switch are two
actions when `AtomicSwitch` is FALSE; the runs use FALSE, the behaviours of TRUE
being among those without the `Unlink` step.

`owned` and `wounded` are history: the versions a user installed and did not
remove, and whether a crash, a failing recovery, or the failing end of an
install that has no rollback (manual, bundled) happened. The weaker properties excuse
wounded states; `NothingLost` does not.

`RuntimeStore` is the user's view: package, selection and marker change in one
step. `StoreSpec` maps the directories to it: while an online install is undecided, the
version is still what it was (its backup when it is being replaced), the selection
is the one before and the marker is still there. The step formula excuses
wounded states and the removal of a version that is not there, which can clear
an old marker (a hazard in `PROJECT.json`).

### RuntimeCatalog

`published` is the highest sequence the feed has, the feed may serve any older
one. `file` and `part` hold, per cache file (`accepted`, `v1`, `v2`), the inode
with its catalog and whether it is whole. A check is the sequence of awaits of
`check_for_runtime_updates`: load the accepted state, fetch v2, perhaps fetch v1,
then for the catalog and for the accepted state create, write, sync, remove and
rename. `WriteFails` may hit each step and `Restart` any moment. The reader
(`cached_runtime_catalog`) is two reads. `lost` is history: a check began after
a crash or a failure had removed the accepted state.

### ProxyManager

Five stores: `connections` and `running` (the manager's memory), `stored` (the
SQLite rows and the preferred running ids, written in one transaction),
`routes` (the nginx TLS routes), `hosts` (Windows hosts entries). The manager
mutex and the lifecycle lock admit one request at a time, so a request is
`job` and `phase`:

`routing -> hosting -> saving -> idle`, and after a failure
`rerouting -> rehosting (-> resaving) -> idle`, whose results the code ignores
(`strained` records that a repeated routing failed, `failed` the connections
whose rollback could not bind again).

The bind of a port can fail at each start (`taken`). Listener tasks may end by
themselves at any time (`ended`). A failed `sync_proxy_https_routes` puts the
old routes back. Shutdown stops everything first and may fail afterwards: the
Agent lives on with everything stopped. `Crash` and a successful shutdown lead
to `down`; `Boot` loads the rows, starts the stored running ids and routes only
if something runs.

`wanted` is history, the connections the user started and did not stop;
`displaced` those of them that lost their listener since.

### Sites

`sites` are the rows in SQLite, `files[d]` the Site from which `<d>.conf` was
rendered, `certs` the domains with certificate and key, `hosts` the Windows
hosts entries, `nginx`/`live` the running nginx and what it has loaded per
domain, `pools` the running PHP-FPM pools, `shared` the LAN shares. The lifecycle
lock admits one request at a time: `job` is what it read when it began, `phase`
its next step.

```
syncing -> writing -> unlinking -> pooling -> reloading -> confirming -> tidying -> sharing
              |           |           |           |            |            |
              +-----------+-----------+---> undoing / unrowing -> resyncing -> idle
```

| Action | Code |
|---|---|
| AddSite, UpdateSite, RemoveSite, SetSitePhp, SetSiteHttps | the request and its row, agent 1005-1345, `core/storage.rs` 397-470 |
| SyncHosts, SyncHostsFails, Resync | `sync_site_domains`, services 895-927 and its callers |
| SkipFiles, WriteFiles, WriteFilesFails, Unlink, UnlinkFails | the file steps of `add_`, `update_`, `remove_`, `update_site_php_`, `update_site_https_config` |
| EnsurePool, AddPhpInvalid, PoolFails | `validate_php_config` and `ensure_php_version_running`, services 1077-1089, 1364-1380, 1830-1850 |
| Reload, ReloadFails, Confirm, ConfirmFails, Undo | `nginx -t` and `-s reload`, `wait_for_*`, and the restoration behind them |
| Tidy, TidyFails | the pool of the old version and the obsolete certificate |
| Unrow | the Agent takes the row back |
| ShareUpdated, StartLanShare, StopLanShare | `LanShareState`, agent 453-612 |
| StartAll, StartSyncs, Render, Launch, StartFails, LaunchFails, StopAll | agent 2137-2171, services 866-1003, 1961-2021 |

The five requests share the steps because the code's functions have one
shape; where they differ the step says so by `job.kind` (which files it
concerns, which wait, what is undone). A step that fails on the way is a
disjunct of its own; an undoing whose writes fail too keeps what it could not
restore (two files are put back both or not at all).

`wrecked` is history: the domains whose stores a crash, a failing undo or a
failing clean-up behind an applied change (services 1053, 1335, 1402, which
take back the row only) left apart; it moves with the Site and ends when StartAll
has rendered and launched everything. The refusal of finding 5 counts as a wreck, too. `hostsStale` says that the helper could
not put the entries back. All properties hold at rest (`phase = "idle"`) and
excuse wrecked domains only: an undoing that *succeeds* excuses nothing, and a
wreck of one domain excuses nothing about the others.

Left out: the batch of the Site Home, the Proxy routes of the same nginx, dnsmasq, php.ini
edits, a single pool that dies, failing SQLite calls. A failing `list()` takes the row back at once, which
is a request that changed nothing. The rollback of a failing LAN update
(agent 1141-1160) is dead code: `set_allowed_domains` refuses only an empty list, and the
list holds the Site itself. nginx and pools that a killed Agent leaves running
are ended by `stop_untracked_web_processes` before the next launch and are
not in `nginx` and `pools`.

### ProxyHealth

One connection that runs (proxy 841-1028): `loop` is the accepting task, in its
`select!` or in the body of a branch, `probe` the future of that task which checks the
upstream, `clients[c]` a spawned connection, `queue` the fair lock of the health record
(holder first), `manager` who holds the Proxy manager's mutex. The probe makes progress
only while `loop = "selecting"` (operator `Polled`); an unlock hands the lock to the
first in the queue whether or not it is polled again. `PeriodicSuccess`,
`PeriodicFailure`, `RequestSuccess` and `RequestFailure` are `ProxyHealth::record_*`
with their counters, capped at the thresholds, above which the code does not tell them apart.
`Stop`, `TakesStop`, `Drained`, `TimedOut` and `Aborted` are the stop with its drain and
its abort; `Status` the status request that waits for the record under the manager's
mutex. The state of the TCP connection and HTTP are outcomes.

### RuntimeOffers

A package is the number of its build, which stands for its SHA-256; a catalog stands for
its own. `Build` and `BundlePackage` are the maintainers'; `GenerateV1` and `GenerateV2`
the generators (runtime 330-732) with `Valid`, which the client uses too (751-1124). A
release, a manifest entry or a document has at most one flaw, named after the field that
is wrong; `ReleaseRefuses`, `ManifestRefuses` and `DocumentRefuses` list the fields each
validation looks at, and a flaw that is not among them passes. `Check` accepts a
catalog, `Guesses`/`Record` write the receipts of the first v2 catalog (agent 3065-3085),
`Download` offers what is missing or different, `Install` looks the package up again
(agent 2419-2477, updater 259), `InstallFile`, `InstallBundled` and `RemoveRuntime` are
the other ways a directory and its receipt change. `guessed` and `taken` are history.
macOS offers PHP versions that the installation then refuses (`Listed`, agent 3632), and
a Runtime without receipt is offered an update forever: neither is stated against a
document.

### ArtifactDownload

One attempt at a time to fetch a Runtime package or the installer of the App (updater
420-690, `windows_download.rs`, Desktop App update). A file is its chunks, right or
wrong; `partial`, `segments` and `target` are what lies on disk, `at` the next call of the
attempt. Resumption, an answer 200 to a Range, a body that ends early or is wrong, the
checks at the end, cancellation at every point where the code looks, write failures and
restarts are actions. `pending` is the manifest of the App update. The MC instances are a
package without segments and an installer with them.

### BundledRuntimes

`procs` holds the Desktop's start and the Agent's current request, which do not exclude
each other. `dirs[v]` is none, part or whole, `staging` the directory both unpack into
(Unix) or each its own (Windows). `Launch .. Demo` are Desktop 1219-1620; `InstallPhpRuntime`,
`SetGlobalPhp`, `RemovePhpRuntime`, `Mark`, `CheckRemoval`, `Remove` agent 1454-1589 with runtime
1616-1830. A removal looks at the link and then deletes; a start chooses a version that is
there and then links it.
`shaky`, `confused`, `asGone` are histories that name the exceptions of the properties:
a shared staging directory, a link chosen or set while a version is deleted (the two looks do
not exclude each other), a removal asked for twice.

### MariaDb

`settings` and `connection` are the two settings files, `custom` my.cnf, `desired`
state/mariadb.json; `data[d]` a data directory, `servers[d]` the process on it, `pidFile`
who wrote the pid file; `child`, `recovered` and `path` what the supervisor knows. Each
request is the sequence of its stages (`step`): `Start`, `Prepare`, `Initialise`,
`Launch`, `Await`; `StopServers`; `SaveSettings`, `WriteSettings`, `WriteConnection`,
`Refresh` with `TakeBack` and `Restore`; `InstallRuntime`, `RemoveRuntime`. `Interrupted`
says what a crash leaves of a file that is replaced (on Windows nothing, services 2213).
`Boot` recovers a server only if it answers. Left out: the root password, the rendered
text of the configuration, failing writes of `state/mariadb.json`.

### PhpSettings

For each PHP version the user's `ini` and `setting`, the `generated` copy, the `master`
with what it started with, `strays` of a former Agent. A save (services 1684-1910) is
`Write`, `GenerateFiles`, `Validate`, `StopServer`, `EnsureServer`, and after a failure
`Restore`, `Regenerate`, `Reensure`; macOS stops the server before, Windows replaces it
after. `Begin` generates the old files once more, but for the macOS settings, which
do so only after their write. `StartAll`, `StopAll`, `RefreshConnection`, `EditOutside`, `ServerEnds` and
`AgentEnds` are the other steps.

### ManagedProcesses, LogRotation

`ManagedProcesses` ends processes without a handle: `List`, then per PID `Term`, `Kill`,
`Ended` on Unix (services 4060-4790), `Terminate` through a handle on Windows. PIDs are
used again, masters replace workers, a worker may outlive its master. `LogRotation` is
`rotate_log_file` (4509-4560) call by call, while the service goes on writing.

### SiteHomes

`entries[h][n]` is what the user's directory holds, `rows` the Sites of the home, `files`,
`certificates`, `domains`, `loaded`, `pools` and `shares` what was made of them. A request
is scan, rows, batch (`Apply`, or `ApplyFails` with the part that was written), retire,
share, answer, and its undoing (`Revert`). `damage` says which accidents left what:
"leftovers" are files of Sites that are gone, which nothing ever deletes. How the PHP
version of a directory is found is an outcome.

### LocalCa

A CA is a number; `ca.crt`, `ca.key`, `ca.sha256` and each certificate hold the number of
the CA they were made for, or 0. A request is the list of its file operations (`todo`),
so that two of them interleave file by file and a crash cuts anywhere. `EnsureLocalCa` runs
outside the lifecycle lock (agent 1298); `raced` names the histories in which that bites.

### HostsFile

The file is the sequence of the user's lines and of blocks with their owner. The Agent
waits for one Helper at a time, as Site and Proxy requests both hold the lifecycle lock
(agent 888-935); only a Helper whose Agent has died may meet another. A Helper
(`helpers/windows`) waits for consent, reads, copies the backup, truncates, writes in place
and restores; Connect renames a new file over it. `told` is what the owner of a block was
last told, by an exit code or a rename. `overlapped` and `lost` name the histories of two
writers at once, and of a torn file that became the backup.

### LanShare

`info` is what the Agent reports as shared, `allowed` the listener's set of domains,
`conns` the connections with the request at hand. A request is read, checked against
`allowed` at that moment and forwarded, three actions; a kept-alive connection begins
anew; an upgrade to a WebSocket is not looked into any more.

### AgentLifecycle

`agents[a]` with phase, protocol and queue; `endpoint` is who listens at the path (a
socket that anyone may unlink on Unix, a pipe that lives as long as its process on
Windows). `callers` are the Desktop's tasks, the CLI and Quit, each at a step of
`ensure_agent` (ping, stop the old one, spawn, wait, restart, request). `Serve` carries
out one lifecycle request; `Shutdown` refuses what is queued behind it. A Ping fails when
nobody listens and, up to a bound, when the Agent that listens is slow (`NoReply`): it is
then taken for dead, on Unix its socket is unlinked, and a Quit leaves it behind. `halted`
and `displaced` are history. Left out: the retry of the macOS ingress repair and the launcher of the Windows update.

### TerminalIntegration

On macOS the marked blocks in `.zprofile` and `.zshrc` and Herd's lines, active or
disabled; on Windows the entries of PATH and the backup of Herd's. An operation has a
plan, a sequence of writes (`Plan`), of which any may fail (`Fail`, with `UndoFiles` and
`UndoAgent` for what the code takes back) or be the last (`Crash`). The backup of Herd's
entries is written in place: a write that fails or is cut short may leave only its first
lines (`CutBackup`). A line cut in its middle, which every later disable would refuse
(terminal_php 556-588), is left out. The user, Herd and
the installation of Node versions change the same things in between. Quoting and the text
of the shims are left out.

## 3. Runs

| Run | Module | Shows |
|---|---|---|
| downloads | MCRuntimeDownloads | all properties of the registry, refinement of RuntimeOperations, liveness (`CancellationsEnd`: waiters are answered and cancelled workers end) |
| downloads_overlap | MCRuntimeDownloads | **violation** of OneWorkerPerRuntime: cancel between the two scans |
| install | MCRuntimeInstall | NothingLost through every crash, the two between-job properties, refinement of RuntimeStore |
| catalog | MCRuntimeCatalog | sequential checks with failures and restarts; `AcceptedHolds` is that what was accepted can be read and its catalog covers it and the answers |
| catalog_overlap | MCRuntimeCatalog | **violation** of SequenceNeverFalls: two overlapping checks |
| catalog_restart | MCRuntimeCatalog | **violation** of NeverBackToV1: crash between remove and rename |
| proxy | MCProxyManager | agreement of the five stores between requests, the preference; and of one running connection the thresholds and the stop |
| proxy_preference | MCProxyManager | **violation** of PreferenceRemembered: a taken port at start is remembered as "stopped" |
| proxy_lock | MCProxyHealth | **violation** of ProbeNeverBlocks: the accepting task waits for a lock its own probe was handed |
| sites | MCSites | the properties at rest, through every failing step, crash and restart; `ServedAsConfigured` is SitesServed, OrphansExplained, TlsFilesHaveCertificates and PoolsServe |
| sites_add | MCSites | **violation** of AddRolledBack: a PHP configuration that does not validate leaves the file of a refused Site |
| services | MCServices | the suite: the properties below, each for the parts it concerns |

| Property of the suite | Parts and their properties |
|---|---|
| DatabaseAsSaved | MariaDb: DesiredRemembers, RunsWhatIsSaved, SettingsAreAccepted, OneServer, PhpFollows |
| StopsWhole | MariaDb StopEndsAll; AgentLifecycle ShutdownLeavesNothing, QuitStopsWhatItFound, TrayRecovers; ManagedProcesses StopLeavesNone, OthersUnharmed |
| FailedChangesUndone | SiteHomes FailedSaveKeeps; PhpSettings FailedSaveRestores; TerminalIntegration FailedChangeKeeps |
| ServedAsSaved | SiteHomes HomeSitesServed; PhpSettings ServedAsSaved; LanShare SharedOnly, SharedAsToldOf |
| TerminalWorks | TerminalIntegration IntegrationWhole, EnabledNodeRuns |
| UserDataKept | HostsFile LinesRecoverable; TerminalIntegration TheirsKept; LogRotation EntriesKept |
| DomainsWork | HostsFile BlocksAsTold; LocalCa CertificatesVerify, SecuredIsTrusted |
| PhpIsThere | BundledRuntimes RemovedStays, InstalledIsWhole, ActiveIsInstalled |
| DownloadsVerified | ArtifactDownload OnlyVerified, RetrySucceeds, NothingLeft; RuntimeOffers ReceiptsTrue |
| AsAsked (of steps) | SiteHomes SharedExplicitly; AgentLifecycle UpgradeRestarts; RuntimeOffers NeverOlderStep |

Exceptions are part of a property and named by history variables: what is excused is a
particular accident with particular damage, not every behaviour with a fault.

### Bounds and why they are enough

- **Downloads**: three operations, two of one Runtime and one of another, at
  most two in the registry. Two operations of one Runtime are what the races
  need (the cancelled one and its retry); the third, with the limit 2, makes the
  registry full while one operation is live, so that the cleanup and the
  refusal both happen. Ids are drawn once, as UUIDs are. 52,861 states.
- **Install**: two versions (the one at work and the one the link names), two
  online packages (an update needs a different one; they are symmetric: nothing
  tells one from the other) and one local package; one version is bundled. Any
  number of jobs, failures and crashes. 1,066,870 states.
- **Catalog**: sequences up to 3 and two crashes for the sequential run: a
  write that is interrupted, the next one that recovers, and a third that
  builds on it. The violation runs need less.
- **Proxy**: two connections and three settings, two of which claim one port
  and two one domain, one without TLS. Clashes are between pairs. Every number
  of requests, failures and restarts. Health: one client, which with the probe,
  the status request and the accept branch makes four takers of the lock. 780 thousand states.
- **Sites**: two Sites, two domains (each may take over the other's), two roots
  (an edit without a move), one PHP version (shared by both Sites or used by
  one or none) and one timeout; `OneWreck` TRUE allows a crash or a failing
  undo in a job only while no *other* domain is wrecked, so that there is one
  accident at a time, and after StartAll another. The violation
  runs need one Site. 5.2 million states up to symmetry of ids, domains and
  roots, two minutes.
- **Services**: 3.9 million states in all, of 21 parts. Most parts bound the requests (2-4)
  and the faults (1-3): an accident, the request that meets what it left, and one that
  should have recovered. MariaDb has one fault, two data directories and no bound on
  requests. SiteHomes has two names in two homes and two changes by the user (a swap of
  two directories). LogRotation keeps three archives, so that a gap may form and pass
  through. ManagedProcesses has four PIDs: a master, its worker, the user's process and
  a free one. ArtifactDownload has files of three chunks, so that a partial file may be
  short, complete or wrong in the middle, and two releases. RuntimeOffers has two builds,
  two catalogs published on Windows (one on macOS, with two versions of which one is not
  installed online), sequences up to 2 and catalogs that expire within the run.

`CHECK_DEADLOCK FALSE` is used for downloads (all ids may be used up) and
install (a user need not ask for anything). The parts of the suite that end
have a `Done` step in which nothing changes.

### Fairness

`RuntimeDownloads`: weak fairness per caller and per worker. Tokio polls every task
that is ready, the registry mutex is held without an await between its scans, and a
download ends because the HTTP client has a total timeout. No fairness is assumed of
users: no request, cancel, install or shutdown is ever promised.

`ProxyHealth`: weak fairness of the accepting task's own steps, of the abort after
the timeout, of requests that hold the record's lock and of the status request that waits
for it; strong fairness of the branch that takes the stop and of the probe's result, which
compete in one `select!` that polls its branches in random order. None of clients, of the
upstream or of the user: `StopReturns` holds with clients that never end. The
counterexample to `ProbeNeverBlocks` is under the same fairness: the task is stuck because
the one that must unlock is a future that only this task polls.

All other modules are checked for safety only.

## 4. Proofs

Eight modules hold proofs. All are for arbitrary values of the constants, under the named
ASSUMEs of the component modules: the ids of downloads are finite; the markers for "no
PHP", "no Site", "no job" and "nothing at this path" are none of the values they stand
beside; in `ProxyManager` a settings value has its ports and its domain. The modules that
only the suite instantiates have no ASSUME; their theorems state the same as hypotheses.
Where a module of proofs is about two components, the second is an instance, and a
variable that both declare stands for one of the two at a time.

**RuntimeDownloadsProofs.** `Inv` strengthens the checked invariants with who
holds the mutex (`CallersConsistent`), how a published status, the two flags and the worker's
control state fit (`TasksConsistent`), `ActiveUnique` (at most one
active operation per Runtime) and `ClosedRegistry`. `NothingLiveForgotten` is
itself needed for induction: begin_install looks only at the registry, so
an installing operation that was forgotten would let a second one in.
`RegistryLimited` needs only the type and the guards, with cardinalities
of finite sets. `ImplementsPublished` maps every step to a step of
`RuntimeOperations` or a stutter; `ActiveUnique`'s guard of `Enlist` is where
the second scan matters. `RetriesWait` proves, for the specification in which
no cancel takes effect between the scans, that workers of one Runtime
never overlap (`ScanStillTrue`, `WorkersExclusive`): the window is the only
cause of the violation that `downloads_overlap` shows.

The second half is BundledRuntimes, as an instance: the PHP that comes without a download.
`PhpStaysThere` needs four things that `PhpIsThere` does not say, in `PhpInv`: while a version
counts as gone its marker lies there and no start is past the look at it (`GoneMarked`); a
staging directory belongs to one installer and is whole when it is placed, or the version
is `shaky` (`StagedAlone`); what is about to be linked is there, and what is being deleted
is not linked, until the two overlap (`LinkedThere`); and which steps are whose
(`OwnSteps`). `BundledAssumption`: the App brings versions, the default one among them.

**RuntimeInstallProofs.** `NothingLost` is not inductive: a rollback that
removes the new directory is harmless only because the backup still holds the old
version or because nothing was there before. `Inv` adds which steps a job of each
kind reaches (`StepFitsJob`), what is in `root` after the move (`MovedIn`),
that a version is not owned through an install that may be revoked
(`Revocable`), that the copy of a replaced version is held (`CopiesHeld`) and
that a backup belongs to the job at hand when nothing was wounded
(`BackupOnlyOfJob`).

`LinkNeverDangles` is about the one link that everything runs through. That its version
is on disk says nothing of what the next rename may take away, so `LinkInv` adds where
the version is while a job is under way: in place, in the backup that the rollback
moves back, or in the tree that has just been moved in. `ImplementsStore` maps the
directories, the link and the job to what a user sees (`Shown`, `Chosen`, `Forgotten`):
until the link moves an install shows the old version, and every rename, recovery and
crash of an unwounded store is a stutter or one step of `RuntimeStore`.

The second half is TerminalIntegration, as an instance, once for each system.
`ShellHolds` (macOS) is about four files that a request reads once and writes one after
the other. `TermInv` says where a request can be (`TermPlaced`: what is left of it is
the end of one of its ways), what each file holds at that point, read or already written
(`Advanced`), that a request for PHP leaves Node's part of the same files alone
(`OtherKept`), that Herd's lines are in the file or disabled in it and in what was read
of it (`LinesKept`), and that whatever differs from before a failed request is still
among the steps to take back (`TakenBack`).
`TermAssumption`: not Windows, the shim of PHP is none of Node's, and `None` is no
version.

`WindowsPathHolds` is about a list that both integrations and Herd edit, and of which an
operation puts nothing back. `WinInv` says what is true of the list at every step: Herd's
entries have left it only when they are in the backup, the backup is forgotten only when
they are back (`EntriesKept`), the common entry is there for every shim an integration has
finished with, and no longer than the last shim (`PhpFound`, `NodeFound`, `BinUsed`), and
a step of one integration does not break the other's. The list is rebuilt by two recursive
functions. That they have a solution is proved (`Folding`, by the well-founded order of
the naturals), and from it what is kept of a list, in which order, and that putting
entries back changes nothing of the rest (`WithoutRange`, `WithoutCat`, `WithoutTwice`,
`InsertLaws`, `RestoredLaws`). `WinAssumption`: Windows, the shim of PHP is none of
Node's, of which there is one, `None` is no version, Herd has finitely many entries, and
none of the user's own is Herd's or the common one.

**RuntimeCatalogProofs.** `AcceptedHolds` and `AcceptanceAdvances` are false when checks
overlap, as the run `catalog_overlap` shows, and true with the hypothesis `OneAtATime`.
`Inv` says why: a check knows the accepted state from its first read until it removes it
(`KnowsAccepted`), what it is about to write is not older and the catalog is written
before the state that names it (`PersistsNewer`), the state accepted last is on disk or
known by the one check that is replacing it (`PeakHeld`), and no file is read half written
(`FilesWhole`).

The second half is RuntimeOffers, as an instance. `OfferReceiptsTrue` is nearly inductive
as it stands: every installer writes directory and receipt together or counts among
`guessed`. It needs that a receipt has a directory (`NamesBuilds`).
`OfferNeverOlder` compares a taken package with one taken before, while in between
catalogs are published, accepted and left waiting. `TakenBefore` says that what was taken came
from the accepted catalog or an older one, and that the accepted one still names the
same package if it has the same sequence; `OneReleaseEach` makes that package unique, and
`NamesBuilds` says that whatever names a package names one built of that version. That the
generators list an existing package, the newest, is an induction over the builds, done
by the least-number principle for the order of Nat. `OfferAssumption`: the bounds are numbers,
and `None` is no catalog and no receipt.

**ProxyManagerProofs.** `StoredLoadable` is about the rows, but a save writes
what is in memory: `Inv` adds that memory has no clash, that the store is the memory
with exactly the request's own change taken back while the request is not saved
(`StoreBehind`), how job and phase fit, and that a dead Agent holds nothing.
The rollback of a removal puts its row back and re-checks nothing: that it
cannot clash is `StoreBehind`. `PreferenceSafe` is the second invariant, proved
from the first: every task that keeps a preferred connection alive at the
next save is tracked through shutdowns and failures.

`Reachable` (the routes are those of the connections, and the hosts entries those of what
runs) needs `FilesKnown`, which says what the files hold while a request is under way.
Outside the two routing phases and a dead Agent the routes are those of the tasks that run
(`RoutesMatch`), and a connection that failed has no task. The hosts entries hold the
domains of what runs in every phase that no write of theirs follows, so also through the
routing of a request that will not write them; when such a request is taken back, they
still hold the domains of what ran before it. Nothing of this is claimed once a repeated
routing has failed and its failure was ignored (`strained`).

**SitesProofs.** `SharedCurrent` and `HostsFollow` speak of idle states, so `Inv`
says what holds in the middle of a job: the row is the new one until it is taken back
(`RowOfJob`), the share keeps the old domain until the last step (`SharesFollow`),
the hosts entries are those of the rows the job began with until its sync and
those of the new rows after it (`HostsTrack`), and what a job of each kind remembers
(`JobFits`). `OneWreck` plays no role: the
theorems hold with any number of accidents.
`ServesRows` proves `ServedAsConfigured`: what the running nginx serves is what the rows
say, with certificates and pools that exist. Its invariant `Tracked` follows the rows
through the chain of copies: saved files fit the rows before the job until they
are written and the rows with the job after (`Fits`, `FilesTrack`), the loaded
configuration is that of the last reload (`LiveTracks`), certificates and pools are there
before the files that name them and go after them (`CertsTrack`, `PoolsTrack`), and a
rollback ends at the rows it took back. The domains an accident has wrecked are excepted
one by one, in any number; TLC's run stops at one.

**LanShareProofs.** `SharedOnly` compares what passed with what a connection has seen
shared since its request began, so `Inv` adds `SeesAllowed`: an open connection has seen
every domain the listener allows now. The check of a request reads that set, not the
rows; `SharedAsToldOf` ties the set to the report and the report to the rows, through
edits and scans that exchange domains. The assumption `MarkerDistinct` says that `None`
is neither a domain, a set of domains nor a sharing.

The second half is HostsFile, as an instance: the file where the shared domains end up
on the other side, and the Agent's own on Windows. `HostLinesRecoverable` is not
inductive, as it does not say which of file and backup has the lines. `LinesKept`
adds that from the copy to the end of a Helper the backup has all of them, and that what
Connect has read and not yet written has what the backup lacks; it holds with any number of
writers at once. `HostBlocksAsTold` needs `WritersAlone`, which speaks of histories without
overlap: one writer works at a time, its new contents are `update_managed_block` of the file
or, once the file is truncated, of the backup, and file or backup is as the owners were
told. The lemmas `Unblocked`, `Renewed` and `Begun` say what replacing a block, and a
write that is cut short, do to the lines and to the blocks of the others. `HostAssumption`:
a line of the user's is no managed block, `None` is no Helper and neither is Connect.

**ManagedProcessesProofs.** `StopLeavesNone` speaks of the end of a stop, so `Inv` says
what holds on the way: every master is still listed or waited for (`MastersWatched`), on
Windows so is every worker that is not new (`WorkersWatched`), and on Unix a worker loses
its master only to a crash or a SIGKILL (`WorkersFollow`). `ForeignFresh` is why on Unix only a
process that took a PID after the listing can be signalled by mistake; on Windows
`Terminate` decides through the handle and needs no such invariant. `PidsDistinct` says
that 0, the marker for "no master", is no PID.

The second part is LogRotation, as an instance like those after it. `LogEntriesKept`
speaks of every step of a rotation, so `LogInv` says which archive is the empty one just
now (`Gap`, `GapEmpty`), that a log that has been copied holds nothing but the copy and
what came late (`AllHeld`), that the log counts as the newest archive (`InOrder`), and
that without a fault there is no other gap (`NoOther`). `LogAssumption`: a log is due
when it holds something, and there is at least one archive.

The third part is PhpSettings. `ServedAsSaved` speaks of the time between saves and
`FailedSaveRestores` of the end of one, so `SaveInv` says what each stage has to rely on:
which of the old and the new contents the file and the generated copy hold at every step,
forth and back (`FilesOfSave`), and whether the old server still runs or is the one
to start again (`ServerOfSave`); all other versions are as between saves (`OthersServed`).
`SaveAssumption`: `None` is no save, and the bounds are numbers.

The fourth part is MariaDb. `DatabaseRunsAsSaved` proves five properties that hold each
other up: settings can change only while no server is known, so that the
supervisor knows every server that is no stray is what keeps saved and running alike
(`ServersKnown`), which again needs that a server's directory holds a database
(`DataHeld`): otherwise its settings do not load and on Windows it is not found. A request
that is taken back restores what it remembers, so `DbStepFits` says which request passes
which step and what it remembers, `DesiredFits` that it remembers the wish of the last
success, `Halfway` how far the two settings files have come on their way forth or
back. `PhpFits` follows PHP through the launch, where there is nothing to
connect to yet. The proof showed that `RunsWhatIsSaved` needs no exception for settings
whose write failed: they fail while nothing runs. `DbAssumption`: the default settings
are managed and in the default directory, and `None` and the marks are apart from the
directories, the settings and the contents.

**ServiceProofs** holds the theorems about components of the suite that have no proof
module of their own, each as an instance.

- `DownloadsAreVerified` (ArtifactDownload). That only verified files are delivered
  rests on the hash running in step with the file (`InStep`: in the body the ".part" is
  what has been hashed) and on the finished file being away while its replacement is
  fetched (`Verified`). That at most one undisturbed attempt fails is inductive only with
  `Purged`: after such a failure whatever is left of its release, or of a later one, is
  right, for which `Untouched` says that nothing lies of releases not wanted yet.
  `DownloadAssumption` numbers the releases and keeps `Absent` apart from what a file holds.
- `SecuredDomainsVerify`, `CaTypeCorrect` (LocalCa). Three files are written one by one
  while other requests read them. `CaInv` says that a CA is made by a request that works
  alone (`Alone`), how far it is and that it looks complete only at its end (`Underway`),
  that only a complete CA signs (`Signed`), and that one a request relies on stays
  and is trusted (`Relied`). All but the shape holds until `raced`: two requests on an
  incomplete CA, which nothing in the code prevents. `CaAssumption`: `None` is no caller.
- `HomesHold`, `HomeSharing` (SiteHomes). `HomeSitesServed` speaks of the time between
  requests. `HomeInv` says at every stage whether files, hosts entries, certificates, pools
  and shares are those of the old rows or of the new ones (`FilesFollow`, `DomainsFollow`,
  `PoolsFollow`, `SharesFollow`). While the batch is applied there are certificates for both,
  and a rollback removes none that the old rows need (`CertificatesFollow`). No two rows
  share a domain or a directory, nor a row a domain with a linked Site (`RowsApart`),
  or one's file would overwrite the other's. A save that fails scans the old home again, and
  `KeptHeld` follows the rows it has to bring back through that second scan. The scan
  takes a directory unless one before it has the domain, a recursive function
  over the names; `ListedExists` shows by the least-number principle that it is well
  defined. `HomeAssumption`: the first home and the default PHP are among the
  homes and versions, and the names are numbered in their order, up to a last one.
- `LifecycleHolds` (AgentLifecycle). A request may be answered after its caller gave up and
  began another, so `QueueFits` says that whoever is behind a queued request still waits
  for just that request, of that Agent, and is behind no other. A Quit follows the Agent
  it found through timeouts: it is gone, displaced (unlinked, or left after a Ping it did
  not answer), or the one at the endpoint
  (`FoundHeld`). A task that replaces the Agent holds the start lock (`LockHeld`), and what
  it has restarted runs unless somebody asked for it to stop meanwhile (`StartsDone`). While
  the tray's item is greyed out there is a task that will bring it back (`TrayPending`).
  `LifeAssumption`: there is an Agent, the kinds of request are those the Desktop sends,
  and no task is called as the command line or Quit.

Only model-checked: liveness (`StopReturns` and the downloads' progress: fairness is
beyond the prover) and the other properties of ProxyHealth. No theorem states a property
of `MCServices` itself: it fixes small constants and conjoins properties of its parts. Each
of these is proved about its part, for all constants.

## 5. Findings

Each is a violation run; `PROJECT.json` quotes the documents.

1. **A retry can run beside the download it should wait for** (agent 297). A
   cancel between the scan for cancelled operations and the scan for active
   ones is seen by neither. Proved to be the only cause (`RetriesWait`).
2. **The accepted catalog can go back** (updater 686). Overlapping checks
   validate against what they read before the network.
3. **v1 can be accepted after v2** (updater 758). The accepted state is removed
   before its replacement is renamed.
4. **A taken port changes the stored preference** (agent 2091). What is saved is
   what runs, not what the user started.
5. **A refused Site can leave its nginx file** (services 1079). The validation of
   the PHP configuration in an addition returns past the restoration; the next
   reload serves the orphan. `OrphansExplained` counts such a domain among the wrecked
   ones (`Unrow` from the phase `refusing`).
6. **A Proxy can stop accepting** (proxy 944). The accept branch awaits the health
   record while the probe, a future of the same task, is queued for it. A fair lock is
   handed to the probe, which is not polled while the branch waits.

## 6. Plan

1. *(done)* RuntimeDownloads, RuntimeInstall, RuntimeCatalog, ProxyManager, Sites with
   abstract specifications and proof modules.
2. *(done)* ProxyHealth, SiteHomes, the supervisor (MariaDb, PhpSettings,
   ManagedProcesses, LogRotation), LanShare, LocalCa, HostsFile, AgentLifecycle,
   TerminalIntegration, BundledRuntimes, ArtifactDownload, RuntimeOffers.
3. Proofs in the core *(done)*: every invariant and action property of the core runs.
4. Proofs of the suite's parts: LanShare, ManagedProcesses, ArtifactDownload, LocalCa,
   HostsFile, LogRotation, RuntimeOffers, BundledRuntimes, PhpSettings, MariaDb, SiteHomes,
   AgentLifecycle and TerminalIntegration on both systems *(done)*.
5. Compositions: AgentLifecycle's Shutdown with RuntimeDownloads' and ProxyManager's;
   HostsFile below Sites and ProxyManager in place of an outcome.
6. The status and diagnosis of Sites (services 292-526) and dnsmasq and ingress one by one.

## 7. What is not modelled

Proxy request forwarding (header and CORS rules of one request, no state), the
protocol's types and the directory names, the views of the Desktop, the formatting of
the command line, packaging and build scripts. Of modelled components: the rendered text of
configurations, cryptography, HTTP and archive parsing (outcomes), the root password of
MariaDB, dnsmasq and the ingress as processes of their own, PHP pool status pages and
diagnosis. A failure of the restoration of old nginx files after a failed route sync is
not modelled (the code reports it and stops). `PROJECT.json` gives a status and a reason
for every component.

Known from reading, in the models where said, and without a property that is about it:

- an edit of the response timeout alone reaches nginx only with the next rendering
  (services 1248; `Concerned` of Sites leaves the timeout out), although
  docs/FABDEV_PROGRESS.md:192 says it is written to `fastcgi_read_timeout`;
- Quit leaves behind an Agent whose socket was unlinked, that is too slow to answer a
  Ping, or that comes up after the last look (Desktop 1005; `displaced`), although docs/FABDEV_ARCHITECTURE.md:250 says that
  Quit closes the Agent;
- a failed rename leaves the extracted package in staging until the next install
  (runtime 1334); a torn backup refuses every later update (runtime 1381);
  `RemoveMariaDb` writes no marker;
- AddProxyConnection changes no hosts entry; the domain resolves on Windows after the
  next request that starts something (agent 1883);
- a client of a replaced pool reports its failure late and degrades the connection that
  has recovered (proxy 224);
- a first initialisation of MariaDB that fails leaves a data directory that passes for an
  initialised one (services 2734; `InitialiseFails`);
- restarting the PHP pools ends at the first version that fails (services 1906);
- a WebSocket of a Site that is no longer shared lives on (restricted_http 79), and an
  accept error ends the listener unnoticed (share 107; `AcceptFails`);
- edits of `PATH` by others between reading and writing it are lost (terminal_php 636);
- a copy of an archive that fails leaves a gap and a doubled archive (services 4509);
- SIGKILL of a master leaves its workers (services 4741), and a PID may have a new owner
  between the listing and the signal on Unix (services 4716): the exceptions of
  ManagedProcesses;
- a v2 catalog of sequence 1 and the Desktop on Windows write receipts for packages
  they did not install (agent 3068, Desktop 1514; `guessed`).
