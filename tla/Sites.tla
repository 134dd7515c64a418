------------------------------- MODULE Sites -------------------------------
(***************************************************************************)
(* The Sites of fabDev: a row in the database, a rendered nginx file, a    *)
(* certificate and a hosts entry per domain, the running nginx with what   *)
(* it has loaded, one PHP-FPM pool per PHP version, and the LAN shares.    *)
(*                                                                         *)
(* A request changes its row first and then the other stores, one step     *)
(* after the other; a step that fails undoes the ones before it.  The      *)
(* Agent's lifecycle lock admits one request at a time, so one job is at   *)
(* hand.  nginx may end by itself, and the Agent may be killed between any *)
(* two steps.  Only the Agent's own nginx and pools are modelled: what a   *)
(* killed Agent leaves running is ended before the next one is launched.   *)
(***************************************************************************)
CONSTANTS
  Ids,         \* Site ids
  Domains,
  Roots,       \* project path and document root
  Timeouts,    \* upstream response timeouts
  Php, NoPhp,  \* PHP versions; a Site may have none
  None, NoJob,
  OneWreck     \* TRUE bounds the model: nothing is wrecked while a domain is

Site == [domain : Domains, root : Roots, timeout : Timeouts,
         php : Php \cup {NoPhp}, secured : BOOLEAN]

ASSUME DistinctAssumption == NoPhp \notin Php /\ None \notin Site

VARIABLES
  sites,       \* rows of the database
  files,       \* files[d]: the Site <sites>/<d>.conf was rendered from
  certs,       \* domains with a certificate and a key on disk
  hosts,       \* the Site domains of the hosts file (Windows)
  nginx,       \* the Agent's nginx runs
  live,        \* live[d]: what nginx has loaded for the domain
  pools,       \* PHP versions with a running pool
  shared,      \* shared[id]: the domain a Site is shared as
  phase,       \* the next step of the job at hand
  job,
  wrecked,     \* history: domains whose stores a crash, a failed recovery or
               \* a failed clean-up has left apart, and where such a Site moved
  hostsStale   \* history: the hosts entries could not be put back

rows == <<sites, hosts>>
disk == <<files, certs>>
processes == <<nginx, live, pools>>
history == <<wrecked, hostsStale>>
vars == <<rows, disk, processes, shared, phase, job, history>>

Rendered == [Domains -> Site \cup {None}]
Kinds == {"add", "update", "remove", "php", "https"}
Jobs == [kind : Kinds, id : Ids, old : Site \cup {None}, new : Site \cup {None},
         saved : Rendered, started : BOOLEAN]

ASSUME JobAssumption == NoJob \notin Jobs

StartPhases == {"starting", "rendering", "launching"}
JobPhases == {"syncing", "writing", "unlinking", "pooling", "reloading", "confirming",
              "tidying", "sharing", "undoing", "refusing", "unrowing", "resyncing"}

RowIds == {id \in Ids : sites[id] # None}
RowDomains == {sites[id].domain : id \in RowIds}
RowPools == {sites[id].php : id \in RowIds} \ {NoPhp}
Nothing == [d \in Domains |-> None]

\* nginx -t: every certificate a file names exists.
Valid(fs, cs) == \A d \in Domains : fs[d] # None /\ fs[d].secured => d \in cs

JobDomains == IF job = NoJob THEN {} ELSE {s.domain : s \in {job.old, job.new} \ {None}}
Wrecks == OneWreck => wrecked \subseteq JobDomains
Moved == job.kind = "update" /\ job.old.domain # job.new.domain

StillUsed(version) == \E id \in RowIds : sites[id].php = version

Begin(kind, id, site, next) ==
  /\ phase = "idle"
  /\ sites' = [sites EXCEPT ![id] = site]
  /\ job' = [kind |-> kind, id |-> id, old |-> sites[id], new |-> site,
             saved |-> files, started |-> FALSE]
  /\ wrecked' = IF sites[id] # None /\ sites[id].domain \in wrecked /\ site # None
                  THEN wrecked \cup {site.domain} ELSE wrecked
  /\ phase' = next
  /\ UNCHANGED <<hosts, disk, processes, hostsStale>>

Go(next) == phase' = next /\ UNCHANGED job
End == phase' = "idle" /\ job' = NoJob

Init ==
  /\ sites = [id \in Ids |-> None]
  /\ files = Nothing
  /\ certs = {}
  /\ hosts = {}
  /\ nginx = FALSE
  /\ live = Nothing
  /\ pools = {}
  /\ shared = [id \in Ids |-> None]
  /\ phase = "idle"
  /\ job = NoJob
  /\ wrecked = {}
  /\ hostsStale = FALSE
-----------------------------------------------------------------------------
(* The requests.  A domain belongs to one row (UNIQUE); a request that      *)
(* changes nothing returns at once.                                         *)

AddSite(id, site) ==
  /\ sites[id] = None
  /\ site.domain \notin RowDomains
  /\ ~site.secured
  /\ Begin("add", id, site, "syncing")
  /\ UNCHANGED shared

\* An edit keeps the PHP version and HTTPS; it may change the name only.
UpdateSite(id, site) ==
  /\ sites[id] # None
  /\ site.php = sites[id].php /\ site.secured = sites[id].secured
  /\ \A other \in RowIds \ {id} : sites[other].domain # site.domain
  /\ Begin("update", id, site, "syncing")
  /\ UNCHANGED shared

RemoveSite(id) ==
  /\ sites[id] # None
  /\ Begin("remove", id, None, "syncing")
  /\ shared' = [shared EXCEPT ![id] = None]

SetSitePhp(id, version) ==
  /\ sites[id] # None /\ sites[id].php # version
  /\ Begin("php", id, [sites[id] EXCEPT !.php = version], "writing")
  /\ UNCHANGED shared

SetSiteHttps(id) ==
  /\ sites[id] # None
  /\ Begin("https", id, [sites[id] EXCEPT !.secured = ~@], "writing")
  /\ UNCHANGED shared

-----------------------------------------------------------------------------
(* The hosts entries, before the files change.                             *)

SyncHosts ==
  /\ phase = "syncing"
  /\ hosts' = RowDomains
  /\ hostsStale' = FALSE
  /\ Go("writing")
  /\ UNCHANGED <<sites, disk, processes, shared, wrecked>>

\* A removal puts its row back at once, the other requests clean up.
SyncHostsFails ==
  /\ phase = "syncing"
  /\ IF job.kind = "remove"
       THEN sites' = [sites EXCEPT ![job.id] = job.old] /\ End
       ELSE UNCHANGED sites /\ Go("unrowing")
  /\ UNCHANGED <<hosts, disk, processes, shared, history>>

-----------------------------------------------------------------------------
(* The nginx files and the certificates they name.                         *)

\* update_site_config looks at the domain and the paths only.
FilesConcerned ==
  job.kind = "update" => Moved \/ job.old.root # job.new.root

SkipFiles ==
  /\ phase = "writing"
  /\ ~FilesConcerned
  /\ Go("sharing")
  /\ UNCHANGED <<rows, disk, processes, shared, history>>

\* Switching PHP or HTTPS reads the file it is about to replace.
FileReadable == job.kind \in {"php", "https"} => files[job.old.domain] # None

Named == IF job.new # None /\ job.new.secured THEN {job.new.domain} ELSE {}

AfterFiles(changed) ==
  IF ~changed \/ ~nginx THEN "tidying"
  ELSE IF job.kind \in {"add", "php"} THEN "pooling" ELSE "reloading"

WriteFiles ==
  /\ phase = "writing"
  /\ FilesConcerned /\ FileReadable
  /\ certs' = certs \cup Named
  /\ files' = IF job.kind = "remove" THEN [files EXCEPT ![job.old.domain] = None]
                                     ELSE [files EXCEPT ![job.new.domain] = job.new]
  /\ Go(IF Moved THEN "unlinking" ELSE AfterFiles(files' # files \/ job.kind # "remove"))
  /\ UNCHANGED <<rows, processes, shared, history>>

\* The certificate may be made before the failure; only an update that moves
\* the Site removes it again, and with it one that was there before.
WriteFilesFails ==
  /\ phase = "writing"
  /\ FilesConcerned
  /\ certs' \in {certs, certs \cup Named} \cup (IF Moved THEN {certs \ Named} ELSE {})
  /\ Go("unrowing")
  /\ UNCHANGED <<rows, files, processes, shared, history>>

Unlink ==
  /\ phase = "unlinking"
  /\ files' = [files EXCEPT ![job.old.domain] = None]
  /\ Go(AfterFiles(TRUE))
  /\ UNCHANGED <<rows, certs, processes, shared, history>>

\* Puts the files back as the job found them; when that fails, what else was
\* to be undone stays too.
Restore(restored) == files' = IF restored THEN job.saved ELSE files

UnlinkFails(restored) ==
  /\ phase = "unlinking"
  /\ restored \/ Wrecks
  /\ Restore(restored)
  /\ certs' = IF restored THEN certs \ Named ELSE certs
  /\ wrecked' = IF restored THEN wrecked ELSE wrecked \cup JobDomains
  /\ Go("unrowing")
  /\ UNCHANGED <<rows, processes, shared, hostsStale>>

-----------------------------------------------------------------------------
(* The PHP pool, nginx, and what is cleaned up behind them.                *)

EnsurePool ==
  /\ phase = "pooling"
  /\ LET needed == {job.new.php} \ {NoPhp} IN
       /\ pools' = pools \cup needed
       /\ job' = [job EXCEPT !.started = ~(needed \subseteq pools)]
  /\ phase' = "reloading"
  /\ UNCHANGED <<rows, disk, nginx, live, shared, history>>

\* validate_php_config fails in an addition: the error returns past the
\* restoration of the file.
AddPhpInvalid ==
  /\ phase = "pooling"
  /\ job.kind = "add" /\ job.new.php # NoPhp
  /\ Wrecks
  /\ Go("refusing")
  /\ UNCHANGED <<rows, disk, processes, shared, history>>

PoolFails(restored) ==
  /\ phase = "pooling"
  /\ job.new.php # NoPhp
  /\ job.kind = "add" => job.new.php \notin pools
  /\ restored \/ Wrecks
  /\ Restore(restored)
  /\ wrecked' = IF restored THEN wrecked ELSE wrecked \cup JobDomains
  /\ Go("unrowing")
  /\ UNCHANGED <<rows, certs, processes, shared, hostsStale>>

Reload ==
  /\ phase = "reloading"
  /\ nginx /\ Valid(files, certs)
  /\ live' = files
  /\ Go(IF job.kind \in {"add", "php"} THEN "tidying" ELSE "confirming")
  /\ UNCHANGED <<rows, disk, nginx, pools, shared, history>>

ReloadFails ==
  /\ phase = "reloading"
  /\ Go("undoing")
  /\ UNCHANGED <<rows, disk, processes, shared, history>>

\* The new configuration answers, and the default server for a domain that
\* was given up.
Confirm ==
  /\ phase = "confirming"
  /\ nginx
  /\ \A d \in JobDomains : live[d] = IF job.new # None /\ d = job.new.domain
                                       THEN job.new ELSE None
  /\ Go("tidying")
  /\ UNCHANGED <<rows, disk, processes, shared, history>>

ConfirmFails ==
  /\ phase = "confirming"
  /\ Go("undoing")
  /\ UNCHANGED <<rows, disk, processes, shared, history>>

\* A certificate made for this job: the Site moved or HTTPS is being enabled.
NewCertificate == IF Moved \/ job.kind = "https" THEN Named ELSE {}

\* Fault: nginx reloads before the files are back.
UndoReloadsFirst(restored, reloaded) ==
  /\ phase = "undoing"
  /\ (restored /\ reloaded) \/ Wrecks
  /\ Restore(restored)
  /\ UNCHANGED live
  /\ pools' = IF restored /\ job.started THEN pools \ {job.new.php} ELSE pools
  /\ certs' = IF restored THEN certs \ NewCertificate ELSE certs
  /\ wrecked' = IF restored /\ reloaded THEN wrecked ELSE wrecked \cup JobDomains
  /\ Go("unrowing")
  /\ UNCHANGED <<rows, nginx, shared, hostsStale>>

\* The results of the reload and of what follows it are ignored.
Undo(restored, reloaded) ==
  /\ phase = "undoing"
  /\ (restored /\ reloaded) \/ Wrecks
  /\ Restore(restored)
  /\ live' = IF restored /\ reloaded /\ nginx /\ Valid(job.saved, certs)
               THEN job.saved ELSE live
  /\ pools' = IF restored /\ job.started THEN pools \ {job.new.php} ELSE pools
  /\ certs' = IF restored THEN certs \ NewCertificate ELSE certs
  /\ wrecked' = wrecked \cup
       IF restored THEN {d \in JobDomains : nginx /\ live'[d] # job.saved[d]}
                   ELSE JobDomains
  /\ Go("unrowing")
  /\ UNCHANGED <<rows, nginx, shared, hostsStale>>

\* Fault: the hosts entries are not put back.
UnrowOnly ==
  /\ phase \in {"refusing", "unrowing"}
  /\ sites' = [sites EXCEPT ![job.id] = job.old]
  /\ wrecked' = IF phase = "refusing" THEN wrecked \cup JobDomains ELSE wrecked
  /\ End
  /\ UNCHANGED <<hosts, disk, processes, shared, hostsStale>>

\* What is not back by now stays as it is.
Unrow ==
  /\ phase \in {"refusing", "unrowing"}
  /\ sites' = [sites EXCEPT ![job.id] = job.old]
  /\ wrecked' = IF phase = "refusing" THEN wrecked \cup JobDomains ELSE wrecked
  /\ IF job.kind \in {"php", "https"} THEN End ELSE Go("resyncing")
  /\ UNCHANGED <<hosts, disk, processes, shared, hostsStale>>

\* The result is ignored.
Resync(done) ==
  /\ phase = "resyncing"
  /\ hosts' = IF done THEN RowDomains ELSE hosts
  /\ hostsStale' = (hosts' # RowDomains)
  /\ End
  /\ UNCHANGED <<sites, disk, processes, shared, wrecked>>

\* The pool of a PHP version no Site uses any more, which is kept when the
\* old nginx workers do not drain, and the certificate of a domain that is
\* not served over HTTPS any more.
Retired ==
  IF job.kind \in {"remove", "php"} /\ job.old.php # NoPhp /\ ~StillUsed(job.old.php)
    THEN {job.old.php} ELSE {}
Obsolete ==
  IF job.old # None /\ job.old.secured /\ (job.kind \in {"remove", "https"} \/ Moved)
    THEN {job.old.domain} ELSE {}

\* Fault: an update removes the certificate of a Site that does not move.
ObsoleteAnyUpdate ==
  IF job.old # None /\ job.old.secured /\ job.kind \in {"remove", "https", "update"}
    THEN {job.old.domain} ELSE {}

Tidy ==
  /\ phase = "tidying"
  /\ pools' \in {pools, pools \ Retired}
  /\ certs' = certs \ Obsolete
  /\ IF job.kind = "update" THEN Go("sharing") ELSE End
  /\ UNCHANGED <<rows, files, nginx, live, shared, history>>

\* Past the point of no return: only the row goes back.
TidyFails ==
  /\ phase = "tidying"
  /\ Wrecks
  /\ Obsolete # {} \/ (job.kind = "php" /\ Retired # {})
  /\ pools' \in {pools, pools \ Retired}
  /\ certs' \in {certs, certs \ Obsolete}
  /\ wrecked' = wrecked \cup JobDomains
  /\ Go("unrowing")
  /\ UNCHANGED <<rows, files, nginx, live, shared, hostsStale>>

\* Fault: a shared Site keeps its old domain.
ShareAsBefore ==
  /\ phase = "sharing"
  /\ End
  /\ UNCHANGED <<rows, disk, processes, shared, history>>

\* Fault: the job is not ended.
ShareUpdatedOpen ==
  /\ phase = "sharing"
  /\ shared' = [shared EXCEPT ![job.id] = IF @ = None THEN None ELSE job.new.domain]
  /\ phase' = "idle"
  /\ UNCHANGED <<rows, disk, processes, job, history>>

ShareUpdated ==
  /\ phase = "sharing"
  /\ shared' = [shared EXCEPT ![job.id] = IF @ = None THEN None ELSE job.new.domain]
  /\ End
  /\ UNCHANGED <<rows, disk, processes, history>>

-----------------------------------------------------------------------------
(* Starting and stopping the Web services, and the LAN shares.             *)

WebReady == nginx /\ (RowPools # {} => pools # {})

Halt ==
  /\ nginx' = FALSE
  /\ live' = Nothing
  /\ pools' = {}

\* What runs half-way is stopped first.
StartAll ==
  /\ phase = "idle"
  /\ RowIds # {} /\ ~WebReady
  /\ Halt
  /\ phase' = "starting"
  /\ UNCHANGED <<rows, disk, shared, job, history>>

\* The clean-up, the hosts entries or a file failed.
StartFails(rendered) ==
  /\ phase \in {"starting", "rendering"}
  /\ phase = "starting" => rendered = {}
  /\ files' = [d \in Domains |->
       IF \E id \in rendered : sites[id].domain = d
         THEN sites[CHOOSE id \in rendered : sites[id].domain = d] ELSE files[d]]
  /\ certs' = certs \cup {sites[id].domain : id \in {r \in rendered : sites[r].secured}}
  /\ phase' = "idle"
  /\ UNCHANGED <<rows, processes, shared, job, history>>

StartSyncs ==
  /\ phase = "starting"
  /\ hosts' = RowDomains
  /\ hostsStale' = FALSE
  /\ phase' = "rendering"
  /\ UNCHANGED <<sites, disk, processes, shared, job, wrecked>>

\* generate_configs writes the file of every row and removes no other.
Render ==
  /\ phase = "rendering"
  /\ files' = [d \in Domains |->
       IF d \in RowDomains THEN sites[CHOOSE id \in RowIds : sites[id].domain = d] ELSE files[d]]
  /\ certs' = certs \cup {sites[id].domain : id \in {r \in RowIds : sites[r].secured}}
  /\ phase' = "launching"
  /\ UNCHANGED <<rows, processes, shared, job, history>>

Launch ==
  /\ phase = "launching"
  /\ Valid(files, certs)
  /\ nginx' = TRUE
  /\ live' = files
  /\ pools' = RowPools
  /\ wrecked' = wrecked \ RowDomains
  /\ phase' = "idle"
  /\ UNCHANGED <<rows, disk, shared, job, hostsStale>>

\* nginx -t, a pool or nginx fails: what was started is stopped again.
LaunchFails ==
  /\ phase = "launching"
  /\ Halt
  /\ phase' = "idle"
  /\ UNCHANGED <<rows, disk, shared, job, history>>

StopAll ==
  /\ phase = "idle"
  /\ Halt
  /\ shared' = [id \in Ids |-> None]
  /\ UNCHANGED <<rows, disk, phase, job, history>>

StartLanShare(id) ==
  /\ phase = "idle"
  /\ sites[id] # None /\ nginx
  /\ shared[id] = None
  /\ shared' = [shared EXCEPT ![id] = sites[id].domain]
  /\ UNCHANGED <<rows, disk, processes, phase, job, history>>

\* One Site or all of them.
StopLanShare(stopped) ==
  /\ phase = "idle"
  /\ shared' = [id \in Ids |-> IF id \in stopped THEN None ELSE shared[id]]
  /\ UNCHANGED <<rows, disk, processes, phase, job, history>>

-----------------------------------------------------------------------------
(* What nobody asked for.                                                  *)

NginxEnds ==
  /\ nginx
  /\ nginx' = FALSE
  /\ live' = Nothing
  /\ UNCHANGED <<rows, disk, pools, shared, phase, job, history>>

\* The job is lost; the next Agent knows the rows and what is on disk.
Crash ==
  /\ job # NoJob => Wrecks
  /\ Halt
  /\ shared' = [id \in Ids |-> None]
  /\ phase' = "idle"
  /\ job' = NoJob
  /\ wrecked' = wrecked \cup JobDomains
  /\ hostsStale' = (hosts # RowDomains)
  /\ UNCHANGED <<rows, disk>>

Request ==
  \E id \in Ids :
    \/ \E site \in Site : AddSite(id, site) \/ UpdateSite(id, site)
    \/ RemoveSite(id) \/ SetSiteHttps(id)
    \/ \E version \in Php \cup {NoPhp} : SetSitePhp(id, version)
    \/ StartLanShare(id) \/ StopLanShare({id}) \/ StopLanShare(Ids)

Forward ==
  \/ SyncHosts \/ SyncHostsFails \/ SkipFiles \/ WriteFiles \/ WriteFilesFails \/ Unlink
  \/ EnsurePool \/ AddPhpInvalid \/ Reload \/ ReloadFails \/ Confirm \/ ConfirmFails
  \/ Tidy \/ TidyFails \/ ShareUpdated

Backward ==
  \/ Unrow
  \/ \E ok \in BOOLEAN : UnlinkFails(ok) \/ PoolFails(ok) \/ Resync(ok)
  \/ \E restored, reloaded \in BOOLEAN : Undo(restored, reloaded)

Services ==
  \/ StartAll \/ StartSyncs \/ Render \/ Launch \/ LaunchFails \/ StopAll
  \/ \E rendered \in SUBSET RowIds : StartFails(rendered)

Next == Request \/ Forward \/ Backward \/ Services \/ NginxEnds \/ Crash

Spec == Init /\ [][Next]_vars
-----------------------------------------------------------------------------
(* Properties.                                                             *)

\* Every store has its shape, and a job is at hand exactly in its phases.
TypeOK ==
  /\ sites \in [Ids -> Site \cup {None}]
  /\ \A d \in Domains : files[d] # None => files[d] \in Site /\ files[d].domain = d
  /\ certs \subseteq Domains /\ hosts \subseteq Domains
  /\ nginx \in BOOLEAN
  /\ live \in Rendered
  /\ ~nginx => live = Nothing
  /\ pools \subseteq Php
  /\ shared \in [Ids -> Domains \cup {None}]
  /\ IF phase \in JobPhases THEN job \in Jobs ELSE job = NoJob /\ phase \in {"idle"} \cup StartPhases
  /\ wrecked \subseteq Domains
  /\ hostsStale \in BOOLEAN

AsServed(site) == [domain |-> site.domain, root |-> site.root, php |-> site.php,
                   secured |-> site.secured]

\* Between requests the running nginx serves every Site as its row says, PHP
\* version and HTTPS included, whatever steps of whatever requests failed and
\* were undone, and again after a crash once StartAll has succeeded.
SitesServed ==
  phase = "idle" /\ nginx =>
    \A id \in RowIds :
      LET d == sites[id].domain IN
      d \notin wrecked => live[d] # None /\ AsServed(live[d]) = AsServed(sites[id])

\* Nothing of a removed or moved Site is on disk or served: no file is left
\* that a later reload would bring back, unless a crash, a failed recovery or
\* the refusal AddRolledBack is about has left it.
OrphansExplained ==
  phase = "idle" =>
    \A d \in Domains \ RowDomains : files[d] # None \/ live[d] # None => d \in wrecked

\* A refused addition takes back its file before its row (the architecture
\* document: configuration and registry are restored when a step fails).
AddRolledBack ==
  phase \in {"refusing", "unrowing"} /\ job.kind = "add" => files = job.saved \/ job.new.domain \in wrecked

\* Every file with HTTPS has its certificate, also while moves and switches
\* are undone: without it nginx -t refuses every later change of any Site.
TlsFilesHaveCertificates ==
  phase = "idle" =>
    \A d \in Domains \ wrecked : files[d] # None /\ files[d].secured => d \in certs

\* A Site served with PHP finds its pool: no removal or switch of another
\* Site, and no undone one, stops a pool that is in use.
PoolsServe ==
  phase = "idle" /\ nginx =>
    \A d \in RowDomains \ wrecked : live[d] # None => live[d].php \in pools \cup {NoPhp}

\* What is configured is what is served, nothing less and nothing else.
ServedAsConfigured ==
  SitesServed /\ OrphansExplained /\ TlsFilesHaveCertificates /\ PoolsServe

\* The LAN serves a shared Site under the domain its row has, never one that
\* another Site may have taken over since.
SharedCurrent ==
  phase = "idle" =>
    \A id \in Ids : shared[id] # None => sites[id] # None /\ shared[id] = sites[id].domain

\* Between requests the hosts entries are those of the rows, also after
\* refused requests, unless the helper failed to put them back.
HostsFollow == phase = "idle" /\ ~hostsStale => hosts = RowDomains
=============================================================================
