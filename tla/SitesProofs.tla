---------------------------- MODULE SitesProofs ----------------------------
(* Theorems about Sites, for any ids, domains, paths, timeouts and PHP       *)
(* versions, with any number of wrecked domains.                             *)
EXTENDS Sites, TLAPS

\* Every file belongs to the Site of its domain.
NamedByDomain(fs) == \A d \in Domains : fs[d] # None => fs[d].domain = d

StoresTyped ==
  /\ sites \in [Ids -> Site \cup {None}]
  /\ files \in Rendered /\ NamedByDomain(files)
  /\ certs \subseteq Domains /\ hosts \subseteq Domains
  /\ nginx \in BOOLEAN
  /\ live \in Rendered
  /\ ~nginx => live = Nothing
  /\ pools \subseteq Php
  /\ shared \in [Ids -> Domains \cup {None}]
  /\ wrecked \subseteq Domains
  /\ hostsStale \in BOOLEAN

\* What a job of each kind remembers, and which steps it reaches.
JobFits ==
  /\ job.kind = "add" => job.old = None
  /\ job.kind # "add" => job.old # None
  /\ job.kind = "remove" <=> job.new = None
  /\ job.kind \in {"php", "https"} => job.new.domain = job.old.domain
  /\ job.kind \in {"php", "https"} => phase \notin {"syncing", "sharing", "resyncing"}
  /\ phase = "pooling" => job.kind \in {"add", "php"}
  /\ phase = "sharing" => job.kind = "update"
  /\ NamedByDomain(job.saved)

JobTyped ==
  IF phase \in JobPhases
    THEN job \in Jobs /\ JobFits
    ELSE job = NoJob /\ phase \in {"idle"} \cup StartPhases

\* The row of the job is the new one until it is taken back.
RowOfJob ==
  phase \in JobPhases =>
    sites[job.id] = IF phase = "resyncing" THEN job.old ELSE job.new

\* Until the last step of an update its Site is shared under the old domain.
SharesFollow ==
  \A id \in Ids : shared[id] # None =>
    /\ sites[id] # None
    /\ IF phase \in JobPhases /\ id = job.id
         THEN job.kind # "remove" /\ job.old # None /\ shared[id] = job.old.domain
         ELSE shared[id] = sites[id].domain

DomainsOf(rows0) == {rows0[id].domain : id \in {i \in Ids : rows0[i] # None}}

RowsBefore == [sites EXCEPT ![job.id] = job.old]

\* Before its sync a job finds the hosts entries of the rows it began with.
HostsTrack ==
  ~hostsStale =>
    IF phase \in JobPhases
      THEN IF phase = "syncing" \/ job.kind \in {"php", "https"}
             THEN hosts = DomainsOf(RowsBefore)
             ELSE phase \in {"writing", "unlinking", "pooling", "reloading", "confirming",
                             "tidying", "sharing"} => hosts = DomainsOf(sites)
      ELSE hosts = DomainsOf(sites)

Inv == StoresTyped /\ JobTyped /\ RowOfJob /\ SharesFollow /\ HostsTrack

-----------------------------------------------------------------------------
(* What a state of Inv says of the operators the actions use.                *)

\* The rows name known domains only.
LEMMA RowDomainsTyped ==
  ASSUME Inv
  PROVE  RowDomains \subseteq Domains /\ RowDomains = DomainsOf(sites)
  BY DistinctAssumption DEF Inv, StoresTyped, RowDomains, RowIds, DomainsOf, Site

\* The rows name installed PHP versions only.
LEMMA RowPoolsTyped == Inv => RowPools \subseteq Php
  BY DistinctAssumption DEF Inv, StoresTyped, RowPools, RowIds, Site

\* A job is about known domains.
LEMMA JobDomainsTyped == Inv => JobDomains \subseteq Domains
  BY DistinctAssumption DEF Inv, JobTyped, Jobs, JobDomains, Site

\* Switching HTTPS touches nothing else of a Site.
LEMMA SwitchedSite ==
  ASSUME NEW site \in Site
  PROVE  /\ [site EXCEPT !.secured = ~@] \in Site
         /\ [site EXCEPT !.secured = ~@].domain = site.domain
  <1>1. (~site.secured) \in BOOLEAN
    OBVIOUS
  <1> QED
    BY <1>1 DEF Site

\* The Agent starts with empty stores.
LEMMA InvInit == Init => Inv
  BY DEF Init, Inv, StoresTyped, JobTyped, RowOfJob, SharesFollow, HostsTrack, NamedByDomain,
         DomainsOf, Rendered, Nothing, JobPhases, StartPhases

\* The requests, which change a row and begin a job, and the LAN shares.
LEMMA RequestsStep ==
  ASSUME Inv,
         \/ \E id \in Ids : \E site \in Site : AddSite(id, site)
         \/ \E id \in Ids : \E site \in Site : UpdateSite(id, site)
         \/ \E id \in Ids : RemoveSite(id)
         \/ \E id \in Ids : \E version \in Php \cup {NoPhp} : SetSitePhp(id, version)
         \/ \E id \in Ids : SetSiteHttps(id)
         \/ \E id \in Ids : StartLanShare(id)
         \/ \E stopped \in SUBSET Ids : StopLanShare(stopped)
  PROVE  Inv'
  <1> USE DistinctAssumption DEF Inv, StoresTyped, JobTyped, JobFits, RowOfJob, SharesFollow,
          HostsTrack, NamedByDomain, RowsBefore, DomainsOf, Rendered, Site, Jobs, Kinds, JobPhases, StartPhases
  <1>1. ASSUME \E id \in Ids : \E site \in Site : AddSite(id, site)
       PROVE  Inv'
    BY <1>1 DEF AddSite, RowDomains, Begin, RowIds, disk, processes
  <1>2. ASSUME \E id \in Ids : \E site \in Site : UpdateSite(id, site)
       PROVE  Inv'
    BY <1>2 DEF UpdateSite, RowIds, Begin, disk, processes
  <1>3. ASSUME \E id \in Ids : RemoveSite(id)
       PROVE  Inv'
    BY <1>3 DEF RemoveSite, Begin, disk, processes
  <1>4. ASSUME \E id \in Ids : \E version \in Php \cup {NoPhp} : SetSitePhp(id, version)
       PROVE  Inv'
    BY <1>4 DEF SetSitePhp, Begin, disk, processes
  <1>5. ASSUME \E id \in Ids : SetSiteHttps(id)
       PROVE  Inv'
    <2>1. PICK id \in Ids : SetSiteHttps(id)
      BY <1>5
    <2>2. [sites[id] EXCEPT !.secured = ~@] \in Site
          /\ [sites[id] EXCEPT !.secured = ~@].domain = sites[id].domain
      <3>1. sites[id] \in Site
        BY <2>1 DEF SetSiteHttps
      <3> HIDE DEF Site
      <3> QED
        BY <3>1, SwitchedSite
    <2> DEFINE site == [sites[id] EXCEPT !.secured = ~@]
    <2>3. Begin("https", id, site, "writing") /\ UNCHANGED shared /\ sites[id] # None
          /\ site \in Site /\ site.domain = sites[id].domain
      BY <2>1, <2>2 DEF SetSiteHttps
    <2> HIDE DEF site
    <2> QED
      BY <2>3 DEF Begin, disk, processes
  <1>6. ASSUME \E id \in Ids : StartLanShare(id)
       PROVE  Inv'
    BY <1>6 DEF StartLanShare, rows, disk, processes, history
  <1>7. ASSUME \E stopped \in SUBSET Ids : StopLanShare(stopped)
       PROVE  Inv'
    BY <1>7 DEF StopLanShare, rows, disk, processes, history
  <1> QED
    BY <1>1, <1>2, <1>3, <1>4, <1>5, <1>6, <1>7

\* The steps of a job on its way forward.
LEMMA ForwardStep ==
  ASSUME Inv,
         \/ SyncHosts
         \/ SyncHostsFails
         \/ SkipFiles
         \/ WriteFiles
         \/ WriteFilesFails
         \/ Unlink
         \/ EnsurePool
         \/ AddPhpInvalid
         \/ Reload
         \/ ReloadFails
         \/ Confirm
         \/ ConfirmFails
         \/ Tidy
         \/ TidyFails
         \/ ShareUpdated
  PROVE  Inv'
  <1> USE DistinctAssumption DEF Inv, StoresTyped, JobTyped, JobFits, RowOfJob, SharesFollow,
          HostsTrack, NamedByDomain, RowsBefore, DomainsOf, Rendered, Site, Jobs, Kinds, JobPhases, StartPhases
  <1>1. ASSUME SyncHosts
       PROVE  Inv'
    <2>1. StoresTyped'
      BY <1>1, RowDomainsTyped DEF SyncHosts, Go, disk, processes
    <2>2. JobTyped' /\ RowOfJob' /\ SharesFollow'
      BY <1>1 DEF SyncHosts, Go, disk, processes
    <2>3. HostsTrack'
      BY <1>1, RowDomainsTyped DEF SyncHosts, Go, disk, processes
    <2> QED
      BY <2>1, <2>2, <2>3
  <1>2. ASSUME SyncHostsFails
       PROVE  Inv'
    BY <1>2 DEF SyncHostsFails, End, Go, disk, processes, history
  <1>3. ASSUME SkipFiles
       PROVE  Inv'
    BY <1>3 DEF SkipFiles, FilesConcerned, Go, rows, disk, processes, history, Moved
  <1>4. ASSUME WriteFiles
       PROVE  Inv'
    BY <1>4 DEF WriteFiles, Named, Go, Moved, AfterFiles, rows, processes, history
  <1>5. ASSUME WriteFilesFails
       PROVE  Inv'
    BY <1>5 DEF WriteFilesFails, Named, Moved, Go, rows, processes, history
  <1>6. ASSUME Unlink
       PROVE  Inv'
    <2>1. StoresTyped'
      BY <1>6 DEF Unlink, Go, AfterFiles, rows, processes, history
    <2>2. JobTyped' /\ RowOfJob' /\ SharesFollow'
      BY <1>6 DEF Unlink, Go, AfterFiles, rows, processes, history
    <2>3. HostsTrack'
      BY <1>6 DEF Unlink, Go, AfterFiles, rows, processes, history
    <2> QED
      BY <2>1, <2>2, <2>3
  <1>7. ASSUME EnsurePool
       PROVE  Inv'
    <2>1. StoresTyped'
      BY <1>7 DEF EnsurePool, rows, disk, history
    <2>2. JobTyped' /\ RowOfJob' /\ SharesFollow'
      BY <1>7 DEF EnsurePool, rows, disk, history
    <2>3. HostsTrack'
      BY <1>7 DEF EnsurePool, rows, disk, history
    <2> QED
      BY <2>1, <2>2, <2>3
  <1>8. ASSUME AddPhpInvalid
       PROVE  Inv'
    BY <1>8 DEF AddPhpInvalid, Go, rows, disk, processes, history
  <1>9. ASSUME Reload
       PROVE  Inv'
    BY <1>9 DEF Reload, Go, rows, disk, history
  <1>10. ASSUME ReloadFails
       PROVE  Inv'
    BY <1>10 DEF ReloadFails, Go, rows, disk, processes, history
  <1>11. ASSUME Confirm
       PROVE  Inv'
    BY <1>11 DEF Confirm, Go, rows, disk, processes, history
  <1>12. ASSUME ConfirmFails
       PROVE  Inv'
    BY <1>12 DEF ConfirmFails, Go, rows, disk, processes, history
  <1>13. ASSUME Tidy
       PROVE  Inv'
    BY <1>13 DEF Tidy, Retired, Obsolete, Go, End, rows, history, Moved
  <1>14. ASSUME TidyFails
       PROVE  Inv'
    BY <1>14 DEF TidyFails, Obsolete, Retired, JobDomains, Go, rows, Moved
  <1>15. ASSUME ShareUpdated
       PROVE  Inv'
    BY <1>15 DEF ShareUpdated, End, rows, disk, processes, history
  <1> QED
    BY <1>1, <1>2, <1>3, <1>4, <1>5, <1>6, <1>7, <1>8, <1>9, <1>10, <1>11, <1>12, <1>13,
      <1>14, <1>15

\* The steps that undo a refused job.
LEMMA BackwardStep ==
  ASSUME Inv,
         \/ Unrow
         \/ \E ok \in BOOLEAN : UnlinkFails(ok)
         \/ \E ok \in BOOLEAN : PoolFails(ok)
         \/ \E ok \in BOOLEAN : Resync(ok)
         \/ \E restored, reloaded \in BOOLEAN : Undo(restored, reloaded)
  PROVE  Inv'
  <1> USE DistinctAssumption DEF Inv, StoresTyped, JobTyped, JobFits, RowOfJob, SharesFollow,
          HostsTrack, NamedByDomain, RowsBefore, DomainsOf, Rendered, Site, Jobs, Kinds, JobPhases, StartPhases
  <1>1. ASSUME Unrow
       PROVE  Inv'
    BY <1>1 DEF Unrow, JobDomains, End, Go, disk, processes
  <1>2. ASSUME \E ok \in BOOLEAN : UnlinkFails(ok)
       PROVE  Inv'
    BY <1>2 DEF UnlinkFails, Restore, Named, JobDomains, Go, rows, processes
  <1>3. ASSUME \E ok \in BOOLEAN : PoolFails(ok)
       PROVE  Inv'
    BY <1>3 DEF PoolFails, Restore, JobDomains, Go, rows, processes
  <1>4. ASSUME \E ok \in BOOLEAN : Resync(ok)
       PROVE  Inv'
    <2>1. StoresTyped'
      BY <1>4, RowDomainsTyped DEF Resync, End, disk, processes
    <2>2. JobTyped' /\ RowOfJob' /\ SharesFollow'
      BY <1>4 DEF Resync, End, disk, processes
    <2>3. HostsTrack'
      <3>1. PICK ok \in BOOLEAN : Resync(ok)
        BY <1>4
      <3>2. (hostsStale' = (hosts' # RowDomains)) /\ sites' = sites /\ phase' = "idle"
        BY <3>1 DEF Resync, End
      <3>3. ~hostsStale' => hosts' = DomainsOf(sites)
        BY <3>2, RowDomainsTyped
      <3> QED
        BY <3>2, <3>3
    <2> QED
      BY <2>1, <2>2, <2>3
  <1>5. ASSUME \E restored, reloaded \in BOOLEAN : Undo(restored, reloaded)
       PROVE  Inv'
    BY <1>5 DEF Undo, Restore, NewCertificate, JobDomains, Go, rows, Moved, Named
  <1> QED
    BY <1>1, <1>2, <1>3, <1>4, <1>5

\* Starting and stopping the Web services.
LEMMA ServicesStep ==
  ASSUME Inv,
         \/ StartAll
         \/ StartSyncs
         \/ Render
         \/ Launch
         \/ LaunchFails
         \/ StopAll
         \/ \E rendered \in SUBSET RowIds : StartFails(rendered)
  PROVE  Inv'
  <1> USE DistinctAssumption DEF Inv, StoresTyped, JobTyped, JobFits, RowOfJob, SharesFollow,
          HostsTrack, NamedByDomain, RowsBefore, DomainsOf, Rendered, Site, Jobs, Kinds, JobPhases, StartPhases
  <1>1. ASSUME StartAll
       PROVE  Inv'
    <2>1. StoresTyped'
      BY <1>1 DEF StartAll, Halt, rows, disk, history, Nothing
    <2>2. JobTyped' /\ RowOfJob' /\ SharesFollow'
      BY <1>1 DEF StartAll, Halt, rows, disk, history, Nothing
    <2>3. HostsTrack'
      BY <1>1 DEF StartAll, Halt, rows, disk, history, Nothing
    <2> QED
      BY <2>1, <2>2, <2>3
  <1>2. ASSUME StartSyncs
       PROVE  Inv'
    <2>1. StoresTyped'
      BY <1>2, RowDomainsTyped DEF StartSyncs, disk, processes
    <2>2. JobTyped' /\ RowOfJob' /\ SharesFollow'
      BY <1>2 DEF StartSyncs, disk, processes
    <2>3. HostsTrack'
      BY <1>2, RowDomainsTyped DEF StartSyncs, disk, processes
    <2> QED
      BY <2>1, <2>2, <2>3
  <1>3. ASSUME Render
       PROVE  Inv'
    BY <1>3 DEF Render, RowDomains, RowIds, rows, processes, history
  <1>4. ASSUME Launch
       PROVE  Inv'
    <2>1. StoresTyped'
      BY <1>4, RowPoolsTyped DEF Launch, rows, disk
    <2>2. JobTyped' /\ RowOfJob' /\ SharesFollow'
      BY <1>4 DEF Launch, rows, disk
    <2>3. HostsTrack'
      BY <1>4 DEF Launch, rows, disk
    <2> QED
      BY <2>1, <2>2, <2>3
  <1>5. ASSUME LaunchFails
       PROVE  Inv'
    <2>1. StoresTyped'
      BY <1>5 DEF LaunchFails, Halt, rows, disk, history, Nothing
    <2>2. JobTyped' /\ RowOfJob' /\ SharesFollow'
      BY <1>5 DEF LaunchFails, Halt, rows, disk, history, Nothing
    <2>3. HostsTrack'
      BY <1>5 DEF LaunchFails, Halt, rows, disk, history, Nothing
    <2> QED
      BY <2>1, <2>2, <2>3
  <1>6. ASSUME StopAll
       PROVE  Inv'
    <2>1. StoresTyped'
      BY <1>6 DEF StopAll, Halt, rows, disk, history, Nothing
    <2>2. JobTyped' /\ RowOfJob' /\ SharesFollow'
      BY <1>6 DEF StopAll, Halt, rows, disk, history, Nothing
    <2>3. HostsTrack'
      BY <1>6 DEF StopAll, Halt, rows, disk, history, Nothing
    <2> QED
      BY <2>1, <2>2, <2>3
  <1>7. ASSUME \E rendered \in SUBSET RowIds : StartFails(rendered)
       PROVE  Inv'
    <2>1. StoresTyped'
      <3>1. PICK rendered \in SUBSET RowIds : StartFails(rendered)
        BY <1>7
      <3>2. \A d \in Domains : (\E id \in rendered : sites[id].domain = d) =>
              LET first == CHOOSE id \in rendered : sites[id].domain = d
              IN  sites[first] \in Site /\ sites[first].domain = d
        BY <3>1 DEF RowIds
      <3>3. files' \in Rendered /\ NamedByDomain(files')
        BY <3>1, <3>2 DEF StartFails
      <3>4. certs' \subseteq Domains
        BY <3>1 DEF StartFails, RowIds
      <3> QED
        BY <3>1, <3>3, <3>4 DEF StartFails, rows, processes, history
    <2>2. JobTyped' /\ RowOfJob' /\ SharesFollow'
      BY <1>7 DEF StartFails, rows, processes, history
    <2>3. HostsTrack'
      BY <1>7 DEF StartFails, rows, processes, history
    <2> QED
      BY <2>1, <2>2, <2>3
  <1> QED
    BY <1>1, <1>2, <1>3, <1>4, <1>5, <1>6, <1>7

\* What nobody asked for.
LEMMA RestStep ==
  ASSUME Inv,
         \/ NginxEnds
         \/ Crash
         \/ UNCHANGED vars
  PROVE  Inv'
  <1> USE DistinctAssumption DEF Inv, StoresTyped, JobTyped, JobFits, RowOfJob, SharesFollow,
          HostsTrack, NamedByDomain, RowsBefore, DomainsOf, Rendered, Site, Jobs, Kinds, JobPhases, StartPhases
  <1>1. ASSUME NginxEnds
       PROVE  Inv'
    <2>1. StoresTyped'
      BY <1>1 DEF NginxEnds, Nothing, rows, disk, history
    <2>2. JobTyped' /\ RowOfJob' /\ SharesFollow'
      BY <1>1 DEF NginxEnds, Nothing, rows, disk, history
    <2>3. HostsTrack'
      BY <1>1 DEF NginxEnds, Nothing, rows, disk, history
    <2> QED
      BY <2>1, <2>2, <2>3
  <1>2. ASSUME Crash
       PROVE  Inv'
    <2>1. StoresTyped'
      BY <1>2, JobDomainsTyped DEF Crash, Halt, rows, disk, Nothing
    <2>2. JobTyped' /\ RowOfJob' /\ SharesFollow'
      BY <1>2 DEF Crash, Halt, rows, disk, Nothing
    <2>3. HostsTrack'
      <3>1. (hostsStale' = (hosts # RowDomains)) /\ sites' = sites /\ hosts' = hosts
            /\ phase' = "idle"
        BY <1>2 DEF Crash, rows
      <3>2. ~hostsStale' => hosts' = DomainsOf(sites)
        BY <3>1, RowDomainsTyped
      <3> QED
        BY <3>1, <3>2
    <2> QED
      BY <2>1, <2>2, <2>3
  <1>3. ASSUME UNCHANGED vars
       PROVE  Inv'
    BY <1>3 DEF vars, rows, disk, processes, history
  <1> QED
    BY <1>1, <1>2, <1>3

\* Every step keeps Inv.
LEMMA InvStep == Inv /\ [Next]_vars => Inv'
  <1> SUFFICES ASSUME Inv, [Next]_vars PROVE Inv'
    OBVIOUS
  <1>1. CASE Request
    BY <1>1, RequestsStep DEF Request
  <1>2. CASE Forward
    BY <1>2, ForwardStep DEF Forward
  <1>3. CASE Backward
    BY <1>3, BackwardStep DEF Backward
  <1>4. CASE Services
    BY <1>4, ServicesStep DEF Services
  <1>5. CASE NginxEnds \/ Crash \/ UNCHANGED vars
    BY <1>5, RestStep
  <1> QED
    BY <1>1, <1>2, <1>3, <1>4, <1>5 DEF Next

-----------------------------------------------------------------------------
(* What is served.  A file fits the rows when it is rendered from the row of *)
(* its domain, but for the timeouts, which an update leaves alone, and there *)
(* is none without a row.  rs stands for the rows, before or after a job, f  *)
(* for files or for what nginx has loaded, and w for the domains left out.   *)

Distinct(rs) ==
  \A a, b \in Ids : rs[a] # None /\ rs[b] # None /\ rs[a].domain = rs[b].domain => a = b

Fits(f, rs, d) ==
  IF f[d] = None THEN \A id \in Ids : rs[id] # None => rs[id].domain # d
  ELSE \E id \in Ids : /\ rs[id] # None /\ rs[id].domain = d
                       /\ AsServed(f[d]) = AsServed(rs[id])

Fit(f, rs, w) == \A d \in Domains \ w : Fits(f, rs, d)

Certified(f, cs, w) == \A d \in Domains \ w : f[d] # None /\ f[d].secured => d \in cs

Pooled(rs, ps, w) ==
  \A id \in Ids : rs[id] # None /\ rs[id].domain \notin w => rs[id].php \in ps \cup {NoPhp}

WithJob == phase \in JobPhases

\* A domain belongs to one row, with the job's new row and with its old one.
RowsDistinct == Distinct(sites) /\ (WithJob => Distinct(RowsBefore))

\* What a job does not change, and that it moves no wreck out of sight.
JobKeeps ==
  WithJob =>
    /\ job.kind = "update" => job.new.secured = job.old.secured
    /\ job.kind = "https" => job.new.secured # job.old.secured
    /\ job.kind \in {"update", "https"} =>
         /\ job.new.php = job.old.php
         /\ job.old.domain \in wrecked /\ phase \notin {"unrowing", "resyncing"} =>
              job.new.domain \in wrecked
    /\ phase = "unlinking" => Moved

\* What a job saved fits the rows before it, which is what undoing relies on;
\* what it wrote fits the rows with its new one.
FilesTrack ==
  IF WithJob
    THEN /\ Fit(job.saved, RowsBefore, wrecked)
         /\ \A d \in Domains \ JobDomains : files[d] = job.saved[d]
         /\ phase \in {"syncing", "writing"} => files = job.saved
         /\ phase = "unlinking" => files = [job.saved EXCEPT ![job.new.domain] = job.new]
         /\ phase \in {"pooling", "reloading", "confirming", "tidying", "sharing"} =>
              Fit(files, sites, wrecked)
         /\ phase \in {"unrowing", "resyncing"} => Fit(files, RowsBefore, wrecked)
    ELSE /\ Fit(files, sites, wrecked)
         /\ phase = "launching" => Fit(files, sites, Domains \ RowDomains)

\* nginx serves the rows before the job until it reloads; while the outcome of
\* a reload is being undone, nothing is said of the job's own domains.
LiveTracks ==
  nginx =>
    CASE ~WithJob \/ phase \in {"confirming", "tidying", "sharing"} -> Fit(live, sites, wrecked)
      [] phase \in {"undoing", "refusing"} -> Fit(live, RowsBefore, wrecked \cup JobDomains)
      [] OTHER -> Fit(live, RowsBefore, wrecked)

\* Until a job is past undoing, the certificates are there for what it saved
\* as well as for what it wrote.
CertsTrack ==
  /\ Certified(files, certs, wrecked)
  /\ phase \in JobPhases \ {"tidying", "sharing", "unrowing", "resyncing"} =>
       Certified(job.saved, certs, wrecked)

\* The pools of the rows before the job do without the one the job has
\* started, which may be stopped when it is undone.
PoolsBefore == IF job.started THEN pools \ {job.new.php} ELSE pools

PoolsTrack ==
  nginx =>
    /\ ~WithJob \/ phase \in {"reloading", "confirming", "tidying", "sharing"} =>
         Pooled(sites, pools, wrecked)
    /\ phase \in JobPhases \ {"tidying", "sharing", "unrowing", "resyncing"} =>
         Pooled(RowsBefore, PoolsBefore, wrecked)
    /\ phase \in {"unrowing", "resyncing"} => Pooled(RowsBefore, pools, wrecked)

Tracked == RowsDistinct /\ JobKeeps /\ FilesTrack /\ LiveTracks /\ CertsTrack /\ PoolsTrack

\* What the invariants say of a job at hand: the rows before it differ from
\* those with it in its own row only.
LEMMA JobFacts ==
  ASSUME Inv, WithJob
  PROVE  /\ job \in Jobs /\ job # NoJob /\ job.id \in Ids /\ job.saved \in Rendered
         /\ job.old \in Site \cup {None} /\ job.new \in Site \cup {None}
         /\ RowsBefore \in [Ids -> Site \cup {None}] /\ RowsBefore[job.id] = job.old
         /\ \A id \in Ids \ {job.id} : RowsBefore[id] = sites[id]
         /\ sites[job.id] = IF phase = "resyncing" THEN job.old ELSE job.new
         /\ JobDomains \subseteq Domains
         /\ job.old # None => job.old.domain \in JobDomains
         /\ job.new # None => job.new.domain \in JobDomains
         /\ \A d \in JobDomains : \/ job.old # None /\ d = job.old.domain
                                  \/ job.new # None /\ d = job.new.domain
  <1>1. job \in Jobs /\ sites \in [Ids -> Site \cup {None}]
    BY DEF Inv, JobTyped, StoresTyped, WithJob
  <1>2. job # NoJob
    BY <1>1, JobAssumption
  <1>3. JobDomains = {s.domain : s \in {job.old, job.new} \ {None}}
    BY <1>2 DEF JobDomains
  <1>4. job.id \in Ids /\ job.old \in Site \cup {None} /\ job.new \in Site \cup {None}
        /\ job.saved \in Rendered
    BY <1>1 DEF Jobs
  <1> HIDE DEF Site
  <1> QED
    BY <1>1, <1>2, <1>3, <1>4, JobDomainsTyped DEF Inv, RowOfJob, WithJob, RowsBefore

\* What fits the rows serves each row whose domain is not left out.
LEMMA FitExact ==
  ASSUME NEW f, NEW rs, NEW w, Fit(f, rs, w), Distinct(rs),
         NEW id \in Ids, rs[id] # None, rs[id].domain \in Domains \ w
  PROVE  f[rs[id].domain] # None /\ AsServed(f[rs[id].domain]) = AsServed(rs[id])
  BY DEF Fit, Fits, Distinct

\* What fits the rows has nothing for a domain of no row.
LEMMA FitNone ==
  ASSUME NEW f, NEW rs, NEW w, Fit(f, rs, w), NEW d \in Domains \ w,
         \A id \in Ids : rs[id] # None => rs[id].domain # d
  PROVE  f[d] = None
  BY DEF Fit, Fits

\* Leaving out more keeps what fits, what is certified and what has its pool.
LEMMA LeavingOut ==
  ASSUME NEW w, NEW v, w \subseteq v
  PROVE  /\ \A f, rs : Fit(f, rs, w) => Fit(f, rs, v)
         /\ \A f, cs : Certified(f, cs, w) => Certified(f, cs, v)
         /\ \A rs, ps : Pooled(rs, ps, w) => Pooled(rs, ps, v)
  BY DEF Fit, Certified, Pooled

\* Rows and files that differ in some domains only fit as before without them.
LEMMA FitOthers ==
  ASSUME NEW f, NEW g, NEW rs, NEW rt, NEW w, NEW D, Fit(f, rs, w),
         \A d \in Domains \ D : g[d] = f[d],
         \A id \in Ids : \/ rt[id] = rs[id]
                         \/ /\ rs[id] # None => rs[id].domain \in D
                            /\ rt[id] # None => rt[id].domain \in D
  PROVE  Fit(g, rt, w \cup D)
  <1> SUFFICES ASSUME NEW d \in Domains \ (w \cup D) PROVE Fits(g, rt, d)
    BY DEF Fit
  <1>1. Fits(f, rs, d) /\ g[d] = f[d]
    BY DEF Fit
  <1> QED
    BY <1>1 DEF Fits

\* Without the domains of a job, the rows with it and before it are the same.
LEMMA JobOthers ==
  ASSUME Inv, WithJob, NEW f, NEW g, NEW w, \A d \in Domains \ JobDomains : g[d] = f[d]
  PROVE  /\ Fit(f, RowsBefore, w) => Fit(g, sites, w \cup JobDomains)
         /\ Fit(f, sites, w) => Fit(g, RowsBefore, w \cup JobDomains)
         /\ Fit(f, RowsBefore, w) => Fit(g, RowsBefore, w \cup JobDomains)
  <1>1. \A id \in Ids : \/ RowsBefore[id] = sites[id]
                        \/ /\ RowsBefore[id] # None => RowsBefore[id].domain \in JobDomains
                           /\ sites[id] # None => sites[id].domain \in JobDomains
    BY JobFacts
  <1> DEFINE before == RowsBefore
             D == JobDomains
  <1> HIDE DEF before, D
  <1>2. \A id \in Ids : \/ before[id] = sites[id]
                        \/ /\ before[id] # None => before[id].domain \in D
                           /\ sites[id] # None => sites[id].domain \in D
    BY <1>1 DEF before, D
  <1>3. Fit(f, before, w) => Fit(g, sites, w \cup D)
    BY <1>2, FitOthers DEF D
  <1>4. Fit(f, sites, w) => Fit(g, before, w \cup D)
    BY <1>2, FitOthers DEF D
  <1>5. Fit(f, before, w) => Fit(g, before, w \cup D)
    BY FitOthers DEF D
  <1> QED
    BY <1>3, <1>4, <1>5 DEF before, D

\* Files that carry out a job's change fit the rows with it.
LEMMA JobWritten ==
  ASSUME Inv, WithJob, Distinct(RowsBefore), phase # "resyncing",
         NEW f, NEW w, Fit(job.saved, RowsBefore, w),
         \A d \in Domains \ JobDomains : f[d] = job.saved[d],
         job.new # None => f[job.new.domain] = job.new,
         job.old # None /\ (job.new = None \/ job.new.domain # job.old.domain) =>
           f[job.old.domain] = None
  PROVE  Fit(f, sites, w)
  <1>1. Fit(f, sites, w \cup JobDomains)
    BY JobOthers
  <1>2. ASSUME NEW d \in JobDomains PROVE Fits(f, sites, d)
    <2>1. CASE job.new # None /\ d = job.new.domain
      BY <2>1, JobFacts DEF Fits
    <2>2. CASE ~(job.new # None /\ d = job.new.domain)
      <3>1. job.old # None /\ d = job.old.domain /\ f[d] = None
        BY <1>2, <2>2, JobFacts
      <3>2. ASSUME NEW id \in Ids, sites[id] # None PROVE sites[id].domain # d
        <4>1. CASE id = job.id
          BY <2>2, <3>2, <4>1, JobFacts
        <4>2. CASE id # job.id
          BY <3>1, <3>2, <4>2, JobFacts DEF Distinct
        <4> QED
          BY <4>1, <4>2
      <3> QED
        BY <3>1, <3>2 DEF Fits
    <2> QED
      BY <2>1, <2>2
  <1> QED
    BY <1>1, <1>2 DEF Fit

-----------------------------------------------------------------------------
(* Every step keeps Tracked.                                                 *)

\* Empty stores fit an empty registry.
LEMMA TrackedInit == Init => Tracked
  BY DEF Init, Tracked, RowsDistinct, Distinct, WithJob, JobPhases, JobKeeps, FilesTrack, Fit, Fits,
         Nothing, LiveTracks, CertsTrack, Certified, PoolsTrack, Pooled

\* Only the hosts entries, the shares or the end of what runs.
LEMMA TrackedQuiet ==
  ASSUME Tracked, UNCHANGED <<sites, files, certs, phase, job, wrecked>>,
         ~nginx' \/ UNCHANGED <<nginx, live, pools>>
  PROVE  Tracked'
  <1>1. /\ RowsBefore' = RowsBefore /\ JobDomains' = JobDomains /\ (WithJob' <=> WithJob)
        /\ (Moved' <=> Moved) /\ RowDomains' = RowDomains
    BY DEF RowsBefore, JobDomains, WithJob, Moved, RowDomains, RowIds
  <1>2. RowsDistinct' /\ JobKeeps'
    BY <1>1 DEF Tracked, RowsDistinct, JobKeeps
  <1>3. FilesTrack' /\ CertsTrack'
    BY <1>1 DEF Tracked, FilesTrack, CertsTrack
  <1>4. CASE ~nginx'
    BY <1>2, <1>3, <1>4 DEF Tracked, LiveTracks, PoolsTrack
  <1>5. CASE UNCHANGED <<nginx, live, pools>>
    <2>1. LiveTracks'
      BY <1>1, <1>5 DEF Tracked, LiveTracks
    <2>2. PoolsTrack'
      BY <1>1, <1>5 DEF Tracked, PoolsTrack, PoolsBefore
    <2> QED
      BY <1>2, <1>3, <2>1, <2>2 DEF Tracked
  <1> QED
    BY <1>4, <1>5

\* A request that begins saves files that fit the rows it finds.
LEMMA TrackedBegin ==
  ASSUME Inv, Tracked, NEW kind, NEW id \in Ids, NEW site, NEW next \in {"syncing", "writing"},
         Begin(kind, id, site, next),
         site # None => \A other \in Ids \ {id} :
                          sites[other] # None => sites[other].domain # site.domain,
         kind = "update" => site.secured = sites[id].secured,
         kind = "https" => site.secured # sites[id].secured,
         kind \in {"update", "https"} =>
           site # None /\ sites[id] # None /\ site.php = sites[id].php
  PROVE  Tracked'
  <1>1. /\ phase = "idle" /\ ~WithJob /\ phase' = next /\ WithJob' /\ wrecked \subseteq wrecked'
        /\ sites' = [sites EXCEPT ![id] = site]
        /\ UNCHANGED <<files, certs, nginx, live, pools>>
    BY DEF Begin, disk, processes, WithJob, JobPhases
  <1>2. /\ job'.kind = kind /\ job'.id = id /\ job'.old = sites[id] /\ job'.new = site
        /\ job'.saved = files /\ job'.started = FALSE
    BY DEF Begin
  <1>3. sites \in [Ids -> Site \cup {None}]
    BY DEF Inv, StoresTyped
  <1>4. RowsBefore' = sites /\ PoolsBefore' = pools
    BY <1>1, <1>2, <1>3 DEF RowsBefore, PoolsBefore
  <1>5. RowsDistinct'
    <2>1. Distinct(sites)
      BY DEF Tracked, RowsDistinct
    <2>2. Distinct(sites')
      BY <1>1, <1>3, <2>1 DEF Distinct
    <2> QED
      BY <1>4, <2>1, <2>2 DEF RowsDistinct
  <1>6. JobKeeps'
    <2>1. sites[id] # None /\ site # None /\ sites[id].domain \in wrecked' =>
            site.domain \in wrecked'
      BY DEF Begin
    <2> QED
      BY <1>1, <1>2, <2>1 DEF JobKeeps
  <1>7. /\ Fit(files, sites, wrecked') /\ Certified(files, certs, wrecked')
        /\ nginx => Fit(live, sites, wrecked') /\ Pooled(sites, pools, wrecked')
    BY <1>1, LeavingOut
       DEF Tracked, FilesTrack, LiveTracks, CertsTrack, PoolsTrack
  <1>8. FilesTrack'
    BY <1>1, <1>2, <1>4, <1>7 DEF FilesTrack
  <1>9. LiveTracks' /\ CertsTrack' /\ PoolsTrack'
    BY <1>1, <1>2, <1>4, <1>7 DEF LiveTracks, CertsTrack, PoolsTrack
  <1> QED
    BY <1>5, <1>6, <1>8, <1>9 DEF Tracked

\* The requests and the LAN shares.
LEMMA TrackedRequest == Inv /\ Tracked /\ Request => Tracked'
  <1> SUFFICES ASSUME Inv, Tracked, NEW id \in Ids,
                      \/ \E site \in Site : AddSite(id, site) \/ UpdateSite(id, site)
                      \/ RemoveSite(id) \/ SetSiteHttps(id)
                      \/ \E version \in Php \cup {NoPhp} : SetSitePhp(id, version)
                      \/ StartLanShare(id) \/ StopLanShare({id}) \/ StopLanShare(Ids)
               PROVE  Tracked'
    BY DEF Request
  <1>1. sites \in [Ids -> Site \cup {None}] /\ Distinct(sites) /\ None \notin Site
    BY DistinctAssumption DEF Inv, StoresTyped, Tracked, RowsDistinct
  <1>2. ASSUME NEW site \in Site, AddSite(id, site) PROVE Tracked'
    <2>1. Begin("add", id, site, "syncing") /\ site \notin {None}
      BY <1>1, <1>2 DEF AddSite
    <2>2. \A other \in Ids \ {id} : sites[other] # None => sites[other].domain # site.domain
      BY <1>2 DEF AddSite, RowDomains, RowIds
    <2> QED
      BY <2>1, <2>2, TrackedBegin
  <1>3. ASSUME NEW site \in Site, UpdateSite(id, site) PROVE Tracked'
    <2>1. Begin("update", id, site, "syncing")
      BY <1>3 DEF UpdateSite
    <2>2. /\ \A other \in Ids \ {id} : sites[other] # None => sites[other].domain # site.domain
          /\ site.secured = sites[id].secured /\ site.php = sites[id].php
          /\ site # None /\ sites[id] # None
      BY <1>1, <1>3 DEF UpdateSite, RowIds
    <2> QED
      BY <2>1, <2>2, TrackedBegin
  <1>4. ASSUME RemoveSite(id) PROVE Tracked'
    BY <1>4, TrackedBegin DEF RemoveSite
  <1>5. ASSUME SetSiteHttps(id) PROVE Tracked'
    <2>1. sites[id] \in Site
      BY <1>1, <1>5 DEF SetSiteHttps
    <2>2. PICK site : site = [sites[id] EXCEPT !.secured = ~@]
      OBVIOUS
    <2>3. site \in Site /\ site.domain = sites[id].domain
      BY <2>1, <2>2, SwitchedSite
    <2>4. site.secured # sites[id].secured /\ site.php = sites[id].php
      BY <2>1, <2>2 DEF Site
    <2>5. Begin("https", id, site, "writing")
      BY <1>5, <2>2 DEF SetSiteHttps
    <2>6. \A other \in Ids \ {id} : sites[other] # None => sites[other].domain # site.domain
      BY <1>1, <1>5, <2>3 DEF Distinct, SetSiteHttps
    <2> QED
      BY <1>1, <2>1, <2>3, <2>4, <2>5, <2>6, TrackedBegin
  <1>6. ASSUME NEW version \in Php \cup {NoPhp}, SetSitePhp(id, version) PROVE Tracked'
    <2>1. PICK site : site = [sites[id] EXCEPT !.php = version]
      OBVIOUS
    <2>2. site.domain = sites[id].domain
      BY <1>1, <1>6, <2>1 DEF SetSitePhp, Site
    <2>3. Begin("php", id, site, "writing")
      BY <1>6, <2>1 DEF SetSitePhp
    <2>4. \A other \in Ids \ {id} : sites[other] # None => sites[other].domain # site.domain
      BY <1>1, <1>6, <2>2 DEF Distinct, SetSitePhp
    <2> QED
      BY <2>3, <2>4, TrackedBegin
  <1>7. ASSUME StartLanShare(id) \/ StopLanShare({id}) \/ StopLanShare(Ids) PROVE Tracked'
    BY <1>7, TrackedQuiet DEF StartLanShare, StopLanShare, rows, disk, processes, history
  <1> QED
    BY <1>2, <1>3, <1>4, <1>5, <1>6, <1>7

\* A job that stays at hand keeps what is said of the job itself.
LEMMA SameJob ==
  ASSUME Inv, Inv', Tracked, WithJob, WithJob', UNCHANGED <<sites, wrecked>>,
         \/ job' = job
         \/ \E value \in BOOLEAN : job' = [job EXCEPT !.started = value],
         phase' = "unlinking" => Moved,
         phase' \notin {"unrowing", "resyncing"} => phase \notin {"unrowing", "resyncing"}
  PROVE  /\ RowsBefore' = RowsBefore /\ JobDomains' = JobDomains
         /\ job'.kind = job.kind /\ job'.old = job.old /\ job'.new = job.new
         /\ job'.saved = job.saved
         /\ RowsDistinct' /\ JobKeeps'
         /\ Fit(job'.saved, RowsBefore', wrecked')
  <1>1. /\ job'.kind = job.kind /\ job'.id = job.id /\ job'.old = job.old
        /\ job'.new = job.new /\ job'.saved = job.saved
    BY JobFacts DEF Jobs
  <1>2. job # NoJob /\ job' # NoJob
    <2>1. job' \in Jobs
      BY DEF Inv, JobTyped, WithJob
    <2> QED
      BY <2>1, JobFacts, JobAssumption
  <1>3. RowsBefore' = RowsBefore /\ JobDomains' = JobDomains /\ (Moved' <=> Moved)
    BY <1>1, <1>2 DEF RowsBefore, JobDomains, Moved
  <1>4. RowsDistinct' /\ JobKeeps'
    BY <1>1, <1>3 DEF Tracked, RowsDistinct, JobKeeps
  <1> QED
    BY <1>1, <1>3, <1>4 DEF Tracked, FilesTrack

\* No other certificate than the one made for the job is missed when that one
\* is removed: before the job its domain had no Site or one without HTTPS.
LEMMA CertificateSpare ==
  ASSUME Inv, Tracked, WithJob, phase # "resyncing", Moved \/ job.kind = "https",
         NEW cs, NEW w, wrecked \subseteq w, Certified(job.saved, cs, w)
  PROVE  Certified(job.saved, cs \ Named, w)
  <1> SUFFICES ASSUME NEW d \in Named, d \in Domains \ w, job.saved[d] # None, job.saved[d].secured
               PROVE  FALSE
    BY DEF Certified
  <1>1. job.new # None /\ job.new.secured /\ d = job.new.domain
    BY DEF Named
  <1>2. Fit(job.saved, RowsBefore, wrecked) /\ Distinct(RowsBefore) /\ Distinct(sites)
    BY DEF Tracked, FilesTrack, RowsDistinct
  <1>3. CASE Moved
    <2>1. \A id \in Ids : RowsBefore[id] # None => RowsBefore[id].domain # d
      BY <1>1, <1>2, <1>3, JobFacts DEF Distinct, Moved
    <2> QED
      BY <1>2, <2>1, FitNone
  <1>4. CASE job.kind = "https"
    <2>1. job.old # None /\ job.old.domain = d /\ RowsBefore[job.id] = job.old /\ job.id \in Ids
      BY <1>1, <1>4, JobFacts DEF Inv, JobTyped, JobFits, WithJob
    <2>2. AsServed(job.saved[d]) = AsServed(job.old)
      BY <1>2, <2>1, FitExact
    <2>3. job.saved[d].secured = job.old.secured
      BY <2>2 DEF AsServed
    <2>4. job.old.secured \in BOOLEAN /\ job.new.secured \in BOOLEAN
      BY <1>1, <2>1, JobFacts DEF Site
    <2> QED
      BY <1>1, <1>4, <2>3, <2>4 DEF Tracked, JobKeeps
  <1> QED
    BY <1>3, <1>4

\* A job that is refused takes its row back last: until then everything else
\* is as it was before, or noted as wrecked.
LEMMA TrackedUnrowing ==
  ASSUME Inv, Tracked, WithJob, UNCHANGED <<sites, job, nginx>>, phase' = "unrowing",
         wrecked \subseteq wrecked',
         Fit(files', RowsBefore, wrecked'), Certified(files', certs', wrecked'),
         \A d \in Domains \ JobDomains : files'[d] = job.saved[d],
         nginx => Fit(live', RowsBefore, wrecked') /\ Pooled(RowsBefore, pools', wrecked')
  PROVE  Tracked'
  <1>1. /\ RowsBefore' = RowsBefore /\ JobDomains' = JobDomains /\ WithJob'
    BY DEF RowsBefore, JobDomains, WithJob, JobPhases
  <1>2. RowsDistinct' /\ JobKeeps'
    BY <1>1 DEF Tracked, RowsDistinct, JobKeeps
  <1>3. Fit(job.saved, RowsBefore, wrecked')
    BY LeavingOut DEF Tracked, FilesTrack
  <1>4. FilesTrack' /\ CertsTrack'
    BY <1>1, <1>3 DEF FilesTrack, CertsTrack
  <1>5. LiveTracks' /\ PoolsTrack'
    BY <1>1 DEF LiveTracks, PoolsTrack
  <1> QED
    BY <1>2, <1>4, <1>5 DEF Tracked

\* Without a job everything is as the rows say.
LEMMA TrackedNoJob ==
  ASSUME ~WithJob', Distinct(sites'),
         Fit(files', sites', wrecked'), Certified(files', certs', wrecked'),
         phase' = "launching" => Fit(files', sites', Domains \ RowDomains'),
         nginx' => Fit(live', sites', wrecked') /\ Pooled(sites', pools', wrecked')
  PROVE  Tracked'
  BY DEF WithJob, Tracked, RowsDistinct, JobKeeps, FilesTrack, LiveTracks, CertsTrack, PoolsTrack,
         JobPhases

\* A request that ends leaves everything as its rows say.
LEMMA TrackedEnd ==
  ASSUME phase' = "idle", Distinct(sites'),
         Fit(files', sites', wrecked'), Certified(files', certs', wrecked'),
         nginx' => Fit(live', sites', wrecked') /\ Pooled(sites', pools', wrecked')
  PROVE  Tracked'
  BY TrackedNoJob DEF WithJob, JobPhases

\* What a refusal needs to know of the files while a job is under way.
LEMMA RefusalFacts ==
  ASSUME Inv, Tracked, WithJob,
         phase \notin {"tidying", "sharing", "unrowing", "resyncing"}
  PROVE  /\ Fit(job.saved, RowsBefore, wrecked) /\ Certified(job.saved, certs, wrecked)
         /\ \A d \in Domains \ JobDomains : files[d] = job.saved[d]
         /\ Fit(files, RowsBefore, wrecked \cup JobDomains)
         /\ Certified(files, certs, wrecked)
         /\ nginx => Pooled(RowsBefore, PoolsBefore, wrecked) /\ Pooled(RowsBefore, pools, wrecked)
  <1>1. /\ Fit(job.saved, RowsBefore, wrecked) /\ Certified(job.saved, certs, wrecked)
        /\ \A d \in Domains \ JobDomains : files[d] = job.saved[d]
        /\ Certified(files, certs, wrecked)
        /\ nginx => Pooled(RowsBefore, PoolsBefore, wrecked)
    BY DEF Tracked, FilesTrack, CertsTrack, PoolsTrack, WithJob
  <1>2. Fit(files, RowsBefore, wrecked \cup JobDomains)
    BY <1>1, JobOthers
  <1>3. nginx => Pooled(RowsBefore, pools, wrecked)
    BY <1>1 DEF Pooled, PoolsBefore
  <1> QED
    BY <1>1, <1>2, <1>3

\* The steps that fail before nginx reloads, and the undoing of a reload.
LEMMA TrackedRefused ==
  ASSUME Inv, Tracked,
         \/ WriteFilesFails
         \/ \E ok \in BOOLEAN : UnlinkFails(ok)
         \/ \E ok \in BOOLEAN : PoolFails(ok)
         \/ \E restored, reloaded \in BOOLEAN : Undo(restored, reloaded)
  PROVE  Tracked'
  <1>1. WithJob /\ phase \in {"writing", "unlinking", "pooling", "undoing"}
    BY DEF WriteFilesFails, UnlinkFails, PoolFails, Undo, WithJob, JobPhases
  <1>2. phase # "undoing" /\ nginx => Fit(live, RowsBefore, wrecked)
    BY <1>1 DEF Tracked, LiveTracks
  <1>3. /\ Fit(job.saved, RowsBefore, wrecked) /\ Certified(job.saved, certs, wrecked)
        /\ \A d \in Domains \ JobDomains : files[d] = job.saved[d]
        /\ Fit(files, RowsBefore, wrecked \cup JobDomains)
        /\ Certified(files, certs, wrecked)
        /\ nginx => Pooled(RowsBefore, PoolsBefore, wrecked) /\ Pooled(RowsBefore, pools, wrecked)
    BY <1>1, RefusalFacts
  <1> DEFINE more == wrecked \cup JobDomains
  <1>4. /\ wrecked \subseteq more
        /\ Fit(files, RowsBefore, more) /\ Certified(files, certs, more)
        /\ Fit(job.saved, RowsBefore, more) /\ Certified(job.saved, certs, more)
        /\ nginx => Pooled(RowsBefore, PoolsBefore, more) /\ Pooled(RowsBefore, pools, more)
        /\ phase # "undoing" /\ nginx => Fit(live, RowsBefore, more)
    <2>1. wrecked \subseteq more
      OBVIOUS
    <2> QED
      BY <1>2, <1>3, <2>1, LeavingOut
  <1>5. CASE WriteFilesFails
    <2>1. /\ UNCHANGED <<sites, files, job, nginx, live, pools, wrecked>>
          /\ phase = "writing" /\ phase' = "unrowing" /\ files = job.saved
          /\ certs' \in {certs, certs \cup Named} \cup (IF Moved THEN {certs \ Named} ELSE {})
      BY <1>5 DEF WriteFilesFails, Go, rows, processes, history, Tracked, FilesTrack, WithJob,
                  JobPhases
    <2>2. Certified(files, certs', wrecked)
      <3>1. CASE certs \subseteq certs'
        BY <1>3, <3>1 DEF Certified
      <3>2. CASE Moved /\ certs' = certs \ Named
        BY <1>1, <1>3, <2>1, <3>2, CertificateSpare
      <3> QED
        BY <2>1, <3>1, <3>2
    <2> QED
      BY <1>1, <1>2, <1>3, <2>1, <2>2, TrackedUnrowing
  <1>6. ASSUME NEW ok \in BOOLEAN, UnlinkFails(ok) PROVE Tracked'
    <2>1. /\ UNCHANGED <<sites, job, nginx, live, pools>>
          /\ phase = "unlinking" /\ phase' = "unrowing" /\ Moved
          /\ files' = IF ok THEN job.saved ELSE files
          /\ certs' = IF ok THEN certs \ Named ELSE certs
          /\ wrecked' = IF ok THEN wrecked ELSE more
      BY <1>6 DEF UnlinkFails, Restore, Go, rows, processes, Tracked, JobKeeps, WithJob, JobPhases
    <2>2. CASE ok
      <3>1. Certified(files', certs', wrecked')
        BY <1>1, <1>3, <2>1, <2>2, CertificateSpare
      <3> QED
        BY <1>1, <1>2, <1>3, <2>1, <2>2, <3>1, TrackedUnrowing
    <2>3. CASE ~ok
      BY <1>1, <1>3, <1>4, <2>1, <2>3, TrackedUnrowing
    <2> QED
      BY <2>2, <2>3
  <1>7. ASSUME NEW ok \in BOOLEAN, PoolFails(ok) PROVE Tracked'
    <2>1. /\ UNCHANGED <<sites, certs, job, nginx, live, pools>>
          /\ phase = "pooling" /\ phase' = "unrowing"
          /\ files' = IF ok THEN job.saved ELSE files
          /\ wrecked' = IF ok THEN wrecked ELSE more
      BY <1>7 DEF PoolFails, Restore, Go, rows, processes
    <2>2. CASE ok
      BY <1>1, <1>2, <1>3, <2>1, <2>2, TrackedUnrowing
    <2>3. CASE ~ok
      BY <1>1, <1>3, <1>4, <2>1, <2>3, TrackedUnrowing
    <2> QED
      BY <2>2, <2>3
  <1>8. ASSUME NEW restored \in BOOLEAN, NEW reloaded \in BOOLEAN, Undo(restored, reloaded)
        PROVE  Tracked'
    <2>1. /\ UNCHANGED <<sites, job, nginx>>
          /\ phase = "undoing" /\ phase' = "unrowing"
          /\ files' = IF restored THEN job.saved ELSE files
          /\ live' = IF restored /\ reloaded /\ nginx /\ Valid(job.saved, certs)
                       THEN job.saved ELSE live
          /\ pools' = IF restored /\ job.started THEN pools \ {job.new.php} ELSE pools
          /\ certs' = IF restored THEN certs \ NewCertificate ELSE certs
          /\ wrecked' = wrecked \cup
               IF restored THEN {d \in JobDomains : nginx /\ live'[d] # job.saved[d]}
                           ELSE JobDomains
      BY <1>8 DEF Undo, Restore, Go, rows
    <2>2. wrecked \subseteq wrecked' /\ wrecked' \subseteq more
      BY <2>1
    <2>3. nginx => Fit(live, RowsBefore, more)
      BY <1>1, <2>1 DEF Tracked, LiveTracks
    <2>4. CASE restored
      <3>1. Fit(job.saved, RowsBefore, wrecked') /\ Certified(job.saved, certs, wrecked')
        BY <1>3, <2>2, LeavingOut
      <3>2. Certified(files', certs', wrecked')
        <4>1. CASE Moved \/ job.kind = "https"
          BY <1>1, <2>1, <2>2, <2>4, <3>1, <4>1, CertificateSpare DEF NewCertificate
        <4>2. CASE ~(Moved \/ job.kind = "https")
          BY <2>1, <2>4, <3>1, <4>2 DEF NewCertificate, Certified
        <4> QED
          BY <4>1, <4>2
      <3>3. nginx => Fit(live', RowsBefore, wrecked')
        <4>1. CASE live' = job.saved
          BY <3>1, <4>1
        <4>2. CASE live' = live
          <5> SUFFICES ASSUME nginx, NEW d \in Domains \ wrecked' PROVE Fits(live, RowsBefore, d)
            BY <4>2 DEF Fit
          <5>1. CASE d \in JobDomains
            <6>1. live[d] = job.saved[d] /\ d \in Domains \ wrecked
              BY <2>1, <2>4, <4>2, <5>1
            <6> QED
              BY <1>3, <6>1 DEF Fit, Fits
          <5>2. CASE d \notin JobDomains
            BY <2>2, <2>3, <5>2 DEF Fit
          <5> QED
            BY <5>1, <5>2
        <4> QED
          BY <2>1, <4>1, <4>2
      <3>4. nginx => Pooled(RowsBefore, pools', wrecked')
        <4>1. nginx => Pooled(RowsBefore, PoolsBefore, wrecked')
                       /\ Pooled(RowsBefore, pools, wrecked')
          BY <1>3, <2>2, LeavingOut
        <4>2. pools' \in {pools, PoolsBefore}
          BY <2>1 DEF PoolsBefore
        <4> QED
          BY <4>1, <4>2
      <3> QED
        BY <1>1, <2>1, <2>2, <2>4, <3>1, <3>2, <3>3, <3>4, TrackedUnrowing
    <2>5. CASE ~restored
      <3>1. wrecked' = more /\ UNCHANGED <<files, live, pools, certs>>
        BY <2>1, <2>5
      <3> QED
        BY <1>1, <1>3, <1>4, <2>1, <2>3, <3>1, TrackedUnrowing
    <2> QED
      BY <2>4, <2>5
  <1> QED
    BY <1>5, <1>6, <1>7, <1>8

\* Row, hosts entries and the end of a refused job.
LEMMA TrackedUnrowed ==
  ASSUME Inv, Tracked, Unrow \/ \E done \in BOOLEAN : Resync(done)
  PROVE  Tracked'
  <1>1. WithJob /\ phase \in {"refusing", "unrowing", "resyncing"}
    BY DEF Unrow, Resync, WithJob, JobPhases
  <1>2. ASSUME NEW done \in BOOLEAN, Resync(done) PROVE Tracked'
    <2>1. /\ UNCHANGED <<sites, files, certs, nginx, live, pools, wrecked>>
          /\ phase = "resyncing" /\ phase' = "idle"
      BY <1>2 DEF Resync, End, disk, processes
    <2>2. RowsBefore = sites
      <3>1. RowsBefore \in [Ids -> Site \cup {None}] /\ sites \in [Ids -> Site \cup {None}]
        BY <1>1, JobFacts DEF Inv, StoresTyped
      <3>2. \A id \in Ids : RowsBefore[id] = sites[id]
        BY <1>1, <2>1, JobFacts
      <3> QED
        BY <3>1, <3>2
    <2> QED
      BY <1>1, <2>1, <2>2, TrackedEnd
         DEF Tracked, RowsDistinct, FilesTrack, LiveTracks, CertsTrack, PoolsTrack
  <1>3. CASE Unrow
    <2>1. /\ sites' = RowsBefore /\ UNCHANGED <<files, certs, nginx, live, pools>>
          /\ phase \in {"refusing", "unrowing"}
          /\ wrecked' = IF phase = "refusing" THEN wrecked \cup JobDomains ELSE wrecked
          /\ IF job.kind \in {"php", "https"} THEN End ELSE Go("resyncing")
      BY <1>3 DEF Unrow, RowsBefore, disk, processes
    <2>2. Distinct(RowsBefore) /\ wrecked \subseteq wrecked'
      BY <1>1, <2>1 DEF Tracked, RowsDistinct
    <2>3. /\ Fit(files, RowsBefore, wrecked') /\ Certified(files, certs, wrecked')
          /\ nginx => Fit(live, RowsBefore, wrecked') /\ Pooled(RowsBefore, pools, wrecked')
          /\ Fit(job.saved, RowsBefore, wrecked')
          /\ \A d \in Domains \ JobDomains : files[d] = job.saved[d]
      <3>1. CASE phase = "unrowing"
        BY <1>1, <2>1, <3>1 DEF Tracked, FilesTrack, LiveTracks, CertsTrack, PoolsTrack
      <3>2. CASE phase = "refusing"
        <4>1. nginx => Fit(live, RowsBefore, wrecked')
          BY <1>1, <2>1, <3>2 DEF Tracked, LiveTracks
        <4> QED
          BY <1>1, <2>1, <2>2, <3>2, <4>1, RefusalFacts, LeavingOut
      <3> QED
        BY <2>1, <3>1, <3>2
    <2>4. CASE job.kind \in {"php", "https"}
      BY <2>1, <2>2, <2>3, <2>4, TrackedEnd DEF End
    <2>5. CASE job.kind \notin {"php", "https"}
      <3>1. phase' = "resyncing" /\ WithJob' /\ job' = job
        BY <2>1, <2>5 DEF Go, WithJob, JobPhases
      <3>2. RowsBefore' = RowsBefore /\ JobDomains' = JobDomains
        <4>1. RowsBefore' = [RowsBefore EXCEPT ![job.id] = job.old]
          BY <2>1, <3>1 DEF RowsBefore
        <4>2. RowsBefore \in [Ids -> Site \cup {None}] /\ RowsBefore[job.id] = job.old
          BY <1>1, JobFacts
        <4>3. [RowsBefore EXCEPT ![job.id] = job.old] = RowsBefore
          BY <4>2
        <4> QED
          BY <3>1, <4>1, <4>3 DEF JobDomains
      <3>3. RowsDistinct' /\ JobKeeps'
        BY <1>1, <2>1, <2>2, <3>1, <3>2 DEF RowsDistinct, JobKeeps, Tracked
      <3>4. FilesTrack' /\ CertsTrack'
        BY <2>1, <2>3, <3>1, <3>2 DEF FilesTrack, CertsTrack
      <3>5. LiveTracks' /\ PoolsTrack'
        BY <2>1, <2>3, <3>1, <3>2 DEF LiveTracks, PoolsTrack
      <3> QED
        BY <3>3, <3>4, <3>5 DEF Tracked
    <2> QED
      BY <2>4, <2>5
  <1> QED
    BY <1>2, <1>3

\* A job that has pools for every row before it has them for the rows with it,
\* once the pool of a version it brings in runs.
LEMMA JobPooled ==
  ASSUME Inv, Tracked, WithJob, phase \notin {"unrowing", "resyncing"},
         NEW ps, Pooled(RowsBefore, ps, wrecked),
         job.kind \in {"add", "php"} => job.new.php \in ps \cup {NoPhp}
  PROVE  Pooled(sites, ps, wrecked)
  <1> SUFFICES ASSUME NEW id \in Ids, sites[id] # None, sites[id].domain \notin wrecked
               PROVE  sites[id].php \in ps \cup {NoPhp}
    BY DEF Pooled
  <1>1. CASE id # job.id
    BY <1>1, JobFacts DEF Pooled
  <1>2. CASE id = job.id
    <2>1. sites[id] = job.new /\ RowsBefore[id] = job.old /\ job.kind \in Kinds
      BY <1>2, JobFacts DEF Jobs
    <2>2. job.kind # "remove" /\ (job.kind # "add" => job.old # None)
      BY <2>1 DEF Inv, JobTyped, JobFits, WithJob
    <2>3. CASE job.kind \in {"add", "php"}
      BY <2>1, <2>3
    <2>4. CASE job.kind \in {"update", "https"}
      BY <2>1, <2>2, <2>4 DEF Tracked, JobKeeps, Pooled
    <2> QED
      BY <2>1, <2>2, <2>3, <2>4 DEF Kinds
  <1> QED
    BY <1>1, <1>2

\* Before the files: the hosts entries are written or fail.
LEMMA TrackedSync == Inv /\ Inv' /\ Tracked /\ (SyncHosts \/ SyncHostsFails) => Tracked'
  <1> SUFFICES ASSUME Inv, Inv', Tracked, SyncHosts \/ SyncHostsFails PROVE Tracked'
    OBVIOUS
  <1>1. /\ WithJob /\ phase = "syncing" /\ files = job.saved
        /\ UNCHANGED <<files, certs, nginx, live, pools, wrecked>>
        /\ Fit(job.saved, RowsBefore, wrecked) /\ Certified(files, certs, wrecked)
        /\ nginx => Fit(live, RowsBefore, wrecked)
    BY DEF SyncHosts, SyncHostsFails, WithJob, JobPhases, disk, processes, history, Tracked,
           FilesTrack, LiveTracks, CertsTrack
  <1>2. nginx => Pooled(RowsBefore, pools, wrecked)
    BY <1>1, RefusalFacts
  <1>3. CASE SyncHosts
    <2>1. UNCHANGED <<sites, job, wrecked>> /\ phase' = "writing" /\ WithJob'
      BY <1>3 DEF SyncHosts, Go, WithJob, JobPhases
    <2>2. /\ RowsBefore' = RowsBefore /\ JobDomains' = JobDomains
          /\ RowsDistinct' /\ JobKeeps' /\ Fit(job.saved, RowsBefore, wrecked)
      BY <1>1, <2>1, SameJob
    <2>3. FilesTrack' /\ LiveTracks'
      BY <1>1, <2>1, <2>2 DEF FilesTrack, LiveTracks
    <2>4. CertsTrack' /\ PoolsTrack'
      BY <1>1, <2>1, <2>2 DEF Tracked, CertsTrack, PoolsTrack, PoolsBefore, JobPhases
    <2> QED
      BY <2>2, <2>3, <2>4 DEF Tracked
  <1>4. CASE SyncHostsFails
    <2>1. CASE job.kind = "remove"
      <3>1. sites' = RowsBefore /\ phase' = "idle"
        BY <1>4, <2>1 DEF SyncHostsFails, End, RowsBefore
      <3> QED
        BY <1>1, <1>2, <3>1, TrackedEnd DEF Tracked, RowsDistinct
    <2>2. CASE job.kind # "remove"
      <3>1. UNCHANGED <<sites, job>> /\ phase' = "unrowing"
        BY <1>4, <2>2 DEF SyncHostsFails, Go
      <3> QED
        BY <1>1, <1>2, <3>1, TrackedUnrowing
    <2> QED
      BY <2>1, <2>2
  <1> QED
    BY <1>3, <1>4

\* The files of a job that has none to write fit the rows with it too.
LEMMA TrackedSkip == Inv /\ Inv' /\ Tracked /\ SkipFiles => Tracked'
  <1> SUFFICES ASSUME Inv, Inv', Tracked, SkipFiles PROVE Tracked'
    OBVIOUS
  <1>1. /\ WithJob /\ phase = "writing" /\ files = job.saved /\ phase' = "sharing" /\ WithJob'
        /\ UNCHANGED <<sites, files, certs, nginx, live, pools, job, wrecked>>
        /\ job.kind = "update" /\ ~Moved /\ job.old.root = job.new.root
    BY DEF SkipFiles, FilesConcerned, Go, WithJob, JobPhases, rows, disk, processes, history,
           Tracked, FilesTrack
  <1>2. /\ Fit(files, RowsBefore, wrecked) /\ Certified(files, certs, wrecked)
        /\ nginx => Fit(live, RowsBefore, wrecked) /\ Pooled(RowsBefore, pools, wrecked)
    BY <1>1, RefusalFacts DEF Tracked, LiveTracks
  <1>3. /\ RowsBefore' = RowsBefore /\ JobDomains' = JobDomains
        /\ RowsDistinct' /\ JobKeeps' /\ Fit(job.saved, RowsBefore, wrecked)
    BY <1>1, SameJob
  <1>4. /\ job.old # None /\ job.new # None /\ job.old.domain = job.new.domain
        /\ AsServed(job.old) = AsServed(job.new)
    BY <1>1 DEF Inv, JobTyped, JobFits, WithJob, Tracked, JobKeeps, Moved, AsServed
  <1>5. \A id \in Ids :
          \/ RowsBefore[id] = sites[id]
          \/ /\ RowsBefore[id] # None /\ sites[id] # None
             /\ RowsBefore[id].domain = sites[id].domain
             /\ AsServed(RowsBefore[id]) = AsServed(sites[id])
    BY <1>1, <1>4, JobFacts
  <1>6. ASSUME NEW f, Fit(f, RowsBefore, wrecked) PROVE Fit(f, sites, wrecked)
    <2> DEFINE before == RowsBefore
    <2> HIDE DEF before
    <2>1. \A id \in Ids :
            /\ before[id] = None <=> sites[id] = None
            /\ before[id] # None => /\ before[id].domain = sites[id].domain
                                    /\ AsServed(before[id]) = AsServed(sites[id])
      BY <1>5 DEF before
    <2>2. Fit(f, before, wrecked)
      BY <1>6 DEF before
    <2> QED
      BY <2>1, <2>2 DEF Fit, Fits
  <1>7. nginx => Pooled(sites, pools, wrecked)
    BY <1>1, <1>2, JobPooled
  <1>8. FilesTrack' /\ CertsTrack'
    BY <1>1, <1>2, <1>3, <1>6 DEF FilesTrack, CertsTrack
  <1>9. LiveTracks' /\ PoolsTrack'
    BY <1>1, <1>2, <1>3, <1>6, <1>7 DEF LiveTracks, PoolsTrack
  <1> QED
    BY <1>3, <1>8, <1>9 DEF Tracked

\* Where a job goes once its files are written, and what is known by then.
LEMMA TrackedWritten ==
  ASSUME Inv, Inv', Tracked, WithJob, phase \in {"writing", "unlinking"},
         UNCHANGED <<sites, nginx, live, pools, job, wrecked>>,
         Fit(files', sites, wrecked), Certified(files', certs', wrecked), certs \subseteq certs',
         \A d \in Domains \ JobDomains : files'[d] = job.saved[d],
         NEW changed \in BOOLEAN, phase' = AfterFiles(changed),
         ~changed => job.kind = "remove" /\ files' = job.saved
  PROVE  Tracked'
  <1>1. /\ phase' \in {"tidying", "pooling", "reloading"} /\ WithJob'
        /\ phase' = "tidying" => ~changed \/ ~nginx
        /\ phase' = "reloading" => job.kind \notin {"add", "php"}
    BY DEF AfterFiles, WithJob, JobPhases
  <1>2. /\ RowsBefore' = RowsBefore /\ JobDomains' = JobDomains
        /\ RowsDistinct' /\ JobKeeps' /\ Fit(job.saved, RowsBefore, wrecked)
    BY <1>1, SameJob
  <1>3. /\ Certified(job.saved, certs, wrecked)
        /\ nginx => /\ Fit(live, RowsBefore, wrecked)
                    /\ Pooled(RowsBefore, PoolsBefore, wrecked)
                    /\ Pooled(RowsBefore, pools, wrecked)
    BY RefusalFacts DEF Tracked, LiveTracks
  <1>4. Certified(job.saved, certs', wrecked)
    BY <1>3 DEF Certified
  <1>5. FilesTrack' /\ CertsTrack'
    BY <1>1, <1>2, <1>4 DEF FilesTrack, CertsTrack
  <1>6. phase' # "pooling" /\ nginx => Pooled(sites, pools, wrecked)
    BY <1>1, <1>3, JobPooled
  <1>7. phase' = "tidying" /\ nginx => Fit(live, sites, wrecked)
    <2> SUFFICES ASSUME phase' = "tidying", nginx PROVE Fit(live, sites, wrecked)
      OBVIOUS
    <2>1. job.kind = "remove" /\ job.old # None /\ job.new = None /\ Fit(job.saved, sites, wrecked)
      BY <1>1 DEF Inv, JobTyped, JobFits, WithJob
    <2>2. job.old.domain \in wrecked
      <3>1. sites[job.id] = None /\ RowsBefore[job.id] = job.old /\ job.id \in Ids
            /\ job.old.domain \in Domains
        BY <2>1, JobFacts DEF Site
      <3>2. \A id \in Ids : sites[id] # None => sites[id].domain # job.old.domain
        BY <2>1, <3>1, JobFacts DEF Tracked, RowsDistinct, Distinct
      <3>3. Fit(job.saved, RowsBefore, wrecked) /\ Distinct(RowsBefore)
        BY <1>2 DEF Tracked, RowsDistinct
      <3> QED
        BY <2>1, <3>1, <3>2, <3>3, FitExact, FitNone
    <2>3. JobDomains \subseteq wrecked
      BY <2>1, <2>2, JobFacts
    <2>4. Fit(live, sites, wrecked \cup JobDomains)
      BY <1>3, JobOthers
    <2>5. wrecked \cup JobDomains = wrecked
      BY <2>3
    <2> QED
      BY <2>4, <2>5
  <1>8. LiveTracks'
    BY <1>1, <1>2, <1>3, <1>7 DEF LiveTracks
  <1>9. PoolsTrack'
    BY <1>1, <1>2, <1>3, <1>6 DEF PoolsTrack, PoolsBefore
  <1> QED
    BY <1>2, <1>5, <1>8, <1>9 DEF Tracked

\* Writing a job's file, and then removing the one of the domain it leaves.
LEMMA TrackedFiles == Inv /\ Inv' /\ Tracked /\ (WriteFiles \/ Unlink) => Tracked'
  <1> SUFFICES ASSUME Inv, Inv', Tracked, WriteFiles \/ Unlink PROVE Tracked'
    OBVIOUS
  <1>1. /\ WithJob /\ phase \in {"writing", "unlinking"}
        /\ UNCHANGED <<sites, nginx, live, pools, job, wrecked>>
    BY DEF WriteFiles, Unlink, Go, WithJob, JobPhases, rows, processes, history
  <1>2. /\ Fit(job.saved, RowsBefore, wrecked) /\ Distinct(RowsBefore)
        /\ Certified(job.saved, certs, wrecked) /\ Certified(files, certs, wrecked)
    BY <1>1, RefusalFacts DEF Tracked, RowsDistinct
  <1>3. /\ job.saved \in Rendered
        /\ job.old # None => job.old.domain \in JobDomains /\ job.old.domain \in Domains
        /\ job.new # None => job.new.domain \in JobDomains /\ job.new.domain \in Domains
    BY <1>1, JobFacts
  <1>4. /\ job.kind = "remove" <=> job.new = None
        /\ job.kind # "add" => job.old # None
        /\ job.kind = "add" => job.old = None
        /\ job.kind \in {"php", "https"} => job.new.domain = job.old.domain
    BY <1>1 DEF Inv, JobTyped, JobFits, WithJob
  <1>5. CASE WriteFiles
    <2>1. /\ phase = "writing" /\ files = job.saved
          /\ certs' = certs \cup Named
          /\ files' = IF job.kind = "remove" THEN [files EXCEPT ![job.old.domain] = None]
                                             ELSE [files EXCEPT ![job.new.domain] = job.new]
          /\ phase' = IF Moved THEN "unlinking"
                               ELSE AfterFiles(files' # files \/ job.kind # "remove")
      BY <1>1, <1>5 DEF WriteFiles, Go, Tracked, FilesTrack
    <2>2. \A d \in Domains \ JobDomains : files'[d] = job.saved[d]
      BY <1>3, <1>4, <2>1 DEF Rendered
    <2>3. Certified(files', certs', wrecked)
      <3> SUFFICES ASSUME NEW d \in Domains \ wrecked, files'[d] # None, files'[d].secured
                   PROVE  d \in certs'
        BY DEF Certified
      <3>1. CASE files'[d] = files[d]
        BY <1>2, <2>1, <3>1 DEF Certified
      <3>2. CASE files'[d] # files[d]
        BY <1>3, <1>4, <2>1, <3>2 DEF Named, Rendered
      <3> QED
        BY <3>1, <3>2
    <2>4. CASE Moved
      <3>1. phase' = "unlinking" /\ WithJob' /\ job.kind = "update"
        BY <2>1, <2>4 DEF WithJob, JobPhases, Moved
      <3>2. /\ RowsBefore' = RowsBefore /\ JobDomains' = JobDomains
            /\ RowsDistinct' /\ JobKeeps' /\ Fit(job.saved, RowsBefore, wrecked)
        BY <1>1, <2>4, <3>1, SameJob
      <3>3. FilesTrack'
        BY <1>1, <2>1, <2>2, <3>1, <3>2 DEF FilesTrack
      <3>4. Certified(job.saved, certs', wrecked)
        BY <1>2, <2>1 DEF Certified
      <3>5. LiveTracks' /\ CertsTrack'
        BY <1>1, <2>1, <2>3, <3>1, <3>2, <3>4 DEF Tracked, LiveTracks, CertsTrack
      <3>6. PoolsTrack'
        BY <1>1, <2>1, <3>1, <3>2 DEF Tracked, PoolsTrack, PoolsBefore, JobPhases
      <3> QED
        BY <3>2, <3>3, <3>5, <3>6 DEF Tracked
    <2>5. CASE ~Moved
      <3> DEFINE changed == files' # files \/ job.kind # "remove"
      <3>1. /\ phase' = AfterFiles(changed) /\ changed \in BOOLEAN
            /\ ~changed => job.kind = "remove" /\ files' = job.saved
        BY <2>1, <2>5
      <3>2. /\ job.new # None => files'[job.new.domain] = job.new
            /\ job.old # None /\ (job.new = None \/ job.new.domain # job.old.domain) =>
                 files'[job.old.domain] = None
        <4>1. job.old # None /\ job.new # None => job.new.domain = job.old.domain
          BY <1>1, <1>4, <2>5, JobFacts DEF Moved, Jobs, Kinds
        <4> QED
          BY <1>3, <1>4, <2>1, <4>1 DEF Rendered
      <3>3. Fit(files', sites, wrecked)
        BY <1>1, <1>2, <2>2, <3>2, JobWritten
      <3> HIDE DEF changed
      <3> QED
        BY <1>1, <2>1, <2>2, <2>3, <3>1, <3>3, TrackedWritten
    <2> QED
      BY <2>4, <2>5
  <1>6. CASE Unlink
    <2>1. /\ phase = "unlinking" /\ Moved /\ certs' = certs
          /\ files = [job.saved EXCEPT ![job.new.domain] = job.new]
          /\ files' = [files EXCEPT ![job.old.domain] = None]
          /\ phase' = AfterFiles(TRUE)
      BY <1>1, <1>6 DEF Unlink, Go, Tracked, FilesTrack, JobKeeps
    <2>2. /\ job.old # None /\ job.new # None /\ job.old.domain # job.new.domain
      BY <1>4, <2>1 DEF Moved
    <2>3. /\ \A d \in Domains \ JobDomains : files'[d] = job.saved[d]
          /\ files'[job.new.domain] = job.new /\ files'[job.old.domain] = None
      BY <1>3, <2>1, <2>2 DEF Rendered
    <2>4. Fit(files', sites, wrecked)
      BY <1>1, <1>2, <2>2, <2>3, JobWritten
    <2>5. Certified(files', certs', wrecked)
      BY <1>2, <1>3, <2>1 DEF Certified, Rendered
    <2> QED
      BY <1>1, <2>1, <2>3, <2>4, <2>5, TrackedWritten
  <1> QED
    BY <1>5, <1>6

\* The pool of the version a job brings in, or the refusal that leaves its
\* file behind.
LEMMA TrackedPooling == Inv /\ Inv' /\ Tracked /\ (EnsurePool \/ AddPhpInvalid) => Tracked'
  <1> SUFFICES ASSUME Inv, Inv', Tracked, EnsurePool \/ AddPhpInvalid PROVE Tracked'
    OBVIOUS
  <1>1. /\ WithJob /\ WithJob' /\ phase = "pooling"
        /\ UNCHANGED <<sites, files, certs, nginx, live, wrecked>>
    BY DEF EnsurePool, AddPhpInvalid, Go, WithJob, JobPhases, rows, disk, processes, history
  <1>2. /\ Fit(files, sites, wrecked) /\ Certified(files, certs, wrecked)
        /\ Certified(job.saved, certs, wrecked)
        /\ \A d \in Domains \ JobDomains : files[d] = job.saved[d]
        /\ nginx => /\ Fit(live, RowsBefore, wrecked)
                    /\ Pooled(RowsBefore, PoolsBefore, wrecked)
                    /\ Pooled(RowsBefore, pools, wrecked)
    BY <1>1, RefusalFacts DEF Tracked, FilesTrack, LiveTracks
  <1>3. CASE EnsurePool
    <2> DEFINE needed == {job.new.php} \ {NoPhp}
    <2>1. /\ pools' = pools \cup needed /\ phase' = "reloading"
          /\ job' = [job EXCEPT !.started = ~(needed \subseteq pools)]
      BY <1>3 DEF EnsurePool
    <2>2. /\ RowsBefore' = RowsBefore /\ JobDomains' = JobDomains
          /\ job'.new = job.new /\ job'.saved = job.saved
          /\ RowsDistinct' /\ JobKeeps' /\ Fit(job.saved, RowsBefore, wrecked)
      BY <1>1, <2>1, SameJob
    <2>3. job'.started = ~(needed \subseteq pools)
      BY <1>1, <2>1, JobFacts DEF Jobs
    <2>4. nginx => Pooled(RowsBefore, PoolsBefore', wrecked)
      <3>1. pools \subseteq PoolsBefore'
        BY <2>1, <2>2, <2>3 DEF PoolsBefore
      <3> QED
        BY <1>2, <3>1 DEF Pooled
    <2>5. nginx => Pooled(sites, pools', wrecked)
      <3>1. nginx => Pooled(RowsBefore, pools', wrecked)
        BY <1>2, <2>1 DEF Pooled
      <3>2. job.new.php \in pools' \cup {NoPhp}
        BY <2>1
      <3> QED
        BY <1>1, <3>1, <3>2, JobPooled
    <2>6. FilesTrack' /\ CertsTrack'
      BY <1>1, <1>2, <2>1, <2>2 DEF FilesTrack, CertsTrack
    <2>7. LiveTracks' /\ PoolsTrack'
      BY <1>1, <1>2, <2>1, <2>2, <2>4, <2>5 DEF LiveTracks, PoolsTrack
    <2> QED
      BY <2>2, <2>6, <2>7 DEF Tracked
  <1>4. CASE AddPhpInvalid
    <2>1. /\ UNCHANGED <<job, pools>> /\ phase' = "refusing"
      BY <1>4 DEF AddPhpInvalid, Go, processes
    <2>2. /\ RowsBefore' = RowsBefore /\ JobDomains' = JobDomains
          /\ RowsDistinct' /\ JobKeeps' /\ Fit(job.saved, RowsBefore, wrecked)
      BY <1>1, <2>1, SameJob
    <2>3. nginx => Fit(live, RowsBefore, wrecked \cup JobDomains)
      BY <1>1, <1>2, JobOthers
    <2>4. FilesTrack' /\ CertsTrack'
      BY <1>1, <1>2, <2>1, <2>2 DEF FilesTrack, CertsTrack
    <2>5. LiveTracks' /\ PoolsTrack'
      BY <1>1, <1>2, <2>1, <2>2, <2>3 DEF LiveTracks, PoolsTrack, PoolsBefore
    <2> QED
      BY <2>2, <2>4, <2>5 DEF Tracked
  <1> QED
    BY <1>3, <1>4

\* nginx takes the new files, and confirms them, or not.
LEMMA TrackedReload ==
  Inv /\ Inv' /\ Tracked /\ (Reload \/ ReloadFails \/ Confirm \/ ConfirmFails) => Tracked'
  <1> SUFFICES ASSUME Inv, Inv', Tracked, Reload \/ ReloadFails \/ Confirm \/ ConfirmFails
               PROVE  Tracked'
    OBVIOUS
  <1>1. /\ WithJob /\ phase \in {"reloading", "confirming"}
        /\ WithJob' /\ phase' \in {"tidying", "confirming", "undoing"}
        /\ UNCHANGED <<sites, files, certs, nginx, pools, job, wrecked>>
        /\ live' = IF Reload THEN files ELSE live
        /\ phase' # "undoing" => Reload \/ phase = "confirming"
    BY DEF Reload, ReloadFails, Confirm, ConfirmFails, Go, WithJob, JobPhases, rows, disk,
           processes, history
  <1>2. /\ Fit(files, sites, wrecked) /\ Certified(files, certs, wrecked)
        /\ Certified(job.saved, certs, wrecked)
        /\ \A d \in Domains \ JobDomains : files[d] = job.saved[d]
        /\ nginx => /\ Pooled(RowsBefore, PoolsBefore, wrecked)
                    /\ Pooled(RowsBefore, pools, wrecked)
                    /\ Pooled(sites, pools, wrecked)
    BY <1>1, RefusalFacts DEF Tracked, FilesTrack, PoolsTrack
  <1>3. /\ RowsBefore' = RowsBefore /\ JobDomains' = JobDomains
        /\ RowsDistinct' /\ JobKeeps' /\ Fit(job.saved, RowsBefore, wrecked)
    BY <1>1, SameJob
  <1>4. FilesTrack' /\ CertsTrack'
    BY <1>1, <1>2, <1>3 DEF FilesTrack, CertsTrack
  <1>5. PoolsTrack'
    BY <1>1, <1>2, <1>3 DEF PoolsTrack, PoolsBefore
  <1>6. CASE phase' # "undoing"
    <2>1. nginx => Fit(live', sites, wrecked)
      BY <1>1, <1>2, <1>6 DEF Tracked, LiveTracks
    <2>2. LiveTracks'
      BY <1>1, <1>6, <2>1 DEF LiveTracks
    <2> QED
      BY <1>3, <1>4, <1>5, <2>2 DEF Tracked
  <1>7. CASE phase' = "undoing"
    <2>1. nginx => Fit(live, RowsBefore, wrecked) \/ Fit(live, sites, wrecked)
      BY <1>1 DEF Tracked, LiveTracks
    <2>2. live' = live
      BY <1>1, <1>7 DEF Reload, Go
    <2>3. nginx => Fit(live, RowsBefore, wrecked \cup JobDomains)
      BY <1>1, <2>1, JobOthers
    <2>4. LiveTracks'
      BY <1>1, <1>3, <1>7, <2>2, <2>3 DEF LiveTracks
    <2> QED
      BY <1>3, <1>4, <1>5, <2>4 DEF Tracked
  <1> QED
    BY <1>6, <1>7

\* The certificate of a domain that is not served over HTTPS any more is
\* missed by no file, nor the pool of a version that no row names.
LEMMA NothingMissed ==
  ASSUME Inv, Tracked, phase = "tidying"
  PROVE  /\ Certified(files, certs \ Obsolete, wrecked)
         /\ nginx => Pooled(sites, pools \ Retired, wrecked)
  <1>1. /\ WithJob /\ Distinct(sites) /\ Distinct(RowsBefore)
        /\ Fit(files, sites, wrecked) /\ Certified(files, certs, wrecked)
        /\ nginx => Pooled(sites, pools, wrecked)
    BY DEF WithJob, JobPhases, Tracked, RowsDistinct, FilesTrack, CertsTrack, PoolsTrack
  <1>2. ASSUME NEW d \in Obsolete, d \in Domains \ wrecked, files[d] # None, files[d].secured
        PROVE  FALSE
    <2>1. /\ job.old # None /\ job.old.secured /\ d = job.old.domain
          /\ job.kind \in {"remove", "https"} \/ Moved
      BY <1>2 DEF Obsolete
    <2>2. job.kind = "remove" => job.new = None
      BY <1>1 DEF Inv, JobTyped, JobFits, WithJob
    <2>3. CASE job.kind = "remove" \/ Moved
      <3>1. \A id \in Ids : sites[id] # None => sites[id].domain # d
        BY <1>1, <2>1, <2>2, <2>3, JobFacts DEF Distinct, Moved
      <3> QED
        BY <1>1, <1>2, <3>1, FitNone
    <2>4. CASE job.kind = "https"
      <3>1. /\ job.new # None /\ job.new.domain = d /\ job.id \in Ids /\ sites[job.id] = job.new
            /\ job.new.secured # job.old.secured
        BY <1>1, <2>1, <2>4, JobFacts DEF Inv, JobTyped, JobFits, WithJob, Tracked, JobKeeps
      <3>2. AsServed(files[d]) = AsServed(job.new)
        BY <1>1, <1>2, <3>1, FitExact
      <3>3. files[d].secured = job.new.secured
        BY <3>2 DEF AsServed
      <3>4. job.old.secured \in BOOLEAN /\ job.new.secured \in BOOLEAN
        BY <1>1, <2>1, <3>1, JobFacts DEF Site
      <3> QED
        BY <1>2, <2>1, <3>1, <3>3, <3>4
    <2> QED
      BY <2>1, <2>3, <2>4
  <1>3. Certified(files, certs \ Obsolete, wrecked)
    BY <1>1, <1>2 DEF Certified
  <1>4. \A id \in Ids : sites[id] # None => sites[id].php \notin Retired
    BY DEF Retired, StillUsed, RowIds
  <1> QED
    BY <1>1, <1>3, <1>4 DEF Pooled

\* The last steps of a job.
LEMMA TrackedTidy == Inv /\ Inv' /\ Tracked /\ (Tidy \/ TidyFails \/ ShareUpdated) => Tracked'
  <1> SUFFICES ASSUME Inv, Inv', Tracked, Tidy \/ TidyFails \/ ShareUpdated PROVE Tracked'
    OBVIOUS
  <1>1. /\ WithJob /\ phase \in {"tidying", "sharing"}
        /\ UNCHANGED <<sites, files, nginx, live>>
    BY DEF Tidy, TidyFails, ShareUpdated, Go, WithJob, JobPhases, rows, disk, processes, history
  <1>2. /\ Distinct(sites) /\ Fit(files, sites, wrecked) /\ Certified(files, certs, wrecked)
        /\ \A d \in Domains \ JobDomains : files[d] = job.saved[d]
        /\ nginx => Fit(live, sites, wrecked) /\ Pooled(sites, pools, wrecked)
    BY <1>1 DEF Tracked, RowsDistinct, FilesTrack, LiveTracks, CertsTrack, PoolsTrack
  <1>3. phase = "tidying" =>
          /\ Certified(files, certs \ Obsolete, wrecked)
          /\ nginx => Pooled(sites, pools \ Retired, wrecked)
    BY NothingMissed
  <1>4. CASE Tidy
    <2>1. /\ phase = "tidying" /\ wrecked' = wrecked
          /\ pools' \in {pools, pools \ Retired} /\ certs' = certs \ Obsolete
          /\ IF job.kind = "update" THEN Go("sharing") ELSE End
      BY <1>4 DEF Tidy, history
    <2>2. Certified(files, certs', wrecked) /\ (nginx => Pooled(sites, pools', wrecked))
      BY <1>2, <1>3, <2>1
    <2>3. CASE job.kind = "update"
      <3>1. phase' = "sharing" /\ WithJob' /\ job' = job
        BY <2>1, <2>3 DEF Go, WithJob, JobPhases
      <3>2. /\ RowsBefore' = RowsBefore /\ JobDomains' = JobDomains
            /\ RowsDistinct' /\ JobKeeps' /\ Fit(job.saved, RowsBefore, wrecked)
        BY <1>1, <2>1, <3>1, SameJob
      <3>3. FilesTrack' /\ CertsTrack'
        BY <1>1, <1>2, <2>1, <2>2, <3>1, <3>2 DEF FilesTrack, CertsTrack
      <3>4. LiveTracks' /\ PoolsTrack'
        BY <1>1, <1>2, <2>1, <2>2, <3>1 DEF LiveTracks, PoolsTrack
      <3> QED
        BY <3>2, <3>3, <3>4 DEF Tracked
    <2>4. CASE job.kind # "update"
      BY <1>1, <1>2, <2>1, <2>2, <2>4, TrackedEnd DEF End
    <2> QED
      BY <2>3, <2>4
  <1>5. CASE TidyFails
    <2> DEFINE more == wrecked \cup JobDomains
    <2>1. /\ phase = "tidying" /\ phase' = "unrowing" /\ job' = job /\ wrecked' = more
          /\ pools' \in {pools, pools \ Retired} /\ certs' \in {certs, certs \ Obsolete}
      BY <1>5 DEF TidyFails, Go
    <2>2. /\ Fit(files, RowsBefore, more)
          /\ nginx => Fit(live, RowsBefore, more)
      BY <1>1, <1>2, JobOthers
    <2>3. Certified(files, certs', more)
      BY <1>2, <1>3, <2>1 DEF Certified
    <2>4. nginx => Pooled(RowsBefore, pools', more)
      <3>1. nginx => Pooled(sites, pools', wrecked)
        BY <1>2, <1>3, <2>1
      <3>2. \A id \in Ids : RowsBefore[id] # None /\ RowsBefore[id].domain \notin more =>
              sites[id] = RowsBefore[id]
        BY <1>1, JobFacts
      <3> QED
        BY <3>1, <3>2 DEF Pooled
    <2> QED
      BY <1>1, <1>2, <2>1, <2>2, <2>3, <2>4, TrackedUnrowing
  <1>6. CASE ShareUpdated
    BY <1>1, <1>2, <1>6, TrackedEnd DEF ShareUpdated, End, rows, disk, processes, history
  <1> QED
    BY <1>4, <1>5, <1>6

\* Starting and stopping the Web services: every row's file is rendered before
\* nginx is launched, so what was wrecked of them is right again.
LEMMA TrackedServices == Inv /\ Tracked /\ Services => Tracked'
  <1> SUFFICES ASSUME Inv, Tracked, Services PROVE Tracked'
    OBVIOUS
  <1>1. ~WithJob /\ ~WithJob'
    BY DEF Services, StartAll, StartSyncs, Render, Launch, LaunchFails, StopAll, StartFails,
           WithJob, JobPhases
  <1>2. /\ Distinct(sites) /\ Fit(files, sites, wrecked) /\ Certified(files, certs, wrecked)
        /\ nginx => Fit(live, sites, wrecked) /\ Pooled(sites, pools, wrecked)
        /\ phase = "launching" => Fit(files, sites, Domains \ RowDomains)
    BY <1>1 DEF Tracked, RowsDistinct, FilesTrack, LiveTracks, CertsTrack, PoolsTrack, WithJob,
                JobPhases
  <1>3. CASE StartAll \/ LaunchFails \/ StopAll
    <2>1. /\ UNCHANGED <<sites, files, certs, wrecked>> /\ ~nginx'
          /\ phase' # "launching"
      BY <1>3 DEF StartAll, LaunchFails, StopAll, Halt, rows, disk, history
    <2> QED
      BY <1>1, <1>2, <2>1, TrackedNoJob
  <1>4. CASE StartSyncs
    <2>1. /\ UNCHANGED <<sites, files, certs, nginx, live, pools, wrecked>>
          /\ phase' # "launching"
      BY <1>4 DEF StartSyncs, disk, processes
    <2> QED
      BY <1>1, <1>2, <2>1, TrackedNoJob
  <1>5. CASE Render
    <2>1. /\ UNCHANGED <<sites, nginx, live, pools, wrecked>> /\ RowDomains' = RowDomains
          /\ files' = [d \in Domains |->
               IF d \in RowDomains THEN sites[CHOOSE id \in RowIds : sites[id].domain = d]
                                   ELSE files[d]]
          /\ certs' = certs \cup {sites[id].domain : id \in {r \in RowIds : sites[r].secured}}
      BY <1>5 DEF Render, rows, processes, history, RowDomains, RowIds
    <2>2. ASSUME NEW d \in Domains, d \in RowDomains
          PROVE  Fits(files', sites, d) /\ (files'[d].secured => d \in certs')
      <3>1. PICK id \in RowIds : files'[d] = sites[id] /\ sites[id].domain = d
        BY <2>1, <2>2 DEF RowDomains
      <3> QED
        BY <2>1, <3>1 DEF Fits, RowIds
    <2>3. ASSUME NEW d \in Domains, d \notin RowDomains PROVE files'[d] = files[d]
      BY <2>1, <2>3
    <2>4. Fit(files', sites, Domains \ RowDomains) /\ Fit(files', sites, wrecked)
      BY <1>2, <2>2, <2>3 DEF Fit, Fits
    <2>5. Certified(files', certs', wrecked)
      BY <1>2, <2>1, <2>2, <2>3 DEF Certified
    <2> QED
      BY <1>1, <1>2, <2>1, <2>4, <2>5, TrackedNoJob
  <1>6. CASE Launch
    <2>1. /\ UNCHANGED <<sites, files, certs>> /\ live' = files /\ phase' = "idle"
          /\ phase = "launching" /\ Valid(files, certs) /\ pools' = RowPools
          /\ wrecked' = wrecked \ RowDomains
      BY <1>6 DEF Launch, rows, disk
    <2>2. Fit(files, sites, wrecked')
      BY <1>2, <2>1 DEF Fit
    <2>3. Certified(files, certs, wrecked')
      BY <2>1 DEF Certified, Valid
    <2>4. Pooled(sites, pools', wrecked')
      BY <2>1 DEF Pooled, RowPools, RowIds
    <2> QED
      BY <1>2, <2>1, <2>2, <2>3, <2>4, TrackedEnd
  <1>7. ASSUME NEW rendered \in SUBSET RowIds, StartFails(rendered) PROVE Tracked'
    <2>1. /\ UNCHANGED <<sites, nginx, live, pools, wrecked>> /\ phase' = "idle"
          /\ files' = [d \in Domains |->
               IF \E id \in rendered : sites[id].domain = d
                 THEN sites[CHOOSE id \in rendered : sites[id].domain = d] ELSE files[d]]
          /\ certs' = certs \cup {sites[id].domain : id \in {r \in rendered : sites[r].secured}}
      BY <1>7 DEF StartFails, rows, processes, history
    <2>2. ASSUME NEW d \in Domains, \E id \in rendered : sites[id].domain = d
          PROVE  Fits(files', sites, d) /\ (files'[d].secured => d \in certs')
      <3>1. PICK id \in rendered : files'[d] = sites[id] /\ sites[id].domain = d
        BY <2>1, <2>2
      <3> QED
        BY <2>1, <3>1 DEF Fits, RowIds
    <2>3. ASSUME NEW d \in Domains, ~\E id \in rendered : sites[id].domain = d
          PROVE  files'[d] = files[d]
      BY <2>1, <2>3
    <2>4. Fit(files', sites, wrecked)
      BY <1>2, <2>2, <2>3 DEF Fit, Fits
    <2>5. Certified(files', certs', wrecked)
      BY <1>2, <2>1, <2>2, <2>3 DEF Certified
    <2> QED
      BY <1>2, <2>1, <2>4, <2>5, TrackedEnd
  <1> QED
    BY <1>3, <1>4, <1>5, <1>6, <1>7 DEF Services

\* An Agent that is killed leaves the domains of its job apart, and no other.
LEMMA TrackedCrash == Inv /\ Tracked /\ Crash => Tracked'
  <1> SUFFICES ASSUME Inv, Tracked, Crash PROVE Tracked'
    OBVIOUS
  <1>1. /\ UNCHANGED <<sites, files, certs>> /\ ~nginx' /\ phase' = "idle"
        /\ wrecked' = wrecked \cup JobDomains
    BY DEF Crash, Halt, rows, disk
  <1>2. Distinct(sites) /\ Certified(files, certs, wrecked')
    BY <1>1, LeavingOut DEF Tracked, RowsDistinct, CertsTrack
  <1>3. Fit(files, sites, wrecked')
    <2>1. CASE WithJob
      BY <1>1, <2>1, JobOthers DEF Tracked, FilesTrack
    <2>2. CASE ~WithJob
      BY <1>1, <2>2, LeavingOut DEF Tracked, FilesTrack
    <2> QED
      BY <2>1, <2>2
  <1> QED
    BY <1>1, <1>2, <1>3, TrackedEnd

\* Every step keeps files, certificates, pools and what nginx serves with the
\* rows, whatever fails.
LEMMA TrackedStep == Inv /\ Inv' /\ Tracked /\ [Next]_vars => Tracked'
  <1> SUFFICES ASSUME Inv, Inv', Tracked, [Next]_vars PROVE Tracked'
    OBVIOUS
  <1>1. CASE Request
    BY <1>1, TrackedRequest
  <1>2. CASE Forward
    BY <1>2, TrackedSync, TrackedSkip, TrackedFiles, TrackedPooling, TrackedReload, TrackedRefused,
       TrackedTidy
       DEF Forward
  <1>3. CASE Backward
    BY <1>3, TrackedRefused, TrackedUnrowed DEF Backward
  <1>4. CASE Services
    BY <1>4, TrackedServices
  <1>5. CASE NginxEnds
    BY <1>5, TrackedQuiet DEF NginxEnds, rows, disk, history
  <1>6. CASE Crash
    BY <1>6, TrackedCrash
  <1>7. CASE UNCHANGED vars
    BY <1>7, TrackedQuiet DEF vars, rows, disk, processes, history
  <1> QED
    BY <1>1, <1>2, <1>3, <1>4, <1>5, <1>6, <1>7 DEF Next

\* Between requests that is all that ServedAsConfigured asks for.
LEMMA TrackedServes == Inv /\ Tracked => ServedAsConfigured
  <1> SUFFICES ASSUME Inv, Tracked, phase = "idle" PROVE ServedAsConfigured
    BY DEF ServedAsConfigured, SitesServed, OrphansExplained, TlsFilesHaveCertificates, PoolsServe
  <1>1. /\ Distinct(sites) /\ Fit(files, sites, wrecked) /\ Certified(files, certs, wrecked)
        /\ nginx => Fit(live, sites, wrecked) /\ Pooled(sites, pools, wrecked)
    BY DEF Tracked, RowsDistinct, FilesTrack, LiveTracks, CertsTrack, PoolsTrack, WithJob, JobPhases
  <1>2. \A id \in RowIds : sites[id] # None /\ sites[id].domain \in Domains
    BY RowDomainsTyped DEF RowIds, RowDomains
  <1>3. SitesServed
    BY <1>1, <1>2, FitExact DEF SitesServed, RowIds
  <1>4. OrphansExplained
    <2> SUFFICES ASSUME NEW d \in Domains \ RowDomains, d \notin wrecked
                 PROVE  files[d] = None /\ live[d] = None
      BY DEF OrphansExplained
    <2>1. \A id \in Ids : sites[id] # None => sites[id].domain # d
      BY DEF RowDomains, RowIds
    <2>2. files[d] = None /\ (nginx => live[d] = None)
      BY <1>1, <2>1, FitNone
    <2>3. ~nginx => live[d] = None
      BY DEF Inv, StoresTyped, Nothing
    <2> QED
      BY <2>2, <2>3
  <1>5. TlsFilesHaveCertificates
    BY <1>1 DEF TlsFilesHaveCertificates, Certified
  <1>6. PoolsServe
    <2> SUFFICES ASSUME nginx, NEW d \in RowDomains \ wrecked PROVE live[d].php \in pools \cup {NoPhp}
      BY DEF PoolsServe
    <2>1. PICK id \in RowIds : sites[id].domain = d
      BY DEF RowDomains
    <2>2. AsServed(live[d]) = AsServed(sites[id])
      BY <1>1, <1>2, <2>1, FitExact DEF RowIds
    <2>3. live[d].php = sites[id].php
      BY <2>2 DEF AsServed
    <2> QED
      BY <1>1, <2>1, <2>3 DEF Pooled, RowIds
  <1> QED
    BY <1>3, <1>4, <1>5, <1>6 DEF ServedAsConfigured

-----------------------------------------------------------------------------
(* The theorems.                                                             *)

\* The inductive invariant holds in every state.
THEOREM Invariance == Spec => []Inv
  BY InvInit, InvStep, PTL DEF Spec

\* Every value has its type, and a job is at hand exactly in its phases.
THEOREM TypeCorrect == Spec => []TypeOK
  <1>1. Inv => TypeOK
    BY DEF Inv, StoresTyped, JobTyped, NamedByDomain, Rendered, TypeOK
  <1> QED
    BY <1>1, Invariance, PTL

\* Between requests a shared Site exists and is shared under its own domain,
\* whatever was moved, removed, refused or undone.
THEOREM SharesCurrent == Spec => []SharedCurrent
  <1>1. Inv => SharedCurrent
    BY DEF Inv, SharesFollow, SharedCurrent, JobPhases
  <1> QED
    BY <1>1, Invariance, PTL

\* Between requests the hosts entries are those of the rows, unless the
\* helper could not put them back.
THEOREM HostsCurrent == Spec => []HostsFollow
  <1>1. Inv => HostsFollow
    BY RowDomainsTyped DEF Inv, HostsTrack, HostsFollow, JobPhases
  <1> QED
    BY <1>1, Invariance, PTL

\* Between requests nginx serves what the rows say and nothing else, over
\* HTTPS only with a certificate and with PHP only with its pool, whatever
\* steps of whatever requests failed; only domains that a crash, a failed
\* recovery or a failed clean-up has left apart are excused.
THEOREM ServesRows == Spec => []ServedAsConfigured
  BY Invariance, TrackedInit, TrackedStep, TrackedServes, PTL DEF Spec
=============================================================================
