----------------------------- MODULE SiteHomes -----------------------------
(***************************************************************************)
(* The Site Home: every directory in it, and every symbolic link to one,   *)
(* is a Site.  A request compares the directories with the rows, replaces  *)
(* the rows and applies the difference to nginx as one batch; when that    *)
(* fails, it puts the rows back.  The Sites a user added one by one (the   *)
(* linked ones) share the domains, the nginx and the PHP pools.            *)
(*                                                                         *)
(* The requests hold the lifecycle lock, so one job is at hand; meanwhile  *)
(* the user changes directories, and the Agent may be killed.              *)
(***************************************************************************)
EXTENDS Naturals, FiniteSets

CONSTANTS
  Homes, FirstHome,
  Names,          \* names of directory entries, numbers in their sorted order
  DomainOf,       \* the domain made of a name; two names may share one
  Outside,        \* a directory elsewhere that links lead to
  Bad,            \* a directory that create_site rejects
  Php, DefaultPhp,
  Linked, None,
  MaxChanges, MaxFaults   \* bounds: directory entries changed, faults

VARIABLES
  home,        \* app_settings.site_home
  entries,     \* entries[h][n]: the directory that name n of home h leads to
  rows,        \* sites with source = home
  linked,      \* domains of the linked Sites
  files,       \* what config/sites/<domain>.conf was rendered from
  certificates,
  domains,     \* domains in the hosts file
  loaded,      \* what the supervised nginx serves, None when there is none
  pools,       \* PHP versions that run
  shares,      \* Sites shared in the LAN
  phase, job,
  damage,      \* history: "none", "leftovers" (files of no Site), "all"
  changes, mishaps

vars == <<home, entries, rows, linked, files, certificates, domains, loaded, pools, shares,
          phase, job, damage, changes, mishaps>>
outside == <<linked, changes>>

Domains == {DomainOf[n] : n \in Names}
NoPhp == None
Nothing == [home |-> FirstHome, rows |-> {}]
\* old: the rows before; kept: home and rows when SaveSiteHome began.
NoJob == [kind |-> "none", old |-> {}, fresh |-> {}, started |-> {}, kept |-> Nothing]
Dom(site) == DomainOf[site.name]
DomsOf(sites) == {Dom(s) : s \in sites}
SecuredOf(sites) == {Dom(s) : s \in {t \in sites : t.secured}}
PhpOf(sites) == {s.php : s \in sites} \ {NoPhp}
Running == loaded # None
Mishap == mishaps < MaxFaults /\ mishaps' = mishaps + 1
NoMishap == UNCHANGED <<mishaps, damage>>

(***************************************************************************)
(* What the directories say                                                *)
(***************************************************************************)
\* Two links may lead to one directory, two names to one domain; the first in
\* order wins, and a linked Site keeps its domain.
Listed[n \in Names] ==
  /\ entries[home][n] # None
  /\ DomainOf[n] \notin linked
  /\ \A m \in Names : m < n /\ Listed[m] =>
       DomainOf[m] # DomainOf[n] /\ entries[home][m] # entries[home][n]

Recognised == {n \in Names : entries[home][n] = Bad} = {}

Fresh(path) ==
  CHOOSE k \in 0..4 :
    /\ \A s \in shares \cup job.kept.rows \cup job.old : s.path = path => s.id # k
    /\ \A j \in 0..4 : j < k => \E s \in shares \cup job.kept.rows \cup job.old : s.path = path /\ s.id = j

\* Fault: every Site that is listed is a new one.
AllNew ==
  {[id |-> Fresh(entries[home][n]), name |-> n, path |-> entries[home][n], php |-> DefaultPhp,
    secured |-> FALSE] : n \in {m \in Names : Listed[m]}}

\* A Site is known by its directory; its settings stay.
Desired ==
  {LET path == entries[home][n]
       known == {s \in rows : s.path = path}
   IN IF known # {} THEN [(CHOOSE s \in known : TRUE) EXCEPT !.name = n]
      ELSE [id |-> Fresh(path), name |-> n, path |-> path, php |-> DefaultPhp, secured |-> FALSE]
   : n \in {m \in Names : Listed[m]}}

\* Shared Sites are known by their id, never by a domain used again.
SharesOf(sites) ==
  {[id |-> s.id, path |-> s.path, name |-> s.name] :
     s \in {t \in sites : \E x \in shares : x.path = t.path /\ x.id = t.id}}

(***************************************************************************)
(* Requests                                                                *)
(***************************************************************************)
Resting == phase = "idle"
To(p) == phase' = p /\ UNCHANGED job
Done == phase' = "idle" /\ job' = NoJob
\* "refused": the answer of a SaveSiteHome that has failed.
Finish(known) ==
  IF job.kind = "undo"
    THEN phase' = "refused" /\ job' = [NoJob EXCEPT !.kept = [home |-> job.kept.home, rows |-> known]]
  ELSE Done

ListSites ==
  /\ Resting
  /\ phase' = "scanning" /\ job' = [NoJob EXCEPT !.kind = "list"]
  /\ UNCHANGED <<outside, home, entries, rows, files, certificates, domains, loaded, pools, shares, damage, mishaps>>

StartAll ==
  /\ Resting
  /\ phase' = "scanning" /\ job' = [NoJob EXCEPT !.kind = "start"]
  /\ UNCHANGED <<outside, home, entries, rows, files, certificates, domains, loaded, pools, shares, damage, mishaps>>

SaveSiteHome(h) ==
  /\ Resting
  /\ home' = h
  /\ phase' = "scanning"
  /\ job' = [NoJob EXCEPT !.kind = "save", !.kept = [home |-> home, rows |-> rows]]
  /\ UNCHANGED <<outside, entries, rows, files, certificates, domains, loaded, pools, shares,
                 damage, mishaps>>

\* The rows change before anything is applied; a Home that has not changed
\* only brings the shares up to date.
Scan ==
  /\ phase = "scanning"
  /\ Recognised
  /\ IF Desired = rows THEN To("sharing") /\ UNCHANGED rows
     ELSE /\ rows' = Desired
          /\ phase' = "resolving"
          /\ job' = [job EXCEPT !.old = rows]
  /\ UNCHANGED <<outside, home, entries, files, certificates, domains, loaded, pools, shares,
                 damage, mishaps>>

\* A failed SaveSiteHome puts the home back and synchronises once more,
\* whatever comes of that.
Answer(known) ==
  IF job.kind = "save"
    THEN /\ home' = job.kept.home
         /\ phase' = "scanning"
         /\ job' = [NoJob EXCEPT !.kind = "undo", !.kept = [home |-> job.kept.home, rows |-> known]]
  ELSE UNCHANGED home /\ Finish(known)

\* One bad directory fails every request that synchronises.
ScanFails ==
  /\ phase = "scanning"
  /\ ~Recognised
  /\ Answer(job.kept.rows)
  /\ UNCHANGED <<outside, entries, rows, files, certificates, domains, loaded, pools, shares,
                 damage, mishaps>>

Resolve ==
  /\ phase = "resolving"
  /\ domains' = DomsOf(rows) \cup linked
  /\ To("preparing")
  /\ UNCHANGED <<outside, home, entries, rows, files, certificates, loaded, pools, shares,
                 damage, mishaps>>

\* apply_site_config_batch up to the files: missing certificates, and the PHP
\* versions that are not yet running.
Prepare ==
  /\ phase = "preparing"
  /\ certificates' = certificates \cup SecuredOf(rows)
  /\ pools' = IF Running THEN pools \cup PhpOf(rows) ELSE pools
  /\ phase' = "applying"
  /\ job' = [job EXCEPT !.fresh = SecuredOf(rows) \ certificates, !.started = pools' \ pools]
  /\ UNCHANGED <<outside, home, entries, rows, files, domains, loaded, shares, damage,
                 mishaps>>

\* The hosts helper, a certificate, a PHP version or its start may fail; what
\* the batch has made of them is removed again.
GivesUp ==
  /\ phase \in {"resolving", "preparing"}
  /\ To("reverting")
  /\ UNCHANGED <<outside, home, entries, rows, files, certificates, domains, loaded, pools, shares, damage, mishaps>>

\* Every file concerned is removed before the new ones are written.
Written ==
  [d \in Domains |->
     IF d \in DomsOf(rows) THEN CHOOSE s \in rows : Dom(s) = d
     ELSE IF d \in DomsOf(job.old) THEN None ELSE files[d]]

Apply ==
  /\ phase = "applying"
  /\ files' = Written
  /\ loaded' = IF Running THEN Written ELSE None
  /\ To("retiring")
  /\ UNCHANGED <<outside, home, entries, rows, certificates, domains, pools, shares, damage,
                 mishaps>>

Partly(new) ==
  {f \in [Domains -> {files[d] : d \in Domains} \cup {new[d] : d \in Domains} \cup {None}] :
     \A d \in Domains : f[d] \in IF new[d] = files[d] THEN {files[d]} ELSE {files[d], new[d], None}}

\* A write, nginx -t or the reload fails: the snapshot is written back, and
\* nginx goes on with what it had.
ApplyFails ==
  /\ phase = "applying"
  /\ \/ UNCHANGED files /\ NoMishap
     \/ files' \in Partly(Written) /\ Mishap /\ damage' = "all"
  /\ certificates' = certificates \ job.fresh
  /\ pools' = pools \ (job.started \ PhpOf(job.old))
  /\ To("reverting")
  /\ UNCHANGED <<outside, home, entries, rows, domains, loaded, shares>>

\* After the reload: certificates of Sites no longer secured, PHP versions no
\* longer used unless nginx still drains.
Retire ==
  /\ phase = "retiring"
  /\ certificates' = certificates \ (SecuredOf(job.old) \ SecuredOf(rows))
  /\ pools' \in {pools, pools \ (PhpOf(job.old) \ PhpOf(rows))}
  /\ To("sharing")
  /\ UNCHANGED <<outside, home, entries, rows, files, domains, loaded, shares, damage,
                 mishaps>>

Share ==
  /\ phase = "sharing"
  /\ shares' = SharesOf(rows)
  /\ IF job.kind = "start" THEN To("starting") ELSE Finish(job.kept.rows)
  /\ UNCHANGED <<outside, home, entries, rows, files, certificates, domains, loaded, pools,
                 damage, mishaps>>

\* Stopping a share that has lost its last Site may report an error: the
\* request fails although all is applied.
ShareFails ==
  /\ phase = "sharing"
  /\ shares # {} /\ SharesOf(rows) = {}
  /\ shares' = {}
  /\ Mishap
  /\ Answer({})
  /\ UNCHANGED <<outside, entries, rows, files, certificates, domains, loaded, pools, damage>>

Reverted == job.old

\* The rows go back, then the hosts entries.
Revert ==
  /\ phase = "reverting"
  /\ rows' = Reverted
  /\ \/ domains' = DomsOf(job.old) \cup linked /\ NoMishap /\ Answer(job.kept.rows)
     \/ UNCHANGED domains /\ Mishap /\ damage' = "all" /\ Answer(job.kept.rows)
  /\ UNCHANGED <<outside, entries, files, certificates, loaded, pools, shares>>

RevertFails ==
  /\ phase = "reverting"
  /\ Mishap /\ damage' = "all"
  /\ Answer({})
  /\ UNCHANGED <<outside, entries, rows, files, certificates, domains, loaded, pools, shares>>

(***************************************************************************)
(* Starting and stopping the Web services                                  *)
(***************************************************************************)
Rendered ==
  [d \in Domains |-> IF d \in DomsOf(rows) THEN CHOOSE s \in rows : Dom(s) = d
                     ELSE IF d \in linked THEN Linked ELSE files[d]]

\* Files of no Site are left alone.  What runs already is not started.
Launch ==
  /\ phase = "starting"
  /\ Running \/ rows # {} \/ linked # {}
  /\ IF Running THEN UNCHANGED <<files, certificates, domains, loaded, pools, damage>>
     ELSE /\ domains' = DomsOf(rows) \cup linked
          /\ files' = Rendered /\ loaded' = Rendered
          /\ certificates' = certificates \cup SecuredOf(rows)
          /\ pools' = PhpOf(rows)
          /\ damage' = IF damage = "all" THEN "leftovers" ELSE damage
  /\ Done
  /\ UNCHANGED <<outside, home, entries, rows, shares, mishaps>>

LaunchFails ==
  /\ phase = "starting"
  /\ ~Running
  /\ domains' \in {domains, DomsOf(rows) \cup linked}
  /\ \/ rows \cup linked # {} /\ files' = Rendered
        /\ certificates' = certificates \cup SecuredOf(rows)
     \/ UNCHANGED <<files, certificates>>
  /\ pools' = {}
  /\ Done
  /\ UNCHANGED <<outside, home, entries, rows, loaded, shares, damage, mishaps>>

StopAll ==
  /\ Resting
  /\ loaded' = None /\ pools' = {} /\ shares' = {}
  /\ UNCHANGED <<outside, home, entries, rows, files, certificates, domains, phase, job,
                 damage, mishaps>>

(***************************************************************************)
(* Requests for one Site, as Sites has them, and the user                  *)
(***************************************************************************)
With(f, d, value) == [f EXCEPT ![d] = value]

SetSite(site, php, secured) ==
  /\ Resting
  /\ LET new == [site EXCEPT !.php = php, !.secured = secured]
         others == rows \ {site}
     IN /\ new # site /\ damage = "none"
        /\ rows' = others \cup {new}
        /\ files' = With(files, Dom(site), new)
        /\ loaded' = IF Running THEN files' ELSE None
        /\ certificates' = SecuredOf(rows') 
        /\ pools' = IF Running THEN (pools \ ({site.php} \ PhpOf(others))) \cup PhpOf({new})
                    ELSE pools
  /\ UNCHANGED <<outside, home, entries, domains, shares, phase, job, damage, mishaps>>

ShareSite(site) ==
  /\ Resting
  /\ shares' = shares \cup {[id |-> site.id, path |-> site.path, name |-> site.name]}
  /\ UNCHANGED <<outside, home, entries, rows, files, certificates, domains, loaded, pools, phase,
                 job, damage, mishaps>>

AddLinked(d) ==
  /\ Resting /\ damage = "none"
  /\ d \notin linked \cup DomsOf(rows)
  /\ linked' = linked \cup {d} /\ domains' = domains \cup {d}
  /\ files' = With(files, d, Linked)
  /\ loaded' = IF Running THEN files' ELSE None
  /\ UNCHANGED <<home, entries, rows, certificates, pools, shares, phase, job,
                 damage, changes, mishaps>>

\* Makes, links, renames or removes a directory at any time.
Change(h, n) ==
  /\ changes < MaxChanges /\ changes' = changes + 1
  /\ \E path \in {None, Bad, Outside, <<h, n>>} \ {entries[h][n]} :
       entries' = [entries EXCEPT ![h][n] = path]
  /\ UNCHANGED <<home, rows, linked, files, certificates, domains, loaded, pools, shares,
                 phase, job, damage, mishaps>>

Read ==
  /\ phase = "refused"
  /\ Done
  /\ UNCHANGED <<outside, home, entries, rows, files, certificates, domains, loaded, pools, shares, damage, mishaps>>

\* The next Agent knows no nginx, no pool and no share.
Crash ==
  /\ Mishap
  /\ files' \in IF phase = "applying" THEN Partly(Written) ELSE {files}
  /\ loaded' = None /\ pools' = {} /\ shares' = {}
  /\ damage' = IF phase \in {"resolving", "preparing", "applying", "retiring", "reverting"}
                 THEN "all" ELSE damage
  /\ Done
  /\ UNCHANGED <<outside, home, entries, rows, certificates, domains>>

Init ==
  /\ home = FirstHome
  /\ entries = [h \in Homes |-> [n \in Names |-> None]]
  /\ rows = {} /\ linked = {}
  /\ files = [d \in Domains |-> None]
  /\ certificates = {} /\ domains = {}
  /\ loaded = None /\ pools = {} /\ shares = {}
  /\ phase = "idle" /\ job = NoJob
  /\ damage = "none" /\ changes = 0 /\ mishaps = 0

\* Every change and every fault has been used up.
Finished == phase = "idle" /\ changes = MaxChanges /\ UNCHANGED vars

Next ==
  \/ ListSites \/ StartAll \/ \E h \in Homes \ {home} : SaveSiteHome(h)
  \/ Scan \/ ScanFails \/ Resolve \/ Prepare \/ GivesUp \/ Apply \/ ApplyFails
  \/ Retire \/ Share \/ ShareFails \/ Revert \/ RevertFails
  \/ Launch \/ LaunchFails \/ StopAll
  \/ \E s \in rows : ShareSite(s) \/ \E v \in Php \cup {NoPhp}, b \in BOOLEAN : SetSite(s, v, b)
  \/ \E d \in Domains : AddLinked(d)
  \/ \E h \in Homes, n \in Names : Change(h, n)
  \/ Read \/ Crash \/ Finished

Spec == Init /\ [][Next]_vars

(***************************************************************************)
(* Properties                                                              *)
(***************************************************************************)
TypeOK ==
  /\ home \in Homes
  /\ linked \subseteq Domains /\ certificates \subseteq Domains /\ domains \subseteq Domains
  /\ \A s \in rows : s.name \in Names /\ s.php \in Php \cup {NoPhp} /\ s.secured \in BOOLEAN
  /\ pools \subseteq Php
  /\ phase \in {"idle", "scanning", "resolving", "preparing", "applying", "retiring", "sharing",
                "reverting", "starting", "refused"}
  /\ damage \in {"none", "leftovers", "all"}

\* A linked Site keeps its domain and its file whatever appears in the Home.
LinkedUntouched ==
  /\ linked \cap DomsOf(rows) = {}
  /\ damage # "all" => \A d \in linked : files[d] = Linked
  /\ Cardinality(DomsOf(rows)) = Cardinality(rows)

\* Between requests the files, the certificates, the hosts entries, the nginx
\* that runs and its PHP pools are those of the rows, whether the last
\* synchronisation was applied or undone; a crash in the middle leaves them
\* apart until the Web services start again, and files of removed Sites for good
\* (agent 3320-3365, services 1107-1255, 3243-3310).
HomeSitesServed ==
  phase = "idle" =>
    /\ LinkedUntouched
    /\ damage # "all" =>
         /\ \A s \in rows : files[Dom(s)] = s
         /\ SecuredOf(rows) \subseteq certificates
         /\ domains = DomsOf(rows) \cup linked
         /\ Running => loaded = files /\ PhpOf(rows) \subseteq pools
    /\ damage = "none" =>
         /\ \A x \in shares : \E s \in rows : s.path = x.path /\ s.id = x.id /\ s.name = x.name
         /\ \A d \in Domains : files[d] # None => d \in DomsOf(rows) \cup linked
         /\ certificates = SecuredOf(rows)

\* A SaveSiteHome that fails leaves the Home and, for every directory that is
\* still there, the Site with its id and settings; only a LAN share that does not
\* stop and a database that does not take the rows back break this
\* (agent 3268-3290, 3345-3365).
FailedSaveKeeps ==
  phase = "refused" =>
    /\ home = job.kept.home
    /\ \A s \in job.kept.rows : (\E t \in rows : t.path = s.path) =>
         \E t \in rows : t.path = s.path /\ t.id = s.id /\ t.php = s.php /\ t.secured = s.secured

\* A Site is shared because a request said so: a synchronisation takes over what
\* was shared by id, and never shares another Site that has got its domain
\* (agent 562-592).
SharedExplicitly ==
  \A x \in shares' :
    \/ \E y \in shares : y.path = x.path /\ y.id = x.id
    \/ \E s \in rows : ShareSite(s)
SharingIsExplicit == [][SharedExplicitly]_vars
=============================================================================
