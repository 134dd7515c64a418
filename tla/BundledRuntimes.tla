--------------------------- MODULE BundledRuntimes ---------------------------
(***************************************************************************)
(* The PHP Runtimes that come with the App.  Each start of the Desktop     *)
(* fills in those that are missing and were not removed on purpose, while  *)
(* an Agent that is still running may install, remove and select Runtimes. *)
(*                                                                         *)
(* A Runtime is a directory: it counts as installed as soon as it exists.  *)
(* Archives are unpacked into a staging directory that every installer of  *)
(* the version uses (on Windows the Desktop copies into one of its own).   *)
(***************************************************************************)
EXTENDS Naturals, Sequences

CONSTANTS
  Windows,
  Versions,    \* PHP versions
  Bundled,     \* those in the App, in the order of its manifest
  Default,     \* the manifest's default
  DemoPhp,     \* what the demo Site asks for
  None,
  MaxLaunches, MaxRequests, MaxFaults   \* bounds

VARIABLES
  dirs,        \* runtimes/php/<version>: "none", "part" of it, or "whole"
  staging,     \* the staging directories, by owner of the content
  removed,     \* the markers in .removed
  receipts,    \* versions with a package receipt
  active,      \* the global PHP
  used,        \* versions that Sites ask for
  procs,       \* the Desktop's start and the Agent's request
  asGone,      \* history: versions removed while nobody installed them, and nothing since
  shaky,       \* history: versions with a failed removal or a shared staging directory
  confused,    \* history: the link was chosen or set while a version was being deleted
  launches, requests, faults

bounds == <<launches, requests, faults>>
vars == <<dirs, staging, removed, receipts, active, used, procs, asGone, shaky, confused,
          bounds>>

Procs == {"desktop", "agent"}
Idle == [step |-> "idle", version |-> None, left |-> <<>>, activate |-> FALSE]

Init ==
  /\ dirs = [v \in Versions |-> "none"] /\ removed = {} /\ receipts = {}
  /\ staging = [p \in Procs |-> [v \in Versions |-> [owner |-> None, whole |-> FALSE]]]
  /\ active = None /\ used = {}
  /\ procs = [p \in Procs |-> Idle]
  /\ asGone = {} /\ shaky = {} /\ confused = FALSE
  /\ launches = 0 /\ requests = 0 /\ faults = 0

Installed(v) == dirs[v] # "none"
InstalledVersions == {v \in Versions : Installed(v)}

\* .staging/php-<version>, or .<version>.installing beside the Runtimes.
Area(p) == IF Windows THEN p ELSE "agent"

Step(p, step) == procs' = [procs EXCEPT ![p].step = step]
End(p) == procs' = [procs EXCEPT ![p] = Idle]

-----------------------------------------------------------------------------
(* The Desktop starts.                                                     *)

Launch ==
  /\ procs["desktop"] = Idle /\ launches < MaxLaunches
  /\ launches' = launches + 1
  /\ procs' = [procs EXCEPT !["desktop"] = [Idle EXCEPT !.step = "package", !.left = Bundled]]
  /\ UNCHANGED <<dirs, staging, removed, receipts, active, used, asGone, shaky, confused,
                 requests, faults>>

ShouldInstallMissing(v) == ~Installed(v)
ShouldInstall(v) == ~Installed(v) /\ v \notin removed

\* An installer of v clears the staging directory and fills it again.
Unpacking(p, v) ==
  LET q == Area(p)
      sharers == {o \in Procs \ {p} : Area(o) = q /\ procs[o].version = v
                                       /\ procs[o].step \in {"unpack", "place"}}
  IN /\ staging' = [staging EXCEPT ![q][v] = [owner |-> p, whole |-> FALSE]]
     /\ shaky' = IF sharers = {} THEN shaky ELSE shaky \cup {v}

NextPackage ==
  /\ procs["desktop"].step = "package" /\ procs["desktop"].left # <<>>
  /\ LET v == Head(procs["desktop"].left)
         next == [procs["desktop"] EXCEPT !.version = v, !.left = Tail(@)]
     IN IF ShouldInstall(v)
        THEN /\ procs' = [procs EXCEPT !["desktop"] = [next EXCEPT !.step = "unpack"]]
             /\ Unpacking("desktop", v)
        ELSE /\ procs' = [procs EXCEPT !["desktop"] = [next EXCEPT !.step = "receipt"]]
             /\ UNCHANGED <<staging, shaky>>
  /\ UNCHANGED <<dirs, removed, receipts, active, used, asGone, confused, bounds>>

Unpack(p) ==
  /\ procs[p].step = "unpack"
  /\ LET q == Area(p)  v == procs[p].version
     IN staging' = [staging EXCEPT ![q][v].whole = (@ \/ staging[q][v].owner = p)]
  /\ Step(p, "place")
  /\ UNCHANGED <<dirs, removed, receipts, active, used, asGone, shaky, confused, bounds>>

\* The rename: it fails over a directory that has appeared meanwhile.
Place(p) ==
  /\ procs[p].step = "place"
  /\ LET q == Area(p)  v == procs[p].version
     IN IF Installed(v) \/ staging[q][v].owner = None
        THEN /\ End(p)
             /\ UNCHANGED <<dirs, staging, receipts, asGone>>
        ELSE /\ dirs' = [dirs EXCEPT ![v] = IF staging[q][v].whole THEN "whole" ELSE "part"]
             /\ staging' = [staging EXCEPT ![q][v] = [owner |-> None, whole |-> FALSE]]
             /\ receipts' = receipts \ {v}
             /\ asGone' = IF p = "agent" THEN asGone \ {v} ELSE asGone
             /\ Step(p, IF procs[p].activate THEN "activate" ELSE "placed")
  /\ UNCHANGED <<removed, active, used, shaky, confused, bounds>>

\* install_tar_gz_with_activation ends by taking the marker away; the copy of
\* the Windows Desktop leaves it as it is.
Placed(p) ==
  /\ procs[p].step = "placed"
  /\ removed' = IF Windows /\ p = "desktop" THEN removed ELSE removed \ {procs[p].version}
  /\ IF p = "desktop" THEN Step(p, "receipt") ELSE End(p)
  /\ UNCHANGED <<dirs, staging, receipts, active, used, asGone, shaky, confused, bounds>>

EnsureReceiptAnyway(v) ==
  receipts' = IF Windows THEN receipts \cup {v} ELSE receipts

EnsureReceipt(v) ==
  receipts' = IF Windows /\ Installed(v) THEN receipts \cup {v} ELSE receipts

Receipt ==
  /\ procs["desktop"].step = "receipt"
  /\ EnsureReceipt(procs["desktop"].version)
  /\ Step("desktop", "package")
  /\ UNCHANGED <<dirs, staging, removed, active, used, asGone, shaky, confused, bounds>>

\* Every package is there: without a global PHP the default becomes it, or any
\* that is installed.  A global PHP that is not there ends the start.
Activate ==
  /\ procs["desktop"].step = "package" /\ procs["desktop"].left = <<>>
  /\ IF active # None
     THEN IF Installed(active) THEN Step("desktop", "demo") ELSE End("desktop")
     ELSE \/ InstalledVersions = {} /\ End("desktop")
          \/ \E v \in IF Installed(Default) THEN {Default} ELSE InstalledVersions :
               procs' = [procs EXCEPT !["desktop"].step = "link", !["desktop"].version = v]
  /\ UNCHANGED <<dirs, staging, removed, receipts, active, used, asGone, shaky, confused, bounds>>

\* The version was there when it was chosen.
Link ==
  /\ procs["desktop"].step = "link"
  /\ active' = procs["desktop"].version
  /\ confused' = (confused \/ procs["agent"].step = "removing")
  /\ Step("desktop", "demo")
  /\ UNCHANGED <<dirs, staging, removed, receipts, used, asGone, shaky, bounds>>

\* Without any Site the demo Site comes (back).
Demo ==
  /\ procs["desktop"].step = "demo"
  /\ used' = IF used = {} THEN {DemoPhp} ELSE used
  /\ End("desktop")
  /\ UNCHANGED <<dirs, staging, removed, receipts, active, asGone, shaky, confused, bounds>>

-----------------------------------------------------------------------------
(* The Agent, one request at a time.                                       *)

Request == procs["agent"] = Idle /\ requests < MaxRequests /\ requests' = requests + 1

InstallPhpRuntime(v) ==
  /\ Request /\ ~Installed(v)
  /\ procs' = [procs EXCEPT !["agent"] =
                 [Idle EXCEPT !.step = "unpack", !.version = v, !.activate = (active = None)]]
  /\ Unpacking("agent", v)
  /\ UNCHANGED <<dirs, removed, receipts, active, used, asGone, confused, launches, faults>>

SwitchInstalled ==
  /\ procs["agent"].step = "activate"
  /\ active' = procs["agent"].version
  /\ Step("agent", "placed")
  /\ UNCHANGED <<dirs, staging, removed, receipts, used, asGone, shaky, confused, bounds>>

SetGlobalPhp(v) ==
  /\ Request /\ Installed(v)
  /\ active' = v
  /\ UNCHANGED <<dirs, staging, removed, receipts, used, procs, asGone, shaky, confused,
                 launches, faults>>

\* Sites come and go, with any PHP.
ChangeSites(vs) ==
  /\ Request
  /\ used' = vs
  /\ UNCHANGED <<dirs, staging, removed, receipts, active, procs, asGone, shaky, confused,
                 launches, faults>>

\* RemovePhpRuntime: refused while a Site asks for it; the marker comes first.
RemovePhpRuntime(v) ==
  /\ Request /\ v \notin used
  /\ procs' = [procs EXCEPT !["agent"] = [Idle EXCEPT !.step = "mark", !.version = v]]
  /\ UNCHANGED <<dirs, staging, removed, receipts, active, used, asGone, shaky, confused,
                 launches, faults>>

Mark ==
  /\ procs["agent"].step = "mark"
  /\ removed' = removed \cup {procs["agent"].version}
  /\ Step("agent", "remove")
  /\ UNCHANGED <<dirs, staging, receipts, active, used, asGone, shaky, confused, bounds>>

\* The global PHP stays, and so does what is not there: the marker is taken
\* back.  A version that was removed before loses its marker this way.
Refusing(v) == active = v \/ ~Installed(v)

CheckRemoval ==
  /\ procs["agent"].step = "remove"
  /\ LET v == procs["agent"].version
     IN IF Refusing(v)
        THEN removed' = removed \ {v} /\ asGone' = asGone \ {v} /\ End("agent")
        ELSE Step("agent", "removing") /\ UNCHANGED <<removed, asGone>>
  /\ UNCHANGED <<dirs, staging, receipts, active, used, shaky, confused, bounds>>

\* The Desktop is putting the version there.
Arriving(v) ==
  procs["desktop"].version = v /\ procs["desktop"].step \in {"unpack", "place", "placed"}

Remove ==
  /\ procs["agent"].step = "removing"
  /\ LET v == procs["agent"].version
     IN /\ dirs' = [dirs EXCEPT ![v] = "none"]
        /\ receipts' = receipts \ {v}
        /\ asGone' = IF Arriving(v) \/ v \notin removed THEN asGone ELSE asGone \cup {v}
  /\ confused' = (confused \/ procs["desktop"].step = "link")
  /\ End("agent")
  /\ UNCHANGED <<staging, removed, active, used, shaky, bounds>>

-----------------------------------------------------------------------------
(* Faults.                                                                 *)

Fault == faults < MaxFaults /\ faults' = faults + 1

\* The removal fails half way: what is left still counts as installed.
RemoveFails ==
  /\ procs["agent"].step = "removing" /\ Fault
  /\ LET v == procs["agent"].version
     IN /\ dirs' = [dirs EXCEPT ![v] = "part"]
        /\ receipts' \in {receipts, receipts \ {v}}
        /\ removed' \in {removed, removed \ {v}}
        /\ shaky' = shaky \cup {v}
        /\ asGone' = asGone \ {v}
  /\ End("agent")
  /\ UNCHANGED <<staging, active, used, confused, launches, requests>>

\* A process dies, or its step fails: on the way what it has unpacked stays.
Stop(p) ==
  /\ procs[p] # Idle /\ Fault
  /\ End(p)
  /\ UNCHANGED <<dirs, staging, removed, receipts, active, used, asGone, shaky, confused,
                 launches, requests>>

\* Windows writes the link by removing it first.
LinkLost ==
  /\ Windows /\ procs["agent"] = Idle /\ active # None /\ Fault
  /\ active' = None
  /\ UNCHANGED <<dirs, staging, removed, receipts, used, procs, asGone, shaky, confused,
                 launches, requests>>

Done ==
  /\ launches = MaxLaunches /\ \A p \in Procs : procs[p] = Idle
  /\ UNCHANGED vars

Next ==
  \/ Launch \/ NextPackage \/ Receipt \/ Activate \/ Link \/ Demo
  \/ \E p \in Procs : Unpack(p) \/ Place(p) \/ Placed(p) \/ Stop(p)
  \/ \E v \in Versions : InstallPhpRuntime(v) \/ SetGlobalPhp(v) \/ RemovePhpRuntime(v)
  \/ SwitchInstalled \/ Mark \/ CheckRemoval \/ Remove \/ RemoveFails \/ LinkLost \/ Done
  \/ \E vs \in SUBSET Versions : ChangeSites(vs)

Spec == Init /\ [][Next]_vars

-----------------------------------------------------------------------------
TypeOK ==
  /\ dirs \in [Versions -> {"none", "part", "whole"}]
  /\ active \in Versions \cup {None}
  /\ removed \subseteq Versions /\ receipts \subseteq InstalledVersions

\* A version that the Agent said it removed is not there until the user installs
\* it again, however often the Desktop starts: as long as its removal is not
\* asked for once more, and no start was putting it there meanwhile (which may also
\* take the marker of the removal away).
RemovedStays == \A v \in asGone : ~Installed(v)

\* Wherever a start or an install stops, a Runtime that counts as installed is
\* all there, but for one whose removal failed or that two installers unpacked
\* into the same place.
InstalledIsWhole == \A v \in Versions \ shaky : dirs[v] # "part"

\* The global PHP is there, unless the Desktop chose it while the Agent, which had
\* seen that it was not the global one, was deleting it.
ActiveIsInstalled == active # None /\ ~confused => Installed(active)

PhpIsThere == RemovedStays /\ InstalledIsWhole /\ ActiveIsInstalled
=============================================================================
