----------------------------- MODULE MCServices -----------------------------
(***************************************************************************)
(* Components of the Agent and the Desktop that run beside each other and  *)
(* share no state, each on a small instance of its own: part names the one *)
(* whose steps a behaviour takes.  Where Unix and Windows differ, both are *)
(* instances.  x1, x2, ... hold the variables of that component; those it  *)
(* has no use for hold None.                                               *)
(***************************************************************************)
EXTENDS Naturals

CONSTANTS d1, d2, c1, c2, p1, p2, s1, s2, u1, u2, h1, h2, template, beyond, bad, linked, None

VARIABLES part, x1, x2, x3, x4, x5, x6, x7, x8, x9, x10, x11, x12, x13, x14, x15, x16, x17, x18, x19

vars == <<part, x1, x2, x3, x4, x5, x6, x7, x8, x9, x10, x11, x12, x13, x14, x15, x16, x17, x18, x19>>

Managed == [mode |-> "managed", port |-> 1, dir |-> d1]
System == [mode |-> "system", port |-> 2, dir |-> d2]

DatabaseUnix == INSTANCE MariaDb WITH
  Windows <- FALSE, Dirs <- {d1, d2}, DefaultDir <- d1, DefaultSettings <- Managed,
  Choices <- {System}, Configs <- {c1}, Template <- template, MaxFaults <- 1,
  settings <- x1, connection <- x2, custom <- x3, desired <- x4, data <- x5,
  servers <- x6, pidFile <- x7, php <- x8, installed <- x9, child <- x10,
  recovered <- x11, path <- x12, up <- x13, step <- x14, task <- x15, accepted <- x16,
  lastGood <- x17, excused <- x18, faults <- x19

DatabaseWindows == INSTANCE MariaDb WITH
  Windows <- TRUE, Dirs <- {d1, d2}, DefaultDir <- d1, DefaultSettings <- Managed,
  Choices <- {System}, Configs <- {c1}, Template <- template, MaxFaults <- 1,
  settings <- x1, connection <- x2, custom <- x3, desired <- x4, data <- x5,
  servers <- x6, pidFile <- x7, php <- x8, installed <- x9, child <- x10,
  recovered <- x11, path <- x12, up <- x13, step <- x14, task <- x15, accepted <- x16,
  lastGood <- x17, excused <- x18, faults <- x19

Homes == INSTANCE SiteHomes WITH
  Homes <- {d1, d2}, FirstHome <- d1, Names <- 1..2, DomainOf <- <<u1, u2>>,
  Outside <- beyond, Bad <- bad, Php <- {p1}, DefaultPhp <- p1, Linked <- linked,
  MaxChanges <- 2, MaxFaults <- 1, home <- x1, entries <- x2, rows <- x3,
  linked <- x4, files <- x5, certificates <- x6, domains <- x7, loaded <- x8,
  pools <- x9, shares <- x10, phase <- x11, job <- x12, damage <- x13, changes <- x14,
  mishaps <- x15

PhpUnix == INSTANCE PhpSettings WITH
  Windows <- FALSE, Versions <- 1..2, Default <- template, Settings <- {c1},
  MaxSaves <- 2, MaxFaults <- 2, ini <- x1, setting <- x2, generated <- x3,
  master <- x4, strays <- x5, expected <- x6, save <- x7, last <- x8, drifted <- x9,
  suspect <- x10, saves <- x11, mistakes <- x12

PhpWindows == INSTANCE PhpSettings WITH
  Windows <- TRUE, Versions <- 1..2, Default <- template, Settings <- {c1},
  MaxSaves <- 2, MaxFaults <- 2, ini <- x1, setting <- x2, generated <- x3,
  master <- x4, strays <- x5, expected <- x6, save <- x7, last <- x8, drifted <- x9,
  suspect <- x10, saves <- x11, mistakes <- x12

LifecycleUnix == INSTANCE AgentLifecycle WITH
  Windows <- FALSE, Tasks <- {"t1", "t2"}, Kinds <- {"GetStatus", "StartAll"},
  MaxAgents <- 2, MaxRequests <- 2, MaxFaults <- 1, agents <- x1, endpoint <- x2,
  web <- x3, mariadb <- x4, desktop <- x5, startLock <- x6, callers <- x7, tray <- x8,
  displaced <- x9, halted <- x10, requests <- x11, troubles <- x12

LifecycleWindows == INSTANCE AgentLifecycle WITH
  Windows <- TRUE, Tasks <- {"t1"}, Kinds <- {"GetStatus", "StartAll", "StopAll"},
  MaxAgents <- 2, MaxRequests <- 2, MaxFaults <- 1, agents <- x1, endpoint <- x2,
  web <- x3, mariadb <- x4, desktop <- x5, startLock <- x6, callers <- x7, tray <- x8,
  displaced <- x9, halted <- x10, requests <- x11, troubles <- x12

Lan == INSTANCE LanShare WITH
  Sites <- {s1, s2}, Domains <- {"a", "b", "c"}, Ports <- {1}, Connections <- {c1},
  MaxChanges <- 4, registered <- x1, info <- x2, allowed <- x3, accepts <- x4,
  conns <- x5, changes <- x6

TerminalMac == INSTANCE TerminalIntegration WITH
  Windows <- FALSE, NodeShims <- {"node", "npm"}, Versions <- 1..1,
  Own <- <<"own 1", "own 2">>, Herd <- {"herd 1", "herd 2"}, Bin <- "bin",
  MaxChanges <- 4, MaxFaults <- 2, profile <- x1, rc <- x2, path <- x3, backup <- x4,
  shims <- x5, installed <- x6, selected <- x7, op <- x8, herd <- x9,
  overwritten <- x10, torn <- x11, changes <- x12, faults <- x13

TerminalWindows == INSTANCE TerminalIntegration WITH
  Windows <- TRUE, NodeShims <- {"node", "npm"}, Versions <- 1..1,
  Own <- <<"own 1", "own 2">>, Herd <- {"herd 1", "herd 2"}, Bin <- "bin",
  MaxChanges <- 4, MaxFaults <- 2, profile <- x1, rc <- x2, path <- x3, backup <- x4,
  shims <- x5, installed <- x6, selected <- x7, op <- x8, herd <- x9,
  overwritten <- x10, torn <- x11, changes <- x12, faults <- x13

Hosts == INSTANCE HostsFile WITH
  Lines <- {u1, u2}, FirstLine <- u1, Domains <- {d1}, Helpers <- {h1, h2},
  MaxSyncs <- 3, MaxFaults <- 2, mine <- x1, hosts <- x2, backup <- x3, helper <- x4,
  agent <- x5, connect <- x6, told <- x7, overlapped <- x8, unsure <- x9, lost <- x10,
  syncs <- x11, faults <- x12

Ca == INSTANCE LocalCa WITH
  Domains <- {d1}, Callers <- {c1, c2}, MaxCas <- 2, MaxRuns <- 3, MaxFaults <- 2,
  ca <- x1, certs <- x2, callers <- x3, lock <- x4, trusted <- x5, secured <- x6,
  raced <- x7, lost <- x8, made <- x9, runs <- x10, faults <- x11

BundledMac == INSTANCE BundledRuntimes WITH
  Windows <- FALSE, Versions <- {p1, p2}, Bundled <- <<p1, p2>>, Default <- p2,
  DemoPhp <- p2, MaxLaunches <- 2, MaxRequests <- 3, MaxFaults <- 2, dirs <- x1,
  staging <- x2, removed <- x3, receipts <- x4, active <- x5, used <- x6, procs <- x7,
  asGone <- x8, shaky <- x9, confused <- x10, launches <- x11, requests <- x12,
  faults <- x13

BundledWindows == INSTANCE BundledRuntimes WITH
  Windows <- TRUE, Versions <- {p1, p2}, Bundled <- <<p1, p2>>, Default <- p2,
  DemoPhp <- p2, MaxLaunches <- 2, MaxRequests <- 3, MaxFaults <- 2, dirs <- x1,
  staging <- x2, removed <- x3, receipts <- x4, active <- x5, used <- x6, procs <- x7,
  asGone <- x8, shaky <- x9, confused <- x10, launches <- x11, requests <- x12,
  faults <- x13

Logs == INSTANCE LogRotation WITH
  MaxSize <- 2, Retention <- 3, MaxEntries <- 9, MaxFaults <- 2, log <- x1,
  archives <- x2, step <- x3, at <- x4, written <- x5, late <- x6, expired <- x7,
  faults <- x8

ProcessesUnix == INSTANCE ManagedProcesses WITH
  Windows <- FALSE, Pids <- 1..4, MaxStarts <- 2, MaxFaults <- 1, kind <- x1,
  master <- x2, step <- x3, listed <- x4, current <- x5, asked <- x6, orphans <- x7,
  fresh <- x8, forced <- x9, harmed <- x10, starts <- x11, faults <- x12

ProcessesWindows == INSTANCE ManagedProcesses WITH
  Windows <- TRUE, Pids <- 1..4, MaxStarts <- 2, MaxFaults <- 1, kind <- x1,
  master <- x2, step <- x3, listed <- x4, current <- x5, asked <- x6, orphans <- x7,
  fresh <- x8, forced <- x9, harmed <- x10, starts <- x11, faults <- x12

Packages == INSTANCE ArtifactDownload WITH
  Installer <- FALSE, Segmented <- FALSE, Size <- 3, Releases <- 1..2, MaxFaults <- 3,
  Absent <- None, newest <- x1, running <- x2, target <- x3, partial <- x4,
  segments <- x5, pending <- x6, at <- x7, wanted <- x8, fetched <- x9,
  cancelled <- x10, outcome <- x11, faultless <- x12, failures <- x13, spoiled <- x14,
  interrupted <- x15, mishaps <- x16

Installers == INSTANCE ArtifactDownload WITH
  Installer <- TRUE, Segmented <- TRUE, Size <- 3, Releases <- 1..2, MaxFaults <- 2,
  Absent <- None, newest <- x1, running <- x2, target <- x3, partial <- x4,
  segments <- x5, pending <- x6, at <- x7, wanted <- x8, fetched <- x9,
  cancelled <- x10, outcome <- x11, faultless <- x12, failures <- x13, spoiled <- x14,
  interrupted <- x15, mishaps <- x16

OffersMac == INSTANCE RuntimeOffers WITH
  Windows <- FALSE, OsVersion <- 1, App <- 1, Protocol <- 40, Versions <- {p1, p2},
  Listed <- {p1}, EntryFlaws <- {}, ReleaseFlaws <- {"url"}, DocumentFlaws <- {"product"},
  MaxBuilds <- 2, MaxPublished <- 1, MaxSequence <- 1, MaxTime <- 0, built <- x1,
  feed <- x2, accepted <- x3, dirs <- x4, removed <- x5, receipts <- x6,
  operations <- x7, bundle <- x8, clock <- x9, published <- x10, guessed <- x11,
  taken <- x12

OffersWindows == INSTANCE RuntimeOffers WITH
  Windows <- TRUE, OsVersion <- 1, App <- 1, Protocol <- 40, Versions <- {p1},
  Listed <- {p1}, EntryFlaws <- {"fingerprint"}, ReleaseFlaws <- {"url"},
  DocumentFlaws <- {"product"}, MaxBuilds <- 2, MaxPublished <- 2, MaxSequence <- 2,
  MaxTime <- 1, built <- x1, feed <- x2, accepted <- x3, dirs <- x4, removed <- x5,
  receipts <- x6, operations <- x7, bundle <- x8, clock <- x9, published <- x10,
  guessed <- x11, taken <- x12

-----------------------------------------------------------------------------
\* The variables from one on are not used.
From17 == x17 = None /\ x18 = None /\ x19 = None
From16 == x16 = None /\ From17
From14 == x14 = None /\ x15 = None /\ From16
From13 == x13 = None /\ From14
From12 == x12 = None /\ From13
From9 == x9 = None /\ x10 = None /\ x11 = None /\ From12
From7 == x7 = None /\ x8 = None /\ From9

from17 == <<x17, x18, x19>>
from16 == <<x16, from17>>
from14 == <<x14, x15, from16>>
from13 == <<x13, from14>>
from12 == <<x12, from13>>
from9 == <<x9, x10, x11, from12>>
from7 == <<x7, x8, from9>>

Init ==
  \/ part = "database on Unix" /\ DatabaseUnix!Init
  \/ part = "database on Windows" /\ DatabaseWindows!Init
  \/ part = "Site homes" /\ Homes!Init /\ From16
  \/ part = "PHP settings on Unix" /\ PhpUnix!Init /\ From13
  \/ part = "PHP settings on Windows" /\ PhpWindows!Init /\ From13
  \/ part = "lifecycle on Unix" /\ LifecycleUnix!Init /\ From13
  \/ part = "lifecycle on Windows" /\ LifecycleWindows!Init /\ From13
  \/ part = "LAN sharing" /\ Lan!Init /\ From7
  \/ part = "terminal on macOS" /\ TerminalMac!Init /\ From14
  \/ part = "terminal on Windows" /\ TerminalWindows!Init /\ From14
  \/ part = "hosts file" /\ Hosts!Init /\ From13
  \/ part = "local CA" /\ Ca!Init /\ From12
  \/ part = "bundled Runtimes on macOS" /\ BundledMac!Init /\ From14
  \/ part = "bundled Runtimes on Windows" /\ BundledWindows!Init /\ From14
  \/ part = "log rotation" /\ Logs!Init /\ From9
  \/ part = "processes on Unix" /\ ProcessesUnix!Init /\ From13
  \/ part = "processes on Windows" /\ ProcessesWindows!Init /\ From13
  \/ part = "Runtime packages" /\ Packages!Init /\ From17
  \/ part = "App installer in segments" /\ Installers!Init /\ From17
  \/ part = "Runtime offers on macOS" /\ OffersMac!Init /\ From13
  \/ part = "Runtime offers on Windows" /\ OffersWindows!Init /\ From13

Next ==
  /\ part' = part
  /\ \/ part = "database on Unix" /\ DatabaseUnix!Next
     \/ part = "database on Windows" /\ DatabaseWindows!Next
     \/ part = "Site homes" /\ Homes!Next /\ UNCHANGED from16
     \/ part = "PHP settings on Unix" /\ PhpUnix!Next /\ UNCHANGED from13
     \/ part = "PHP settings on Windows" /\ PhpWindows!Next /\ UNCHANGED from13
     \/ part = "lifecycle on Unix" /\ LifecycleUnix!Next /\ UNCHANGED from13
     \/ part = "lifecycle on Windows" /\ LifecycleWindows!Next /\ UNCHANGED from13
     \/ part = "LAN sharing" /\ Lan!Next /\ UNCHANGED from7
     \/ part = "terminal on macOS" /\ TerminalMac!Next /\ UNCHANGED from14
     \/ part = "terminal on Windows" /\ TerminalWindows!Next /\ UNCHANGED from14
     \/ part = "hosts file" /\ Hosts!Next /\ UNCHANGED from13
     \/ part = "local CA" /\ Ca!Next /\ UNCHANGED from12
     \/ part = "bundled Runtimes on macOS" /\ BundledMac!Next /\ UNCHANGED from14
     \/ part = "bundled Runtimes on Windows" /\ BundledWindows!Next /\ UNCHANGED from14
     \/ part = "log rotation" /\ Logs!Next /\ UNCHANGED from9
     \/ part = "processes on Unix" /\ ProcessesUnix!Next /\ UNCHANGED from13
     \/ part = "processes on Windows" /\ ProcessesWindows!Next /\ UNCHANGED from13
     \/ part = "Runtime packages" /\ Packages!Next /\ UNCHANGED from17
     \/ part = "App installer in segments" /\ Installers!Next /\ UNCHANGED from17
     \/ part = "Runtime offers on macOS" /\ OffersMac!Next /\ UNCHANGED from13
     \/ part = "Runtime offers on Windows" /\ OffersWindows!Next /\ UNCHANGED from13

Spec == Init /\ [][Next]_vars

-----------------------------------------------------------------------------
\* Every component keeps the shape of its state.
TypeOK ==
  /\ part = "database on Unix" => DatabaseUnix!TypeOK
  /\ part = "database on Windows" => DatabaseWindows!TypeOK
  /\ part = "Site homes" => Homes!TypeOK
  /\ part = "PHP settings on Unix" => PhpUnix!TypeOK
  /\ part = "PHP settings on Windows" => PhpWindows!TypeOK
  /\ part = "lifecycle on Unix" => LifecycleUnix!TypeOK
  /\ part = "lifecycle on Windows" => LifecycleWindows!TypeOK
  /\ part = "LAN sharing" => Lan!TypeOK
  /\ part = "terminal on macOS" => TerminalMac!TypeOK
  /\ part = "terminal on Windows" => TerminalWindows!TypeOK
  /\ part = "hosts file" => Hosts!TypeOK
  /\ part = "local CA" => Ca!TypeOK
  /\ part = "bundled Runtimes on macOS" => BundledMac!TypeOK
  /\ part = "bundled Runtimes on Windows" => BundledWindows!TypeOK
  /\ part = "log rotation" => Logs!TypeOK
  /\ part = "processes on Unix" => ProcessesUnix!TypeOK
  /\ part = "processes on Windows" => ProcessesWindows!TypeOK
  /\ part = "Runtime packages" => Packages!TypeOK
  /\ part = "App installer in segments" => Installers!TypeOK
  /\ part = "Runtime offers on macOS" => OffersMac!TypeOK
  /\ part = "Runtime offers on Windows" => OffersWindows!TypeOK

\* MariaDB: what runs is what was last saved and accepted, one server per data
\* directory, with PHP on its connection, whatever change failed half way
\* (crates/services/src/lib.rs).
DatabaseAsSaved ==
  /\ part = "database on Unix" => DatabaseUnix!RunsAsSaved
  /\ part = "database on Windows" => DatabaseWindows!RunsAsSaved

\* What reports that it has stopped is stopped, however the Agent, its services
\* and their processes got there, and nobody else's process is
\* (crates/services/src/lib.rs, crates/agent/src/main.rs, the Desktop's lib.rs).
StopsWhole ==
  /\ part = "database on Unix" => DatabaseUnix!StopEndsAll
  /\ part = "database on Windows" => DatabaseWindows!StopEndsAll
  /\ part = "lifecycle on Unix" => LifecycleUnix!StopsAsked
  /\ part = "lifecycle on Windows" => LifecycleWindows!StopsAsked
  /\ part = "processes on Unix" => ProcessesUnix!StopsItsOwn
  /\ part = "processes on Windows" => ProcessesWindows!StopsItsOwn

\* A change that is refused or fails leaves the home directories, the php.ini
\* files and the terminal as they were before it.
FailedChangesUndone ==
  /\ part = "Site homes" => Homes!FailedSaveKeeps
  /\ part = "PHP settings on Unix" => PhpUnix!FailedSaveRestores
  /\ part = "PHP settings on Windows" => PhpWindows!FailedSaveRestores
  /\ part = "terminal on macOS" => TerminalMac!FailedChangeKeeps
  /\ part = "terminal on Windows" => TerminalWindows!FailedChangeKeeps

\* What is served is what the user has saved: the Sites of the home directories,
\* PHP with its settings, and to the LAN only what was shared.
ServedAsSaved ==
  /\ part = "Site homes" => Homes!HomeSitesServed
  /\ part = "PHP settings on Unix" => PhpUnix!ServedAsSaved
  /\ part = "PHP settings on Windows" => PhpWindows!ServedAsSaved
  /\ part = "LAN sharing" => Lan!SharedAsAsked

\* The commands that the terminal integration promises are there, and run
\* (crates/platform/src/terminal_php.rs, terminal_node.rs).
TerminalWorks ==
  /\ part = "terminal on macOS" => TerminalMac!CommandsThere
  /\ part = "terminal on Windows" => TerminalWindows!CommandsThere

\* What is the user's own is never lost: lines of the hosts file, entries of the
\* search path, log entries within the retention.
UserDataKept ==
  /\ part = "hosts file" => Hosts!LinesRecoverable
  /\ part = "terminal on macOS" => TerminalMac!TheirsKept
  /\ part = "terminal on Windows" => TerminalWindows!TheirsKept
  /\ part = "log rotation" => Logs!EntriesKept

\* The domains of secured Sites resolve as the Agent was told they do, with
\* certificates that the trusted CA has signed.
DomainsWork ==
  /\ part = "hosts file" => Hosts!BlocksAsTold
  /\ part = "local CA" => Ca!SecuredVerifies

\* Bundled PHP Runtimes: what was removed stays removed, what is installed is
\* whole, and the global one is there.
PhpIsThere ==
  /\ part = "bundled Runtimes on macOS" => BundledMac!PhpIsThere
  /\ part = "bundled Runtimes on Windows" => BundledWindows!PhpIsThere

\* Packages and installers: only what was verified is delivered, nothing an
\* attempt leaves behind spoils the next ones or stays after them, and what is on
\* record of an installed Runtime is the package it came from.
DownloadsVerified ==
  /\ part = "Runtime packages" => Packages!DownloadsHold
  /\ part = "App installer in segments" => Installers!DownloadsHold
  /\ part = "Runtime offers on macOS" => OffersMac!ReceiptsTrue
  /\ part = "Runtime offers on Windows" => OffersWindows!ReceiptsTrue

\* A Site is shared because a request said so, an App upgrade restarts what ran
\* before it, and a Runtime is never installed from an older catalog than before.
AsAsked ==
  [][/\ part = "Site homes" => Homes!SharedExplicitly
     /\ part = "lifecycle on Unix" => LifecycleUnix!UpgradeRestarts
     /\ part = "lifecycle on Windows" => LifecycleWindows!UpgradeRestarts
     /\ part = "Runtime offers on macOS" => OffersMac!NeverOlderStep
     /\ part = "Runtime offers on Windows" => OffersWindows!NeverOlderStep]_vars
=============================================================================
