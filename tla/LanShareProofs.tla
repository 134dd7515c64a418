---------------------------- MODULE LanShareProofs ----------------------------
(***************************************************************************)
(* What passes the LAN listener is what the Agent says it shares, for      *)
(* every set of Sites, domains and connections and any number of requests; *)
(* and the hosts file, where the Helpers and fabDev Connect on the other   *)
(* side enter those domains, keeps the user's lines and each owner's block.*)
(***************************************************************************)
EXTENDS LanShare, Integers, Sequences, FiniteSets, FiniteSetTheorems, SequenceTheorems, TLAPS

\* HostsFile's own; what it shares with LanShare by name stands for one of the two at
\* a time.
CONSTANTS Lines, FirstLine, Helpers, MaxSyncs, MaxFaults
VARIABLES
  mine, hosts, backup, helper, agent, connect, told, overlapped, unsure, lost, syncs, faults

Hosts == INSTANCE HostsFile

\* The marker is neither a domain, nor a set of domains, nor a sharing.
Sharings == [sites : [Sites -> Domains \cup {None}], port : Ports]
MarkerDistinct ==
  /\ None \notin Domains
  /\ None \notin SUBSET Domains
  /\ None \notin Sharings

Phases == {"closed", "first", "arrived", "passed", "open", "upgraded"}

Connection ==
  [phase : Phases, domain : Domains \cup {None}, first : SUBSET Domains, seen : SUBSET Domains]

Typed ==
  /\ registered \in [Sites -> Domains \cup {None}]
  /\ info \in Sharings \cup {None}
  /\ allowed \in (SUBSET Domains) \cup {None}
  /\ accepts \in BOOLEAN
  /\ conns \in [Connections -> Connection]

\* A connection that is open has seen what holds now: the list is either the one
\* it found or one that Allow has shown it since.
SeesAllowed ==
  allowed # None => \A c \in Connections : conns[c].phase # "closed" => allowed \subseteq conns[c].seen

Inv == Typed /\ SeesAllowed /\ SharedOnly /\ SharedAsToldOf

-----------------------------------------------------------------------------
(* What the Agent's requests do to the listener.                           *)

\* The domains of what is shared are domains.
LEMMA DomainsTyped ==
  ASSUME NEW shared \in [Sites -> Domains \cup {None}] PROVE DomainsOf(shared) \subseteq Domains
  BY DEF DomainsOf

\* Showing the listener a new list keeps the connections as they are, but for
\* what they have seen.
LEMMA AllowShows ==
  ASSUME Typed, MarkerDistinct, NEW ds \in SUBSET Domains, Allow(ds), SharedOnly
  PROVE  /\ conns' \in [Connections -> Connection]
         /\ allowed' = ds /\ ds # None
         /\ \A c \in Connections :
              /\ conns'[c].phase = conns[c].phase /\ conns'[c].domain = conns[c].domain
              /\ conns[c].seen \cup ds = conns'[c].seen
  BY DEF Allow, Typed, Connection, MarkerDistinct

\* What is shared and shown under the Sites' own domains keeps the invariant.
LEMMA ShareKeeps ==
  ASSUME Inv, MarkerDistinct, NEW shared \in [Sites -> Domains \cup {None}], NEW port \in Ports,
         Share(shared, port), Allow(DomainsOf(shared)), accepts' \in BOOLEAN,
         registered' \in [Sites -> Domains \cup {None}],
         \A s \in Sites : shared[s] # None => shared[s] = registered'[s]
  PROVE  Inv'
  <1>1. DomainsOf(shared) \in SUBSET Domains
    BY DomainsTyped
  <1>2. /\ conns' \in [Connections -> Connection]
        /\ allowed' = DomainsOf(shared) /\ allowed' # None
        /\ \A c \in Connections :
             /\ conns'[c].phase = conns[c].phase /\ conns'[c].domain = conns[c].domain
             /\ conns[c].seen \cup DomainsOf(shared) = conns'[c].seen
    BY <1>1, AllowShows DEF Inv
  <1>3. info' = [sites |-> shared, port |-> port] /\ info' \in Sharings /\ info' # None
    BY DEF Share, Sharings, MarkerDistinct
  <1>4. Typed'
    BY <1>1, <1>2, <1>3 DEF Typed
  <1>5. SeesAllowed'
    BY <1>2 DEF SeesAllowed
  <1>6. SharedOnly'
    BY <1>2 DEF SharedOnly, Inv
  <1>7. info'.sites = shared
    BY <1>3
  <1>8. SharedAsToldOf'
    BY <1>2, <1>3, <1>7 DEF SharedAsToldOf, DomainsOf
  <1> QED
    BY <1>4, <1>5, <1>6, <1>8 DEF Inv

\* Ending the listener ends all there is of it.
LEMMA CloseKeeps ==
  ASSUME Inv, MarkerDistinct, info' = None, CloseAll,
         registered' \in [Sites -> Domains \cup {None}]
  PROVE  Inv'
  <1>1. \A c \in Connections : conns'[c] = Closed
    BY DEF CloseAll
  <1>2. Typed'
    BY DEF CloseAll, Typed, Closed, Connection, Phases
  <1>3. SharedOnly'
    BY <1>1 DEF CloseAll, SharedOnly, Closed
  <1> QED
    BY <1>2, <1>3 DEF Inv, SeesAllowed, SharedAsToldOf, CloseAll

\* What is left of a sharing is shared on, or the listener ends.
LEMMA KeepKeeps ==
  ASSUME Inv, MarkerDistinct, info # None, NEW shared \in [Sites -> Domains \cup {None}],
         Keep(shared), registered' \in [Sites -> Domains \cup {None}],
         \A s \in Sites : shared[s] # None => shared[s] = registered'[s]
  PROVE  Inv'
  <1>1. info.port \in Ports
    BY DEF Inv, Typed, Sharings
  <1>2. CASE DomainsOf(shared) = {}
    BY <1>2, CloseKeeps DEF Keep
  <1>3. CASE DomainsOf(shared) # {}
    <2>1. accepts' \in BOOLEAN
      BY <1>3 DEF Keep, Inv, Typed
    <2> QED
      BY <1>1, <1>3, <2>1, ShareKeeps DEF Keep
  <1> QED
    BY <1>2, <1>3

-----------------------------------------------------------------------------
(* The steps.                                                              *)

\* Nothing is shared and nobody is connected at first.
LEMMA InitInv == ASSUME Init, MarkerDistinct PROVE Inv
  <1>1. Typed
    BY DEF Init, Typed, Closed, Connection, Phases
  <1>2. SharedOnly
    BY DEF Init, SharedOnly, Closed
  <1> QED
    BY <1>1, <1>2 DEF Init, Inv, SeesAllowed, SharedAsToldOf

\* Each request of the Agent keeps the invariant.
LEMMA RequestInv == ASSUME Inv, MarkerDistinct, Requests PROVE Inv'
  <1>1. registered \in [Sites -> Domains \cup {None}]
    BY DEF Inv, Typed
  <1>2. info # None => /\ info.sites \in [Sites -> Domains \cup {None}] /\ info.port \in Ports
                       /\ \A s \in Sites : info.sites[s] # None => info.sites[s] = registered[s]
    BY DEF Inv, Typed, Sharings, SharedAsToldOf
  <1>3. ASSUME NEW s \in Sites, NEW port \in Ports, Start(s, port) PROVE Inv'
    <2>1. registered' = registered /\ registered[s] # None
      BY <1>3 DEF Start
    <2>2. CASE info = None
      <3> DEFINE shared == [t \in Sites |-> IF t = s THEN registered[s] ELSE None]
      <3>1. shared \in [Sites -> Domains \cup {None}]
        BY <1>1
      <3>2. DomainsOf(shared) = {registered[s]}
        BY <2>1 DEF DomainsOf
      <3>3. Share(shared, port) /\ Allow(DomainsOf(shared)) /\ accepts' \in BOOLEAN
        BY <1>3, <2>2, <3>2 DEF Start
      <3>4. \A t \in Sites : shared[t] # None => shared[t] = registered'[t]
        BY <2>1
      <3> QED
        BY <1>1, <2>1, <3>1, <3>3, <3>4, ShareKeeps
    <2>3. CASE info # None
      <3> DEFINE shared == [info.sites EXCEPT ![s] = registered[s]]
      <3>1. shared \in [Sites -> Domains \cup {None}]
        BY <1>1, <1>2, <2>3
      <3>2. Share(shared, port) /\ Allow(DomainsOf(shared)) /\ UNCHANGED accepts
        BY <1>3, <2>3 DEF Start
      <3>3. \A t \in Sites : shared[t] # None => shared[t] = registered'[t]
        BY <1>1, <1>2, <2>1, <2>3
      <3>4. accepts' \in BOOLEAN
        BY <3>2 DEF Inv, Typed
      <3> QED
        BY <1>1, <2>1, <3>1, <3>2, <3>3, <3>4, ShareKeeps
    <2> QED
      BY <2>2, <2>3
  <1>4. ASSUME NEW s \in Sites, StopSite(s) PROVE Inv'
    <2> DEFINE shared == [info.sites EXCEPT ![s] = None]
    <2>1. info # None /\ Keep(shared) /\ registered' = registered
      BY <1>4 DEF StopSite
    <2>2. shared \in [Sites -> Domains \cup {None}]
      BY <1>2, <2>1
    <2>3. \A t \in Sites : shared[t] # None => shared[t] = registered'[t]
      BY <1>2, <2>1
    <2> QED
      BY <1>1, <2>1, <2>2, <2>3, KeepKeeps
  <1>5. ASSUME NEW s \in Sites, NEW domain \in Domains, UpdateSite(s, domain) PROVE Inv'
    <2>1. registered' = [registered EXCEPT ![s] = domain]
      BY <1>5 DEF UpdateSite
    <2>2. registered' \in [Sites -> Domains \cup {None}]
      BY <1>1, <2>1
    <2>3. CASE info # None /\ info.sites[s] # None
      <3> DEFINE shared == [info.sites EXCEPT ![s] = domain]
      <3>1. Keep(shared)
        BY <1>5, <2>3 DEF UpdateSite
      <3>2. shared \in [Sites -> Domains \cup {None}]
        BY <1>2, <2>3
      <3>3. \A t \in Sites : shared[t] # None => shared[t] = registered'[t]
        BY <1>1, <1>2, <2>1, <2>3
      <3> QED
        BY <2>2, <2>3, <3>1, <3>2, <3>3, KeepKeeps
    <2>4. CASE ~(info # None /\ info.sites[s] # None)
      <3>1. UNCHANGED <<info, allowed, accepts, conns>>
        BY <1>5, <2>4 DEF UpdateSite
      <3>2. SharedAsToldOf'
        BY <1>1, <1>2, <2>1, <2>4, <3>1 DEF Inv, SharedAsToldOf, DomainsOf
      <3> QED
        BY <2>2, <3>1, <3>2 DEF Inv, Typed, SeesAllowed, SharedOnly
    <2> QED
      BY <2>3, <2>4
  <1>6. CASE Stop
    <2>1. registered' \in [Sites -> Domains \cup {None}]
      BY <1>1, <1>6 DEF Stop
    <2>2. CASE info = None
      BY <1>6, <2>2 DEF Stop, Inv, Typed, SeesAllowed, SharedOnly, SharedAsToldOf, DomainsOf
    <2>3. CASE info # None
      BY <1>6, <2>1, <2>3, CloseKeeps DEF Stop
    <2> QED
      BY <2>2, <2>3
  <1>7. CASE SyncSites
    <2>1. registered' \in [Sites -> Domains \cup {None}]
      BY <1>7 DEF SyncSites
    <2>2. CASE info = None
      BY <1>7, <2>1, <2>2 DEF SyncSites, Inv, Typed, SeesAllowed, SharedOnly, SharedAsToldOf
    <2>3. CASE info # None
      <3> DEFINE shared == [s \in Sites |-> IF info.sites[s] # None THEN registered'[s] ELSE None]
      <3>1. Keep(shared)
        BY <1>7, <2>3 DEF SyncSites
      <3>2. shared \in [Sites -> Domains \cup {None}]
        BY <2>1
      <3>3. \A t \in Sites : shared[t] # None => shared[t] = registered'[t]
        OBVIOUS
      <3> QED
        BY <2>1, <2>3, <3>1, <3>2, <3>3, KeepKeeps
    <2> QED
      BY <2>2, <2>3
  <1> QED
    BY <1>3, <1>4, <1>5, <1>6, <1>7 DEF Requests

\* So does each step of a connection.
LEMMA TrafficInv == ASSUME Inv, MarkerDistinct, Traffic PROVE Inv'
  <1>1. conns \in [Connections -> Connection] /\ allowed \in (SUBSET Domains) \cup {None}
    BY DEF Inv, Typed
  <1>2. allowed = None => ~accepts /\ \A c \in Connections : conns[c] = Closed
    BY DEF Inv, SharedOnly
  <1>3. ASSUME NEW c \in Connections, NEW new \in Connection, Still,
               conns' = [conns EXCEPT ![c] = new],
               new.phase # "closed" => allowed # None /\ allowed \subseteq new.seen,
               new.phase = "passed" => new.domain \in new.seen,
               allowed = None => new = Closed
        PROVE  Inv'
    <2>1. Typed'
      BY <1>1, <1>3 DEF Inv, Typed, Still
    <2>2. SeesAllowed'
      BY <1>1, <1>3 DEF Inv, SeesAllowed, Still
    <2>3. SharedOnly'
      BY <1>1, <1>2, <1>3 DEF Inv, SharedOnly, Still
    <2>4. SharedAsToldOf'
      BY <1>3 DEF Inv, SharedAsToldOf, Still, DomainsOf
    <2> QED
      BY <2>1, <2>2, <2>3, <2>4 DEF Inv
  <1>4. Closed \in Connection /\ Closed.phase = "closed"
    BY DEF Closed, Connection, Phases
  <1>5. \A c \in Connections : conns[c].phase # "closed" => allowed # None /\ allowed \subseteq conns[c].seen
    BY <1>2, <1>4 DEF Inv, SeesAllowed
  <1>6. ASSUME NEW c \in Connections, Accept(c) PROVE Inv'
    <2> DEFINE new == [phase |-> "first", domain |-> None, first |-> allowed, seen |-> allowed]
    <2>1. allowed # None
      BY <1>2, <1>6 DEF Accept
    <2>2. new \in Connection
      BY <1>1, <2>1 DEF Connection, Phases
    <2>3. Still /\ conns' = [conns EXCEPT ![c] = new]
      BY <1>6 DEF Accept
    <2> QED
      BY <1>3, <2>1, <2>2, <2>3
  <1>7. ASSUME NEW c \in Connections, Check(c) PROVE Inv'
    <2> DEFINE new == [conns[c] EXCEPT !.phase = IF conns[c].domain \in allowed THEN "passed" ELSE "open"]
    <2>1. new \in Connection /\ conns[c].phase = "arrived" /\ allowed # None
      BY <1>1, <1>7 DEF Check, Connection, Phases
    <2>2. Still /\ conns' = [conns EXCEPT ![c] = new]
      BY <1>1, <1>7 DEF Check, Phase, Allowed
    <2>3. new.domain = conns[c].domain /\ new.seen = conns[c].seen
      BY <1>1 DEF Connection
    <2>4. new.phase = "passed" => conns[c].domain \in allowed
      BY <1>1 DEF Connection
    <2> QED
      BY <1>3, <1>5, <2>1, <2>2, <2>3, <2>4
  <1>8. ASSUME NEW c \in Connections, Forward(c) PROVE Inv'
    <2>1. PICK phase \in {"open", "upgraded", "closed"} :
            conns' = [conns EXCEPT ![c] = IF phase = "closed" THEN Closed ELSE [@ EXCEPT !.phase = phase]]
      BY <1>8 DEF Forward
    <2> DEFINE new == IF phase = "closed" THEN Closed ELSE [conns[c] EXCEPT !.phase = phase]
    <2>2. new \in Connection /\ new.phase # "passed"
      BY <1>1, <1>4 DEF Connection, Phases
    <2>3. Still /\ conns' = [conns EXCEPT ![c] = new] /\ conns[c].phase = "passed"
      BY <1>8, <2>1 DEF Forward
    <2>4. new.phase # "closed" => new.seen = conns[c].seen
      BY <1>1, <1>4 DEF Connection
    <2> QED
      BY <1>3, <1>5, <2>2, <2>3, <2>4
  <1>9. ASSUME NEW c \in Connections, Close(c) PROVE Inv'
    BY <1>3, <1>4, <1>9 DEF Close
  <1>10. ASSUME NEW c \in Connections, NEW domain \in Domains, ReadFirst(c, domain) PROVE Inv'
    <2> DEFINE new == IF domain \in conns[c].first
                        THEN [conns[c] EXCEPT !.phase = "arrived", !.domain = domain] ELSE Closed
    <2>1. new \in Connection /\ new.phase # "passed" /\ (new.phase # "closed" => new.seen = conns[c].seen)
      BY <1>1, <1>4 DEF Connection, Phases
    <2>2. Still /\ conns' = [conns EXCEPT ![c] = new] /\ conns[c].phase = "first"
      BY <1>10 DEF ReadFirst
    <2> QED
      BY <1>3, <1>5, <2>1, <2>2
  <1>11. ASSUME NEW c \in Connections, NEW domain \in Domains, NextRequest(c, domain) PROVE Inv'
    <2> DEFINE new == [conns[c] EXCEPT !.phase = "arrived", !.domain = domain, !.seen = allowed]
    <2>1. allowed # None /\ new \in Connection /\ new.phase = "arrived" /\ new.seen = allowed
      BY <1>1, <1>11 DEF NextRequest, Connection, Phases
    <2>2. Still /\ conns' = [conns EXCEPT ![c] = new]
      BY <1>11 DEF NextRequest
    <2> QED
      BY <1>3, <2>1, <2>2
  <1>12. CASE AcceptFails
    <2>1. conns' \in [Connections -> Connection] /\ \A c \in Connections : conns'[c] = Closed
      BY <1>4, <1>12 DEF AcceptFails
    <2>2. UNCHANGED <<registered, info, allowed>> /\ accepts' = FALSE
      BY <1>12 DEF AcceptFails
    <2> QED
      BY <1>4, <2>1, <2>2 DEF Inv, Typed, SeesAllowed, SharedOnly, SharedAsToldOf, DomainsOf
  <1> QED
    BY <1>6, <1>7, <1>8, <1>9, <1>10, <1>11, <1>12 DEF Traffic

\* What a request reaches over the LAN is a domain that was shared while the
\* request was under way, and what the listener lets pass is what the Agent
\* reports as shared, under the domains its Sites have now (agent 432-612,
\* share 76-207, restricted_http 22-110).
THEOREM SharedAsTold ==
  ASSUME MarkerDistinct PROVE Spec => []SharedAsAsked
  <1>1. Init => Inv
    BY InitInv
  <1>2. Inv /\ [Next]_vars => Inv'
    <2> SUFFICES ASSUME Inv, [Next]_vars PROVE Inv'
      OBVIOUS
    <2>1. CASE UNCHANGED vars
      BY <2>1 DEF vars, Inv, Typed, SeesAllowed, SharedOnly, SharedAsToldOf, DomainsOf
    <2> QED
      BY <2>1, RequestInv, TrafficInv DEF Next, Done
  <1>3. Inv => SharedAsAsked
    BY DEF Inv, SharedAsAsked
  <1> QED
    BY <1>1, <1>2, <1>3, PTL DEF Spec

-----------------------------------------------------------------------------
(* HostsFile.                                                              *)

BlockItems == [who : Hosts!Blocks, domains : Hosts!Wants, cut : BOOLEAN]
Items == Lines \cup BlockItems
Writers ==
  [step : {"idle", "consent", "backup", "truncate", "write", "restore"},
   who : {"site", "proxy"}, domains : Hosts!Wants, new : Seq(Items)]
Connects ==
  [step : {"idle", "replace"}, on : BOOLEAN, domains : Hosts!Wants, new : Seq(Items)]

\* A line of the user's is no managed block; a Helper is neither None nor Connect.
HostAssumption ==
  /\ FirstLine \in Lines /\ Lines \cap BlockItems = {}
  /\ None \notin Helpers /\ "connect" \notin Helpers
  /\ MaxSyncs \in Nat /\ MaxFaults \in Nat

HostShaped ==
  /\ mine \subseteq Lines /\ IsFiniteSet(mine)
  /\ hosts \in Seq(Items) /\ backup \in Seq(Items)
  /\ helper \in [Helpers -> Writers]
  /\ agent \in Helpers \cup {None}
  /\ connect \in Connects
  /\ told \in [Hosts!Blocks -> Hosts!Wants] /\ unsure \subseteq Hosts!Blocks
  /\ overlapped \in BOOLEAN /\ lost \in BOOLEAN

\* From the copy of the file to its end, the backup holds all that is the user's.
\* What Connect has read and not yet written holds what the backup does not.
LinesKept ==
  ~lost =>
    /\ Hosts!LinesRecoverable
    /\ connect.step = "replace" =>
         mine \subseteq Hosts!LinesOf(connect.new) \cup Hosts!LinesOf(backup)
    /\ \A h \in Helpers : helper[h].step \in {"truncate", "write", "restore"} =>
         mine \subseteq Hosts!LinesOf(backup)

Once(f) == \A b \in Hosts!Blocks : \A i, j \in Hosts!BlocksOf(f, b) : i = j

\* A file in which each writer finds what it was told.
AsTold(f) ==
  /\ Once(f)
  /\ \A b \in Hosts!Blocks \ unsure : Hosts!BlockDomains(f, b) = told[b]

Updates(f, p) ==
  /\ ~Hosts!Incomplete(f, p.who)
  /\ p.new = Hosts!UpdateManagedBlock(f, p.who, p.domains)

\* One writer at a time, that works on the file it has read; while it is in place of
\* the file, what it has read is in the backup.
WritersAlone ==
  ~overlapped =>
    /\ \A h \in Helpers : Hosts!Busy(helper[h]) =>
         ~Hosts!Busy(connect) /\ \A g \in Helpers : Hosts!Busy(helper[g]) => g = h
    /\ \A h \in Helpers :
         CASE helper[h].step = "backup" -> Updates(hosts, helper[h])
           [] helper[h].step = "truncate" -> Updates(hosts, helper[h]) /\ backup = hosts
           [] helper[h].step = "write" -> AsTold(backup) /\ Updates(backup, helper[h])
           [] helper[h].step = "restore" -> AsTold(backup) /\ Once(hosts)
           [] OTHER -> TRUE
    /\ connect.step = "replace" =>
         /\ ~Hosts!Incomplete(hosts, "connect")
         /\ connect.new = Hosts!UpdateManagedBlock(hosts, "connect", connect.domains)
    /\ (\A h \in Helpers : helper[h].step \notin {"write", "restore"}) => AsTold(hosts)

HostInv == HostShaped /\ LinesKept /\ WritersAlone

\* The owner of an item of the file.
LEMMA HostItems ==
  ASSUME HostAssumption
  PROVE  /\ "user" \notin Hosts!Blocks
         /\ \A x \in Items : Hosts!IsBlock(x) => x \in BlockItems /\ Hosts!OwnerOf(x) = x.who
                                                 /\ x.who \in Hosts!Blocks
         /\ \A x \in Items : ~Hosts!IsBlock(x) => x \in Lines /\ Hosts!OwnerOf(x) = "user"
         /\ \A who \in Hosts!Blocks, ds \in Hosts!Wants, cut \in BOOLEAN :
              /\ Hosts!Block(who, ds, cut) \in Items /\ Hosts!IsBlock(Hosts!Block(who, ds, cut))
              /\ Hosts!OwnerOf(Hosts!Block(who, ds, cut)) = who
              /\ Hosts!Block(who, ds, cut).domains = ds
BY DEF HostAssumption, Hosts!Blocks, Hosts!IsBlock, Hosts!OwnerOf, Hosts!Block, Items, BlockItems

\* A sequence without its i-th item.
LEMMA Removed ==
  ASSUME NEW S, NEW f \in Seq(S), NEW i \in 1..Len(f)
  PROVE  LET g == Hosts!RemoveAt(f, i) IN
         /\ g \in Seq(S) /\ Len(g) = Len(f) - 1
         /\ \A j \in 1..(i - 1) : g[j] = f[j]
         /\ \A j \in i..(Len(f) - 1) : g[j] = f[j + 1]
<1> DEFINE a == SubSeq(f, 1, i - 1)
           b == SubSeq(f, i + 1, Len(f))
<1>1. a \in Seq(S) /\ Len(a) = i - 1 /\ \A j \in 1..(i - 1) : a[j] = f[j]
  OBVIOUS
<1>2. b \in Seq(S) /\ Len(b) = Len(f) - i /\ \A j \in 1..(Len(f) - i) : b[j] = f[i + j]
  OBVIOUS
<1>3. Hosts!RemoveAt(f, i) = a \o b
  BY DEF Hosts!RemoveAt
<1> HIDE DEF a, b
<1>4. a \o b \in Seq(S) /\ Len(a \o b) = Len(f) - 1
  <2>1. a \o b \in Seq(S) /\ Len(a \o b) = Len(a) + Len(b)
    <3>1. a \in Seq(S) /\ b \in Seq(S)
      BY <1>1, <1>2
    <3> QED
      BY <3>1, ConcatProperties
  <2>2. Len(f) \in Nat /\ i \in Nat
    OBVIOUS
  <2> QED
    BY <1>1, <1>2, <2>1, <2>2
<1>5. \A j \in 1..(i - 1) : (a \o b)[j] = f[j]
  BY <1>1, <1>2
<1>6. \A j \in i..(Len(f) - 1) : (a \o b)[j] = f[j + 1]
  <2> TAKE j \in i..(Len(f) - 1)
  <2>1. j - (i - 1) \in 1..(Len(f) - i) /\ i + (j - (i - 1)) = j + 1 /\ j \in Nat
    OBVIOUS
  <2>2. (a \o b)[j] = b[j - (i - 1)]
    BY <1>1, <1>2, <2>1
  <2> QED
    BY <1>2, <2>1, <2>2
<1> QED
  BY <1>3, <1>4, <1>5, <1>6

\* The instance counts as this module does.
LEMMA Counts == \A S : Hosts!Cardinality(S) = Cardinality(S)
BY DEF Hosts!Cardinality, Cardinality

\* At most one block, said with its cardinality.
LEMMA OnceCounted ==
  ASSUME NEW f \in Seq(Items), NEW b
  PROVE  Hosts!Cardinality(Hosts!BlocksOf(f, b)) <= 1 <=> \A i, j \in Hosts!BlocksOf(f, b) : i = j
<1> DEFINE B == Hosts!BlocksOf(f, b)
<1>1. Len(f) \in Nat /\ B \subseteq 1..Len(f)
  BY DEF Hosts!BlocksOf
<1>2. IsFiniteSet(1..Len(f))
  BY <1>1, FS_Interval
<1>3. IsFiniteSet(B) /\ Cardinality(B) \in Nat
  BY <1>1, <1>2, FS_Subset, FS_CardinalityType
<1> HIDE DEF B
<1>4. ASSUME Cardinality(B) <= 1, NEW i \in B, NEW j \in B
      PROVE  i = j
  <2>1. IsFiniteSet({i}) /\ Cardinality({i}) = 1 /\ {i} \subseteq B
    BY FS_Singleton
  <2>2. Cardinality({i}) <= Cardinality(B)
    BY <1>3, <2>1, FS_Subset
  <2>3. Cardinality(B) = Cardinality({i})
    BY <1>3, <1>4, <2>1, <2>2
  <2>4. B = {i}
    BY <1>3, <2>1, <2>3, FS_Subset
  <2> QED
    BY <2>4
<1>5. ASSUME \A i, j \in B : i = j
      PROVE  Cardinality(B) <= 1
  <2>1. CASE B = {}
    BY <2>1, FS_EmptySet
  <2>2. CASE B # {}
    <3>1. PICK i \in B : TRUE
      BY <2>2
    <3>2. B = {i}
      BY <1>5, <3>1
    <3>3. Cardinality({i}) = 1
      BY FS_Singleton
    <3> QED
      BY <3>2, <3>3
  <2> QED
    BY <2>1, <2>2
<1>6. Cardinality(B) <= 1 <=> \A i, j \in B : i = j
  BY <1>4, <1>5
<1> QED
  BY <1>6, Counts DEF B

\* What is left without the block of one writer: all lines, and the blocks of the
\* others in their order.
LEMMA Unblocked ==
  ASSUME HostAssumption, NEW f \in Seq(Items), NEW who \in Hosts!Blocks, ~Hosts!Incomplete(f, who)
  PROVE  LET g == Hosts!WithoutBlock(f, who) IN
         /\ g \in Seq(Items) /\ Hosts!LinesOf(g) = Hosts!LinesOf(f)
         /\ Hosts!BlocksOf(g, who) = {}
         /\ \A b \in Hosts!Blocks \ {who} : Hosts!BlockDomains(g, b) = Hosts!BlockDomains(f, b)
         /\ Once(f) => Once(g)
<1> DEFINE g == Hosts!WithoutBlock(f, who)
<1>1. CASE Hosts!BlocksOf(f, who) = {}
  BY <1>1 DEF Hosts!WithoutBlock
<1>2. CASE Hosts!BlocksOf(f, who) # {}
  <2> DEFINE k == CHOOSE i \in Hosts!BlocksOf(f, who) : TRUE
  <2>1. k \in Hosts!BlocksOf(f, who) /\ g = Hosts!RemoveAt(f, k)
    BY <1>2 DEF Hosts!WithoutBlock
  <2>2. Cardinality(Hosts!BlocksOf(f, who)) <= 1
    <3>1. Hosts!BlocksOf(f, who) \subseteq 1..Len(f) /\ Len(f) \in Nat
      BY DEF Hosts!BlocksOf
    <3>2. Cardinality(Hosts!BlocksOf(f, who)) \in Nat
      BY <3>1, FS_Interval, FS_Subset, FS_CardinalityType, 1 \in Int, Len(f) \in Int
    <3>3. ~(Cardinality(Hosts!BlocksOf(f, who)) > 1)
      BY Counts DEF Hosts!Incomplete
    <3> QED
      BY <3>2, <3>3
  <2>3. \A i \in Hosts!BlocksOf(f, who) : i = k
    BY <2>1, <2>2, OnceCounted, Counts
  <2>4. k \in 1..Len(f) /\ Len(f) \in Nat /\ Hosts!OwnerOf(f[k]) = who
    BY <2>1 DEF Hosts!BlocksOf
  <2> HIDE DEF k
  <2>5. /\ g \in Seq(Items) /\ Len(g) = Len(f) - 1
        /\ \A j \in 1..(k - 1) : g[j] = f[j]
        /\ \A j \in k..(Len(f) - 1) : g[j] = f[j + 1]
    BY <2>1, <2>4, Removed
  <2> DEFINE Was(j) == IF j < k THEN j ELSE j + 1
  <2> HIDE DEF g
  <2>6. \A j \in 1..Len(g) : Was(j) \in 1..Len(f) /\ Was(j) # k /\ g[j] = f[Was(j)]
    <3> TAKE j \in 1..Len(g)
    <3>1. j \in Nat /\ k \in Nat /\ j <= Len(f) - 1 /\ j >= 1
      BY <2>4, <2>5
    <3>2. CASE j < k
      BY <2>4, <2>5, <3>1, <3>2
    <3>3. CASE j >= k
      BY <2>4, <2>5, <3>1, <3>3
    <3> QED
      BY <2>4, <3>1, <3>2, <3>3
  <2>7. \A i \in 1..Len(f) : i # k => \E j \in 1..Len(g) : Was(j) = i
    <3> TAKE i \in 1..Len(f)
    <3> HAVE i # k
    <3>1. CASE i < k
      <4>1. i \in 1..Len(g) /\ Was(i) = i
        BY <2>4, <2>5, <3>1
      <4> QED
        BY <4>1
    <3>2. CASE i > k
      <4>1. i - 1 \in 1..Len(g) /\ Was(i - 1) = i
        BY <2>4, <2>5, <3>2
      <4> QED
        BY <4>1
    <3> QED
      BY <2>4, <3>1, <3>2
  <2>8. \A i, j \in 1..Len(g) : Was(i) = Was(j) => i = j
    BY <2>4, <2>5
  <2> HIDE DEF Was
  <2>9. Hosts!LinesOf(g) = Hosts!LinesOf(f)
    <3>1. Hosts!IsBlock(f[k])
      <4>1. f[k] \in Items
        BY <2>4
      <4> QED
        BY <2>4, <4>1, HostItems
    <3>2. \A x \in Hosts!LinesOf(g) : x \in Hosts!LinesOf(f)
      BY <2>6 DEF Hosts!LinesOf
    <3>3. ASSUME NEW x \in Hosts!LinesOf(f) PROVE x \in Hosts!LinesOf(g)
      <4>1. PICK i \in 1..Len(f) : x = f[i] /\ ~Hosts!IsBlock(f[i])
        BY DEF Hosts!LinesOf
      <4>2. PICK j \in 1..Len(g) : Was(j) = i
        BY <2>7, <3>1, <4>1
      <4> QED
        BY <2>6, <4>1, <4>2 DEF Hosts!LinesOf
    <3> QED
      BY <3>2, <3>3
  <2>10. Hosts!BlocksOf(g, who) = {}
    BY <2>3, <2>6 DEF Hosts!BlocksOf
  <2>11. \A b : \A j \in Hosts!BlocksOf(g, b) : Was(j) \in Hosts!BlocksOf(f, b) /\ g[j] = f[Was(j)]
    BY <2>6 DEF Hosts!BlocksOf
  <2>12. ASSUME NEW b \in Hosts!Blocks \ {who}
         PROVE  Hosts!BlockDomains(g, b) = Hosts!BlockDomains(f, b)
    <3>1. \A i \in Hosts!BlocksOf(f, b) : \E j \in Hosts!BlocksOf(g, b) : g[j] = f[i]
      <4> TAKE i \in Hosts!BlocksOf(f, b)
      <4>1. i \in 1..Len(f) /\ i # k /\ Hosts!OwnerOf(f[i]) = b
        BY <2>4 DEF Hosts!BlocksOf
      <4>2. PICK j \in 1..Len(g) : Was(j) = i
        BY <2>7, <4>1
      <4> QED
        BY <2>6, <4>1, <4>2 DEF Hosts!BlocksOf
    <3> QED
      BY <2>11, <3>1 DEF Hosts!BlockDomains
  <2>13. Once(f) => Once(g)
    <3>1. \A b : Hosts!BlocksOf(g, b) \subseteq 1..Len(g)
      BY DEF Hosts!BlocksOf
    <3> QED
      BY <2>8, <2>11, <3>1 DEF Once
  <2> QED
    BY <2>5, <2>9, <2>10, <2>12, <2>13 DEF g
<1> QED
  BY <1>1, <1>2

\* The file with the block of one writer renewed.
LEMMA Renewed ==
  ASSUME HostAssumption, NEW f \in Seq(Items), NEW who \in Hosts!Blocks, NEW ds \in Hosts!Wants,
         ~Hosts!Incomplete(f, who)
  PROVE  LET g == Hosts!UpdateManagedBlock(f, who, ds) IN
         /\ g \in Seq(Items) /\ Hosts!LinesOf(g) = Hosts!LinesOf(f)
         /\ Hosts!BlockDomains(g, who) = ds
         /\ \A b \in Hosts!Blocks \ {who} : Hosts!BlockDomains(g, b) = Hosts!BlockDomains(f, b)
         /\ Once(f) => Once(g)
<1> DEFINE w == Hosts!WithoutBlock(f, who)
           new == Hosts!Block(who, ds, FALSE)
           g == Append(w, new)
<1>1. /\ w \in Seq(Items) /\ Hosts!LinesOf(w) = Hosts!LinesOf(f) /\ Hosts!BlocksOf(w, who) = {}
      /\ \A b \in Hosts!Blocks \ {who} : Hosts!BlockDomains(w, b) = Hosts!BlockDomains(f, b)
      /\ Once(f) => Once(w)
  BY Unblocked
<1>2. new \in Items /\ Hosts!IsBlock(new) /\ Hosts!OwnerOf(new) = who /\ new.domains = ds
  BY HostItems
<1>3. Hosts!UpdateManagedBlock(f, who, ds) = IF ds = {} THEN w ELSE g
  BY DEF Hosts!UpdateManagedBlock
<1> HIDE DEF w, new
<1>4. CASE ds = {}
  <2>1. Hosts!BlockDomains(w, who) = {}
    BY <1>1 DEF Hosts!BlockDomains
  <2> QED
    BY <1>1, <1>3, <1>4, <2>1
<1>5. CASE ds # {}
  <2>1. /\ g \in Seq(Items) /\ Len(g) = Len(w) + 1 /\ g[Len(g)] = new /\ Len(w) \in Nat
        /\ \A i \in 1..Len(w) : g[i] = w[i]
    BY <1>1, <1>2
  <2>2. 1..Len(g) = (1..Len(w)) \cup {Len(g)} /\ Len(g) \notin 1..Len(w)
    BY <2>1
  <2> HIDE DEF g
  <2>3. Hosts!LinesOf(g) = Hosts!LinesOf(w)
    BY <1>2, <2>1, <2>2 DEF Hosts!LinesOf
  <2>4. Hosts!BlocksOf(g, who) = {Len(g)}
    BY <1>1, <1>2, <2>1, <2>2 DEF Hosts!BlocksOf
  <2>5. \A b \in Hosts!Blocks \ {who} : Hosts!BlocksOf(g, b) = Hosts!BlocksOf(w, b)
    BY <1>2, <2>1, <2>2 DEF Hosts!BlocksOf
  <2>6. Hosts!BlockDomains(g, who) = ds
    BY <1>2, <2>1, <2>4 DEF Hosts!BlockDomains
  <2>7. \A b \in Hosts!Blocks \ {who} : Hosts!BlockDomains(g, b) = Hosts!BlockDomains(w, b)
    <3> TAKE b \in Hosts!Blocks \ {who}
    <3>1. \A i \in Hosts!BlocksOf(w, b) : g[i] = w[i]
      BY <2>1 DEF Hosts!BlocksOf
    <3> QED
      BY <2>5, <3>1 DEF Hosts!BlockDomains
  <2>8. Once(w) => Once(g)
    BY <2>4, <2>5 DEF Once
  <2> QED
    BY <1>1, <1>3, <1>5, <2>1, <2>3, <2>6, <2>7, <2>8
<1> QED
  BY <1>4, <1>5

\* What a write that is cut short leaves has no block twice.
LEMMA Begun ==
  ASSUME HostAssumption, NEW f \in Seq(Items), NEW g \in Hosts!Beginnings(f)
  PROVE  g \in Seq(Items) /\ (Once(f) => Once(g))
<1>1. Len(f) \in Nat
  OBVIOUS
<1>2. CASE \E k \in 0..Len(f) : g = SubSeq(f, 1, k)
  <2>1. PICK k \in 0..Len(f) : g = SubSeq(f, 1, k)
    BY <1>2
  <2>2. g \in Seq(Items) /\ Len(g) = k /\ \A i \in 1..k : g[i] = f[i]
    BY <1>1, <2>1
  <2>3. \A b : Hosts!BlocksOf(g, b) \subseteq Hosts!BlocksOf(f, b)
    BY <1>1, <2>2 DEF Hosts!BlocksOf
  <2> QED
    BY <2>2, <2>3 DEF Once
<1>3. CASE \E k \in {j \in 0..(Len(f) - 1) : Hosts!IsBlock(f[j + 1])} :
             g = Append(SubSeq(f, 1, k), [f[k + 1] EXCEPT !.cut = TRUE])
  <2>1. PICK k \in {j \in 0..(Len(f) - 1) : Hosts!IsBlock(f[j + 1])} :
             g = Append(SubSeq(f, 1, k), [f[k + 1] EXCEPT !.cut = TRUE])
    BY <1>3
  <2> DEFINE last == [f[k + 1] EXCEPT !.cut = TRUE]
             a == SubSeq(f, 1, k)
  <2>2. k + 1 \in 1..Len(f) /\ k \in Nat /\ f[k + 1] \in Items /\ Hosts!IsBlock(f[k + 1])
    BY <1>1, <2>1
  <2>3. f[k + 1] \in BlockItems /\ Hosts!OwnerOf(f[k + 1]) = f[k + 1].who
    BY <2>2, HostItems
  <2>4. last \in BlockItems /\ last.who = f[k + 1].who
    BY <2>3 DEF BlockItems
  <2>5. last \in Items /\ Hosts!OwnerOf(last) = Hosts!OwnerOf(f[k + 1])
    BY <2>3, <2>4 DEF Items, HostAssumption, Hosts!OwnerOf, Hosts!IsBlock
  <2>6. a \in Seq(Items) /\ Len(a) = k /\ \A i \in 1..k : a[i] = f[i]
    BY <1>1, <2>2
  <2> HIDE DEF last, a
  <2>7. g = Append(a, last)
    BY <2>1 DEF a, last
  <2>8. g \in Seq(Items) /\ Len(g) = k + 1 /\ g[k + 1] = last /\ \A i \in 1..k : g[i] = f[i]
    BY <2>2, <2>5, <2>6, <2>7
  <2>9. \A b : Hosts!BlocksOf(g, b) \subseteq Hosts!BlocksOf(f, b)
    BY <1>1, <2>2, <2>5, <2>8 DEF Hosts!BlocksOf
  <2> QED
    BY <2>8, <2>9 DEF Once
<1> QED
  BY <1>2, <1>3 DEF Hosts!Beginnings

\* The file, the backup and the writers at the start.
LEMMA HostInit ==
  ASSUME HostAssumption, Hosts!Init
  PROVE  HostInv
<1>0. /\ mine = {FirstLine} /\ hosts = <<FirstLine>> /\ backup = <<>>
      /\ helper = [h \in Helpers |-> Hosts!Waiting]
      /\ agent = None
      /\ connect = [step |-> "idle", on |-> FALSE, domains |-> {}, new |-> <<>>]
      /\ told = [b \in Hosts!Blocks |-> {}]
      /\ unsure = {} /\ overlapped = FALSE /\ lost = FALSE
  BY DEF Hosts!Init
<1>1. FirstLine \in Items /\ ~Hosts!IsBlock(FirstLine) /\ Hosts!OwnerOf(FirstLine) = "user"
  BY HostItems DEF HostAssumption, Items, Hosts!IsBlock, Hosts!OwnerOf
<1>2. hosts \in Seq(Items) /\ backup \in Seq(Items) /\ Len(hosts) = 1 /\ hosts[1] = FirstLine
  BY <1>0, <1>1
<1>3. Hosts!Waiting \in Writers /\ ~Hosts!Busy(Hosts!Waiting)
  BY DEF Hosts!Waiting, Writers, Hosts!Busy, Hosts!Wants
<1>4. HostShaped
  <2>1. mine \subseteq Lines /\ IsFiniteSet(mine)
    BY <1>0, FS_Singleton DEF HostAssumption
  <2>2. connect \in Connects
    BY <1>0 DEF Connects, Hosts!Wants
  <2>3. told \in [Hosts!Blocks -> Hosts!Wants]
    BY <1>0 DEF Hosts!Wants
  <2> QED
    BY <1>0, <1>2, <1>3, <2>1, <2>2, <2>3 DEF HostShaped
<1>5. Hosts!LinesOf(hosts) = {FirstLine}
  BY <1>1, <1>2 DEF Hosts!LinesOf
<1>6. \A h \in Helpers : helper[h].step = "idle"
  BY <1>0 DEF Hosts!Waiting
<1>7. LinesKept
  BY <1>0, <1>5, <1>6 DEF LinesKept, Hosts!LinesRecoverable
<1>8. \A b \in Hosts!Blocks : Hosts!BlocksOf(hosts, b) = {}
  BY <1>1, <1>2, HostItems DEF Hosts!BlocksOf
<1>9. AsTold(hosts)
  BY <1>0, <1>8 DEF AsTold, Once, Hosts!BlockDomains
<1>10. WritersAlone
  BY <1>0, <1>6, <1>9 DEF WritersAlone, Hosts!Busy
<1> QED
  BY <1>4, <1>7, <1>10 DEF HostInv

\* One Helper moved, the others where they were.
LEMMA HelperMoved ==
  ASSUME HostShaped, NEW h \in Helpers, NEW p \in Writers, helper' = [helper EXCEPT ![h] = p]
  PROVE  /\ helper' \in [Helpers -> Writers] /\ helper'[h] = p
         /\ \A g \in Helpers \ {h} : helper'[g] = helper[g]
BY DEF HostShaped

\* A Helper that steps on.
LEMMA HelperStepped ==
  ASSUME HostShaped, NEW h \in Helpers,
         NEW s \in {"idle", "consent", "backup", "truncate", "write", "restore"},
         helper' = [helper EXCEPT ![h].step = s]
  PROVE  /\ helper' \in [Helpers -> Writers]
         /\ helper'[h].step = s /\ helper'[h].who = helper[h].who
         /\ helper'[h].domains = helper[h].domains /\ helper'[h].new = helper[h].new
         /\ \A g \in Helpers \ {h} : helper'[g] = helper[g]
<1> DEFINE p == [helper[h] EXCEPT !.step = s]
<1>1. helper[h] \in Writers
  BY DEF HostShaped
<1>2. /\ p \in Writers /\ p.step = s /\ p.who = helper[h].who
      /\ p.domains = helper[h].domains /\ p.new = helper[h].new
  BY <1>1 DEF Writers
<1>3. helper' = [helper EXCEPT ![h] = p]
  BY <1>1
<1> HIDE DEF p
<1> QED
  BY <1>2, <1>3, HelperMoved

\* While nobody writes, the file as its owners were told is all there is to show.
LEMMA CalmAfter ==
  ASSUME ~overlapped' =>
           /\ connect'.step = "idle" /\ \A h \in Helpers : ~Hosts!Busy(helper'[h])
           /\ Once(hosts')
           /\ \A b \in Hosts!Blocks \ unsure' : Hosts!BlockDomains(hosts', b) = told'[b]
  PROVE  WritersAlone'
<1> SUFFICES ASSUME ~overlapped' PROVE WritersAlone'
  BY DEF WritersAlone
<1>1. \A h \in Helpers : helper'[h].step \in {"idle", "consent"}
  BY DEF Hosts!Busy
<1> QED
  BY <1>1 DEF WritersAlone, AsTold

\* While one Helper works, nobody else does.
LEMMA WorksAlone ==
  ASSUME HostInv, ~overlapped, NEW h \in Helpers, Hosts!Busy(helper[h])
  PROVE  connect.step = "idle" /\ \A g \in Helpers \ {h} : ~Hosts!Busy(helper[g])
<1>1. ~Hosts!Busy(connect) /\ \A g \in Helpers : Hosts!Busy(helper[g]) => g = h
  BY DEF HostInv, WritersAlone
<1>2. connect.step \in {"idle", "replace"}
  BY DEF HostInv, HostShaped, Connects
<1> QED
  BY <1>1, <1>2 DEF Hosts!Busy

\* A Helper that has left.
LEMMA HelperLeft ==
  ASSUME HostInv, NEW h \in Helpers, Hosts!Leave(h)
  PROVE  /\ helper' \in [Helpers -> Writers] /\ helper'[h].step = "idle"
         /\ \A g \in Helpers \ {h} : helper'[g] = helper[g]
         /\ agent' \in Helpers \cup {None}
<1>1. Hosts!Waiting \in Writers /\ Hosts!Waiting.step = "idle"
  BY DEF Hosts!Waiting, Writers, Hosts!Wants
<1>2. helper' = [helper EXCEPT ![h] = Hosts!Waiting]
  BY DEF Hosts!Leave
<1>3. /\ helper' \in [Helpers -> Writers] /\ helper'[h].step = "idle"
      /\ \A g \in Helpers \ {h} : helper'[g] = helper[g]
  BY <1>1, <1>2, HelperMoved DEF HostInv
<1>4. agent' \in Helpers \cup {None}
  BY DEF Hosts!Leave, HostInv, HostShaped
<1> QED
  BY <1>3, <1>4

\* What an answer says of the writer's block is so, when the file holds it.
LEMMA Answered ==
  ASSUME HostInv, NEW who \in Hosts!Blocks, NEW ds \in Hosts!Wants, NEW f,
         told' = [told EXCEPT ![who] = ds], unsure' = unsure \ {who},
         Hosts!BlockDomains(f, who) = ds,
         \A b \in Hosts!Blocks \ (unsure \cup {who}) : Hosts!BlockDomains(f, b) = told[b]
  PROVE  /\ told' \in [Hosts!Blocks -> Hosts!Wants] /\ unsure' \subseteq Hosts!Blocks
         /\ \A b \in Hosts!Blocks \ unsure' : Hosts!BlockDomains(f, b) = told'[b]
BY DEF HostInv, HostShaped

\* A Helper that ends well, or unheard: what its owner was told is in the file.
LEMMA HelperAnswered ==
  ASSUME HostInv, NEW h \in Helpers, NEW ok \in BOOLEAN, Hosts!Finish(h, ok), NEW f,
         ok => Hosts!BlockDomains(f, helper[h].who) = helper[h].domains,
         \A b \in Hosts!Blocks \ (unsure \cup (IF ok THEN {helper[h].who} ELSE {})) :
           Hosts!BlockDomains(f, b) = told[b]
  PROVE  /\ told' \in [Hosts!Blocks -> Hosts!Wants] /\ unsure' \subseteq Hosts!Blocks
         /\ \A b \in Hosts!Blocks \ unsure' : Hosts!BlockDomains(f, b) = told'[b]
<1>1. helper[h].who \in Hosts!Blocks /\ helper[h].domains \in Hosts!Wants
  BY DEF HostInv, HostShaped, Writers, Hosts!Blocks
<1>2. CASE ~ok
  <2>1. told' = told /\ unsure' = unsure
    BY <1>2 DEF Hosts!Finish, Hosts!Answer, Hosts!answers
  <2> QED
    BY <1>2, <2>1 DEF HostInv, HostShaped
<1>3. CASE ok /\ agent # h
  <2>1. told' = told /\ unsure' = unsure \cup {helper[h].who}
    BY <1>3 DEF Hosts!Finish
  <2> QED
    BY <1>1, <1>3, <2>1 DEF HostInv, HostShaped
<1>4. CASE ok /\ agent = h
  <2>1. told' = [told EXCEPT ![helper[h].who] = helper[h].domains] /\ unsure' = unsure \ {helper[h].who}
    BY <1>4 DEF Hosts!Finish, Hosts!Answer
  <2> QED
    BY <1>1, <1>4, <2>1, Answered
<1> QED
  BY <1>2, <1>3, <1>4

\* The lines stay where they were found when neither file nor backup is touched.
LEMMA LinesUntouched ==
  ASSUME LinesKept, mine' = mine, hosts' = hosts, backup' = backup, lost' = lost,
         connect'.step = "replace" =>
           (connect'.new = connect.new /\ connect.step = "replace") \/
             Hosts!LinesOf(connect'.new) = Hosts!LinesOf(hosts),
         \A h \in Helpers : helper'[h].step \in {"truncate", "write", "restore"} =>
           helper[h].step \in {"truncate", "write", "restore"}
  PROVE  LinesKept'
BY DEF LinesKept, Hosts!LinesRecoverable

\* A write from a backup that holds all the lines.
LEMMA LinesBackedUp ==
  ASSUME LinesKept, mine' = mine, backup' = backup, lost' = lost, connect' = connect,
         ~lost => mine \subseteq Hosts!LinesOf(backup)
  PROVE  LinesKept'
BY DEF LinesKept, Hosts!LinesRecoverable

\* A sync asks the user, or is told that the file holds what it wants.
LEMMA HostSync ==
  ASSUME HostAssumption, HostInv, NEW h \in Helpers, NEW who \in {"site", "proxy"},
         NEW ds \in Hosts!Wants, Hosts!Sync(h, who, ds)
  PROVE  HostInv'
<1>0. /\ helper[h].step = "idle" /\ overlapped' = (overlapped \/ Hosts!Overlaps(h))
      /\ UNCHANGED <<mine, hosts, backup, connect, lost>> /\ who \in Hosts!Blocks
  BY DEF Hosts!Sync, Hosts!Blocks
<1>1. HostShaped /\ hosts \in Seq(Items)
  BY DEF HostInv, HostShaped
<1>2. CASE Hosts!Incomplete(hosts, who) \/ Hosts!UpdateManagedBlock(hosts, who, ds) = hosts
  <2>1. helper' = helper /\ agent' = agent /\ Hosts!Answer(who, ds, ~Hosts!Incomplete(hosts, who))
    BY <1>2 DEF Hosts!Sync
  <2>2. CASE Hosts!Incomplete(hosts, who)
    <3>1. told' = told /\ unsure' = unsure
      BY <2>1, <2>2 DEF Hosts!Answer, Hosts!answers
    <3>2. HostShaped'
      BY <1>0, <1>1, <2>1, <3>1 DEF HostShaped
    <3>3. LinesKept'
      BY <1>0, <2>1, LinesUntouched DEF HostInv
    <3>4. WritersAlone'
      BY <1>0, <2>1, <3>1 DEF HostInv, WritersAlone, AsTold, Updates, Hosts!Busy
    <3> QED
      BY <3>2, <3>3, <3>4 DEF HostInv
  <2>3. CASE ~Hosts!Incomplete(hosts, who)
    <3>1. told' = [told EXCEPT ![who] = ds] /\ unsure' = unsure \ {who}
      BY <2>1, <2>3 DEF Hosts!Answer
    <3>2. told' \in [Hosts!Blocks -> Hosts!Wants] /\ unsure' \subseteq Hosts!Blocks
      BY <1>0, <1>1, <3>1 DEF HostShaped
    <3>3. HostShaped'
      BY <1>0, <1>1, <2>1, <3>2 DEF HostShaped
    <3>4. LinesKept'
      BY <1>0, <2>1, LinesUntouched DEF HostInv
    <3>5. ASSUME ~overlapped'
          PROVE  /\ connect'.step = "idle" /\ \A g \in Helpers : ~Hosts!Busy(helper'[g])
                 /\ Once(hosts')
                 /\ \A b \in Hosts!Blocks \ unsure' : Hosts!BlockDomains(hosts', b) = told'[b]
      <4>1. ~overlapped /\ (\A g \in Helpers \ {h} : ~Hosts!Busy(helper[g])) /\ ~Hosts!Busy(connect)
        BY <1>0, <3>5 DEF Hosts!Overlaps, Hosts!Others, HostAssumption
      <4>2. connect.step = "idle" /\ \A g \in Helpers : ~Hosts!Busy(helper[g])
        BY <1>0, <1>1, <4>1 DEF Hosts!Busy, HostShaped, Connects
      <4>3. AsTold(hosts)
        BY <4>1, <4>2 DEF HostInv, WritersAlone, Hosts!Busy
      <4>4. Hosts!BlockDomains(hosts, who) = ds
        BY <1>0, <1>1, <1>2, <2>3, Renewed
      <4>5. \A b \in Hosts!Blocks \ unsure' : Hosts!BlockDomains(hosts, b) = told'[b]
        BY <1>0, <3>1, <4>3, <4>4, Answered DEF AsTold
      <4> QED
        BY <1>0, <2>1, <4>2, <4>3, <4>5 DEF AsTold
    <3>6. WritersAlone'
      BY <3>5, CalmAfter
    <3> QED
      BY <3>3, <3>4, <3>6 DEF HostInv
  <2> QED
    BY <2>2, <2>3
<1>3. CASE ~(Hosts!Incomplete(hosts, who) \/ Hosts!UpdateManagedBlock(hosts, who, ds) = hosts)
  <2> DEFINE p == [step |-> "consent", who |-> who, domains |-> ds, new |-> <<>>]
  <2>1. /\ helper' = [helper EXCEPT ![h] = p] /\ agent' = h
        /\ told' = told /\ unsure' = unsure
    BY <1>3 DEF Hosts!Sync, Hosts!answers
  <2>2. p \in Writers /\ p.step = "consent"
    BY DEF Writers
  <2> HIDE DEF p
  <2>3. /\ helper' \in [Helpers -> Writers] /\ helper'[h].step = "consent"
        /\ \A g \in Helpers \ {h} : helper'[g] = helper[g]
    BY <1>1, <2>1, <2>2, HelperMoved
  <2>4. HostShaped'
    BY <1>0, <1>1, <2>1, <2>3 DEF HostShaped
  <2>5. LinesKept'
    BY <1>0, <2>3, LinesUntouched DEF HostInv
  <2>6. WritersAlone'
    <3> SUFFICES ASSUME ~overlapped' PROVE WritersAlone'
      BY DEF WritersAlone
    <3>1. ~overlapped /\ WritersAlone
      BY <1>0 DEF HostInv
    <3>2. \A g \in Helpers : helper'[g] = helper[g] \/ (g = h /\ helper'[g].step = "consent")
      BY <2>3
    <3> QED
      BY <1>0, <2>1, <3>1, <3>2 DEF WritersAlone, AsTold, Updates, Hosts!Busy
  <2> QED
    BY <2>4, <2>5, <2>6 DEF HostInv
<1> QED
  BY <1>2, <1>3

\* The Agent dies: its writers go on unheard.
LEMMA HostAgentDies ==
  ASSUME HostInv, Hosts!AgentDies
  PROVE  HostInv'
<1>0. /\ agent # None /\ agent' = None /\ unsure' = unsure \cup {helper[agent].who}
      /\ UNCHANGED <<mine, hosts, backup, helper, connect, told, overlapped, lost>>
  BY DEF Hosts!AgentDies
<1>1. HostShaped'
  <2>1. helper[agent].who \in Hosts!Blocks
    BY <1>0 DEF HostInv, HostShaped, Writers, Hosts!Blocks
  <2> QED
    BY <1>0, <2>1 DEF HostInv, HostShaped
<1>2. LinesKept'
  BY <1>0, LinesUntouched DEF HostInv
<1>3. WritersAlone'
  BY <1>0 DEF HostInv, WritersAlone, AsTold, Updates, Hosts!Busy
<1> QED
  BY <1>1, <1>2, <1>3 DEF HostInv

\* The user refuses.
LEMMA HostRefuse ==
  ASSUME HostInv, NEW h \in Helpers, Hosts!Refuse(h)
  PROVE  HostInv'
<1>0. /\ helper[h].step = "consent" /\ Hosts!Leave(h) /\ Hosts!Finish(h, FALSE)
      /\ UNCHANGED <<mine, hosts, backup, connect, overlapped, lost>>
  BY DEF Hosts!Refuse, Hosts!Finish
<1>1. told' = told /\ unsure' = unsure
  BY <1>0 DEF Hosts!Finish, Hosts!Answer, Hosts!answers
<1>2. /\ helper' \in [Helpers -> Writers] /\ helper'[h].step = "idle"
      /\ \A g \in Helpers \ {h} : helper'[g] = helper[g]
      /\ agent' \in Helpers \cup {None}
  BY <1>0, HelperLeft
<1>3. HostShaped'
  BY <1>0, <1>1, <1>2 DEF HostInv, HostShaped
<1>4. LinesKept'
  BY <1>0, <1>2, LinesUntouched DEF HostInv
<1>5. WritersAlone'
  BY <1>0, <1>1, <1>2 DEF HostInv, WritersAlone, AsTold, Updates, Hosts!Busy
<1> QED
  BY <1>3, <1>4, <1>5 DEF HostInv

\* The elevated Helper works out the new file, or has nothing to do.
LEMMA HostConsent ==
  ASSUME HostAssumption, HostInv, NEW h \in Helpers, Hosts!Consent(h)
  PROVE  HostInv'
<1> DEFINE who == helper[h].who
           ds == helper[h].domains
           new == Hosts!UpdateManagedBlock(hosts, who, ds)
           p == [helper[h] EXCEPT !.step = "backup", !.new = new]
<1>0. /\ helper[h].step = "consent" /\ overlapped' = (overlapped \/ Hosts!Overlaps(h))
      /\ UNCHANGED <<mine, hosts, backup, connect, lost>>
  BY DEF Hosts!Consent
<1>1. HostShaped /\ hosts \in Seq(Items) /\ helper[h] \in Writers
  BY DEF HostInv, HostShaped
<1>2. who \in Hosts!Blocks /\ ds \in Hosts!Wants
  BY <1>1 DEF Writers, Hosts!Blocks
<1>3. ASSUME ~overlapped'
      PROVE  /\ ~overlapped /\ connect.step = "idle"
             /\ \A g \in Helpers : ~Hosts!Busy(helper[g])
             /\ AsTold(hosts)
  <2>1. ~overlapped /\ (\A g \in Helpers \ {h} : ~Hosts!Busy(helper[g])) /\ ~Hosts!Busy(connect)
    BY <1>0, <1>3 DEF Hosts!Overlaps, Hosts!Others, HostAssumption
  <2>2. connect.step = "idle" /\ \A g \in Helpers : ~Hosts!Busy(helper[g])
    BY <1>0, <1>1, <2>1 DEF Hosts!Busy, HostShaped, Connects
  <2>3. AsTold(hosts)
    BY <2>1, <2>2 DEF HostInv, WritersAlone, Hosts!Busy
  <2> QED
    BY <2>1, <2>2, <2>3
<1>4. CASE Hosts!Incomplete(hosts, who) \/ new = hosts
  <2>1. Hosts!Finish(h, ~Hosts!Incomplete(hosts, who)) /\ Hosts!Leave(h)
    BY <1>4 DEF Hosts!Consent, Hosts!Finish
  <2>2. /\ helper' \in [Helpers -> Writers] /\ helper'[h].step = "idle"
        /\ \A g \in Helpers \ {h} : helper'[g] = helper[g]
        /\ agent' \in Helpers \cup {None}
    BY <2>1, HelperLeft
  <2>3. told' \in [Hosts!Blocks -> Hosts!Wants] /\ unsure' \subseteq Hosts!Blocks
    BY <1>1, <1>2, <2>1 DEF Hosts!Finish, Hosts!Answer, Hosts!answers, HostShaped
  <2>4. HostShaped'
    BY <1>0, <1>1, <2>2, <2>3 DEF HostShaped
  <2>5. LinesKept'
    BY <1>0, <2>2, LinesUntouched DEF HostInv
  <2>6. ~Hosts!Incomplete(hosts, who) => Hosts!BlockDomains(hosts, who) = ds
    BY <1>1, <1>2, <1>4, Renewed
  <2>7. ASSUME ~overlapped'
        PROVE  /\ connect'.step = "idle" /\ \A g \in Helpers : ~Hosts!Busy(helper'[g])
               /\ Once(hosts')
               /\ \A b \in Hosts!Blocks \ unsure' : Hosts!BlockDomains(hosts', b) = told'[b]
    <3>1. \A b \in Hosts!Blocks \ unsure : Hosts!BlockDomains(hosts, b) = told[b]
      BY <1>3, <2>7 DEF AsTold
    <3> DEFINE ok == ~Hosts!Incomplete(hosts, who)
    <3>2. ok \in BOOLEAN /\ Hosts!Finish(h, ok) /\ (ok => Hosts!BlockDomains(hosts, helper[h].who) = helper[h].domains)
      BY <2>1, <2>6 DEF Hosts!Incomplete
    <3> HIDE DEF ok
    <3>3. \A b \in Hosts!Blocks \ unsure' : Hosts!BlockDomains(hosts, b) = told'[b]
      BY <3>1, <3>2, HelperAnswered
    <3> QED
      BY <1>0, <1>3, <2>2, <2>7, <3>3 DEF AsTold, Hosts!Busy
  <2>8. WritersAlone'
    BY <2>7, CalmAfter
  <2> QED
    BY <2>4, <2>5, <2>8 DEF HostInv
<1>5. CASE ~(Hosts!Incomplete(hosts, who) \/ new = hosts)
  <2>1. /\ helper' = [helper EXCEPT ![h].step = "backup", ![h].new = new]
        /\ UNCHANGED <<agent, told, unsure>>
    BY <1>5 DEF Hosts!Consent, Hosts!answers
  <2>2. new \in Seq(Items)
    BY <1>1, <1>2, <1>5, Renewed
  <2> HIDE DEF new
  <2>3. p \in Writers /\ p.step = "backup" /\ p.who = who /\ p.domains = ds /\ p.new = new
    BY <1>1, <2>2 DEF Writers
  <2>4. helper' = [helper EXCEPT ![h] = p]
    BY <1>1, <2>1 DEF HostShaped, Writers
  <2> HIDE DEF p
  <2>5. /\ helper' \in [Helpers -> Writers] /\ helper'[h] = p
        /\ \A g \in Helpers \ {h} : helper'[g] = helper[g]
    BY <1>1, <2>3, <2>4, HelperMoved
  <2>6. HostShaped'
    BY <1>0, <1>1, <2>1, <2>5 DEF HostShaped
  <2>7. LinesKept'
    BY <1>0, <2>3, <2>5, LinesUntouched DEF HostInv
  <2>8. Updates(hosts, helper'[h])
    BY <1>5, <2>3, <2>5 DEF Updates, new
  <2>9. WritersAlone'
    BY <1>0, <1>3, <2>1, <2>3, <2>5, <2>8 DEF WritersAlone, AsTold, Updates, Hosts!Busy
  <2> QED
    BY <2>6, <2>7, <2>9 DEF HostInv
<1> QED
  BY <1>4, <1>5

\* The file becomes the backup, with all its lines or with a loss on record.
LEMMA HostCopyBackup ==
  ASSUME HostInv, NEW h \in Helpers, Hosts!CopyBackup(h)
  PROVE  HostInv'
<1>0. /\ helper[h].step = "backup" /\ helper' = [helper EXCEPT ![h].step = "truncate"]
      /\ backup' = hosts /\ lost' = (lost \/ Hosts!Torn(hosts))
      /\ UNCHANGED <<mine, hosts, agent, connect, told, unsure, overlapped>>
  BY DEF Hosts!CopyBackup, Hosts!Copy, Hosts!answers
<1>1. HostShaped
  BY DEF HostInv
<1>2. /\ helper' \in [Helpers -> Writers] /\ helper'[h].step = "truncate"
      /\ helper'[h].who = helper[h].who /\ helper'[h].domains = helper[h].domains
      /\ helper'[h].new = helper[h].new
      /\ \A g \in Helpers \ {h} : helper'[g] = helper[g]
  BY <1>0, <1>1, HelperStepped
<1>3. HostShaped'
  BY <1>0, <1>1, <1>2 DEF HostShaped, Hosts!Torn
<1>4. ~lost' => mine \subseteq Hosts!LinesOf(hosts)
  BY <1>0 DEF Hosts!Torn
<1>5. LinesKept'
  BY <1>0, <1>4 DEF LinesKept, Hosts!LinesRecoverable
<1>6. WritersAlone'
  <2> SUFFICES ASSUME ~overlapped' PROVE WritersAlone'
    BY DEF WritersAlone
  <2>1. ~overlapped /\ WritersAlone /\ Hosts!Busy(helper[h])
    BY <1>0 DEF HostInv, Hosts!Busy
  <2>2. connect.step = "idle" /\ \A g \in Helpers \ {h} : ~Hosts!Busy(helper[g])
    BY <2>1, WorksAlone
  <2>3. Updates(hosts, helper[h])
    BY <1>0, <2>1 DEF WritersAlone
  <2>4. Updates(hosts, helper'[h])
    BY <1>2, <2>3 DEF Updates
  <2>5. AsTold(hosts)
    BY <1>0, <2>1, <2>2 DEF WritersAlone, Hosts!Busy
  <2> QED
    BY <1>0, <1>2, <2>2, <2>4, <2>5 DEF WritersAlone, AsTold, Updates, Hosts!Busy
<1> QED
  BY <1>3, <1>5, <1>6 DEF HostInv

\* The file is empty; the backup is what it was.
LEMMA HostTruncate ==
  ASSUME HostInv, NEW h \in Helpers, Hosts!Truncate(h)
  PROVE  HostInv'
<1>0. /\ helper[h].step = "truncate" /\ helper' = [helper EXCEPT ![h].step = "write"]
      /\ hosts' = <<>>
      /\ UNCHANGED <<mine, backup, agent, connect, told, unsure, overlapped, lost>>
  BY DEF Hosts!Truncate, Hosts!answers
<1>1. HostShaped
  BY DEF HostInv
<1>2. /\ helper' \in [Helpers -> Writers] /\ helper'[h].step = "write"
      /\ helper'[h].who = helper[h].who /\ helper'[h].domains = helper[h].domains
      /\ helper'[h].new = helper[h].new
      /\ \A g \in Helpers \ {h} : helper'[g] = helper[g]
  BY <1>0, <1>1, HelperStepped
<1>3. HostShaped'
  BY <1>0, <1>1, <1>2 DEF HostShaped
<1>4. ~lost => mine \subseteq Hosts!LinesOf(backup)
  BY <1>0 DEF HostInv, LinesKept
<1>5. LinesKept'
  BY <1>0, <1>4, LinesBackedUp DEF HostInv
<1>6. WritersAlone'
  <2> SUFFICES ASSUME ~overlapped' PROVE WritersAlone'
    BY DEF WritersAlone
  <2>1. ~overlapped /\ WritersAlone /\ Hosts!Busy(helper[h])
    BY <1>0 DEF HostInv, Hosts!Busy
  <2>2. connect.step = "idle" /\ \A g \in Helpers \ {h} : ~Hosts!Busy(helper[g])
    BY <2>1, WorksAlone
  <2>3. Updates(hosts, helper[h]) /\ backup = hosts
    BY <1>0, <2>1 DEF WritersAlone
  <2>4. Updates(backup, helper'[h])
    BY <1>2, <2>3 DEF Updates
  <2>5. AsTold(backup)
    BY <1>0, <2>1, <2>2, <2>3 DEF WritersAlone, Hosts!Busy
  <2> QED
    BY <1>0, <1>2, <2>2, <2>4, <2>5 DEF WritersAlone, AsTold, Updates, Hosts!Busy
<1> QED
  BY <1>3, <1>5, <1>6 DEF HostInv

\* The new file is whole.
LEMMA HostWrite ==
  ASSUME HostAssumption, HostInv, NEW h \in Helpers, Hosts!Write(h)
  PROVE  HostInv'
<1>0. /\ helper[h].step = "write" /\ hosts' = helper[h].new
      /\ Hosts!Finish(h, TRUE) /\ Hosts!Leave(h)
      /\ UNCHANGED <<mine, backup, connect, overlapped, lost>>
  BY DEF Hosts!Write, Hosts!Finish
<1>1. HostShaped /\ backup \in Seq(Items) /\ helper[h] \in Writers /\ Hosts!Busy(helper[h])
  BY <1>0 DEF HostInv, HostShaped, Hosts!Busy
<1>2. helper[h].who \in Hosts!Blocks /\ helper[h].domains \in Hosts!Wants /\ helper[h].new \in Seq(Items)
  BY <1>1 DEF Writers, Hosts!Blocks
<1>3. /\ helper' \in [Helpers -> Writers] /\ helper'[h].step = "idle"
      /\ \A g \in Helpers \ {h} : helper'[g] = helper[g]
      /\ agent' \in Helpers \cup {None}
  BY <1>0, HelperLeft
<1>4. told' \in [Hosts!Blocks -> Hosts!Wants] /\ unsure' \subseteq Hosts!Blocks
  BY <1>0, <1>1, <1>2 DEF Hosts!Finish, Hosts!Answer, HostShaped
<1>5. HostShaped'
  BY <1>0, <1>1, <1>2, <1>3, <1>4 DEF HostShaped
<1>6. ~lost => mine \subseteq Hosts!LinesOf(backup)
  BY <1>0 DEF HostInv, LinesKept
<1>7. LinesKept'
  BY <1>0, <1>6, LinesBackedUp DEF HostInv
<1>8. ASSUME ~overlapped'
      PROVE  /\ connect'.step = "idle" /\ \A g \in Helpers : ~Hosts!Busy(helper'[g])
             /\ Once(hosts')
             /\ \A b \in Hosts!Blocks \ unsure' : Hosts!BlockDomains(hosts', b) = told'[b]
  <2>1. connect.step = "idle" /\ \A g \in Helpers \ {h} : ~Hosts!Busy(helper[g])
    BY <1>0, <1>1, <1>8, WorksAlone
  <2>2. AsTold(backup) /\ Updates(backup, helper[h])
    BY <1>0, <1>8 DEF HostInv, WritersAlone
  <2>3. /\ Hosts!BlockDomains(hosts', helper[h].who) = helper[h].domains
        /\ \A b \in Hosts!Blocks \ {helper[h].who} :
             Hosts!BlockDomains(hosts', b) = Hosts!BlockDomains(backup, b)
        /\ Once(hosts')
    BY <1>0, <1>1, <1>2, <2>2, Renewed DEF Updates, AsTold
  <2>4. \A b \in Hosts!Blocks \ (unsure \cup {helper[h].who}) :
          Hosts!BlockDomains(hosts', b) = told[b]
    BY <2>2, <2>3 DEF AsTold
  <2>5. \A b \in Hosts!Blocks \ unsure' : Hosts!BlockDomains(hosts', b) = told'[b]
    <3> DEFINE ok == TRUE
    <3>1. \A b \in Hosts!Blocks \ (unsure \cup (IF ok THEN {helper[h].who} ELSE {})) :
            Hosts!BlockDomains(hosts', b) = told[b]
      BY <2>4
    <3>2. ok \in BOOLEAN /\ Hosts!Finish(h, ok)
      BY <1>0
    <3> HIDE DEF ok
    <3> QED
      BY <2>3, <3>1, <3>2, HelperAnswered
  <2>6. \A g \in Helpers : ~Hosts!Busy(helper'[g])
    BY <1>3, <2>1 DEF Hosts!Busy
  <2> QED
    BY <1>0, <2>1, <2>3, <2>5, <2>6
<1>9. WritersAlone'
  BY <1>8, CalmAfter
<1> QED
  BY <1>5, <1>7, <1>9 DEF HostInv

\* The write is cut short: the Helper has its backup to put back.
LEMMA HostWriteFails ==
  ASSUME HostAssumption, HostInv, NEW h \in Helpers, Hosts!WriteFails(h)
  PROVE  HostInv'
<1>0. /\ helper[h].step = "write" /\ hosts' \in Hosts!Beginnings(helper[h].new)
      /\ helper' = [helper EXCEPT ![h].step = "restore"]
      /\ UNCHANGED <<mine, backup, agent, connect, told, unsure, overlapped, lost>>
  BY DEF Hosts!WriteFails, Hosts!answers
<1>1. HostShaped /\ backup \in Seq(Items) /\ helper[h] \in Writers /\ Hosts!Busy(helper[h])
  BY <1>0 DEF HostInv, HostShaped, Hosts!Busy
<1>2. helper[h].who \in Hosts!Blocks /\ helper[h].domains \in Hosts!Wants /\ helper[h].new \in Seq(Items)
  BY <1>1 DEF Writers, Hosts!Blocks
<1>3. /\ helper' \in [Helpers -> Writers] /\ helper'[h].step = "restore"
      /\ \A g \in Helpers \ {h} : helper'[g] = helper[g]
  BY <1>0, <1>1, HelperStepped
<1>4. hosts' \in Seq(Items) /\ (Once(helper[h].new) => Once(hosts'))
  BY <1>0, <1>2, Begun
<1>5. HostShaped'
  BY <1>0, <1>1, <1>3, <1>4 DEF HostShaped
<1>6. ~lost => mine \subseteq Hosts!LinesOf(backup)
  BY <1>0 DEF HostInv, LinesKept
<1>7. LinesKept'
  BY <1>0, <1>6, LinesBackedUp DEF HostInv
<1>8. WritersAlone'
  <2> SUFFICES ASSUME ~overlapped' PROVE WritersAlone'
    BY DEF WritersAlone
  <2>1. ~overlapped /\ WritersAlone
    BY <1>0 DEF HostInv
  <2>2. connect.step = "idle" /\ \A g \in Helpers \ {h} : ~Hosts!Busy(helper[g])
    BY <1>1, <2>1, WorksAlone
  <2>3. AsTold(backup) /\ Updates(backup, helper[h])
    BY <1>0, <2>1 DEF WritersAlone
  <2>4. Once(hosts')
    BY <1>1, <1>2, <1>4, <2>3, Renewed DEF Updates, AsTold
  <2> QED
    BY <1>0, <1>3, <2>2, <2>3, <2>4 DEF WritersAlone, AsTold, Updates, Hosts!Busy
<1> QED
  BY <1>5, <1>7, <1>8 DEF HostInv

\* The backup is the file again.
LEMMA HostRestore ==
  ASSUME HostAssumption, HostInv, NEW h \in Helpers, Hosts!Restore(h)
  PROVE  HostInv'
<1>0. /\ helper[h].step = "restore" /\ hosts' = backup
      /\ Hosts!Finish(h, FALSE) /\ Hosts!Leave(h)
      /\ UNCHANGED <<mine, backup, connect, overlapped, lost>>
  BY DEF Hosts!Restore, Hosts!RestoreHosts, Hosts!Finish
<1>1. HostShaped /\ Hosts!Busy(helper[h]) /\ told' = told /\ unsure' = unsure
  BY <1>0 DEF HostInv, Hosts!Busy, Hosts!Finish, Hosts!Answer, Hosts!answers
<1>2. /\ helper' \in [Helpers -> Writers] /\ helper'[h].step = "idle"
      /\ \A g \in Helpers \ {h} : helper'[g] = helper[g]
      /\ agent' \in Helpers \cup {None}
  BY <1>0, HelperLeft
<1>3. HostShaped'
  BY <1>0, <1>1, <1>2 DEF HostShaped
<1>4. ~lost => mine \subseteq Hosts!LinesOf(backup)
  BY <1>0 DEF HostInv, LinesKept
<1>5. LinesKept'
  BY <1>0, <1>4, LinesBackedUp DEF HostInv
<1>6. ASSUME ~overlapped'
      PROVE  /\ connect'.step = "idle" /\ \A g \in Helpers : ~Hosts!Busy(helper'[g])
             /\ Once(hosts')
             /\ \A b \in Hosts!Blocks \ unsure' : Hosts!BlockDomains(hosts', b) = told'[b]
  <2>1. connect.step = "idle" /\ \A g \in Helpers \ {h} : ~Hosts!Busy(helper[g])
    BY <1>0, <1>1, <1>6, WorksAlone
  <2>2. AsTold(backup)
    BY <1>0, <1>6 DEF HostInv, WritersAlone
  <2> QED
    BY <1>0, <1>1, <1>2, <2>1, <2>2 DEF AsTold, Hosts!Busy
<1>7. WritersAlone'
  BY <1>6, CalmAfter
<1> QED
  BY <1>3, <1>5, <1>7 DEF HostInv

\* A Helper dies: what it had written stays, and nobody knows what that is.
LEMMA HostHelperDies ==
  ASSUME HostAssumption, HostInv, NEW h \in Helpers, Hosts!HelperDies(h)
  PROVE  HostInv'
<1>0. /\ Hosts!Busy(helper[h]) /\ Hosts!Leave(h)
      /\ UNCHANGED <<mine, backup, connect, told, overlapped, lost>>
      /\ unsure' = IF helper[h].step \in {"write", "restore"} THEN Hosts!Blocks ELSE unsure
  BY DEF Hosts!HelperDies
<1>1. HostShaped /\ backup \in Seq(Items) /\ hosts \in Seq(Items) /\ helper[h] \in Writers
  BY DEF HostInv, HostShaped
<1>2. helper[h].who \in Hosts!Blocks /\ helper[h].domains \in Hosts!Wants /\ helper[h].new \in Seq(Items)
  BY <1>1 DEF Writers, Hosts!Blocks
<1>3. /\ helper' \in [Helpers -> Writers] /\ helper'[h].step = "idle"
      /\ \A g \in Helpers \ {h} : helper'[g] = helper[g]
      /\ agent' \in Helpers \cup {None}
  BY <1>0, HelperLeft
<1>4. unsure' \subseteq Hosts!Blocks
  BY <1>0, <1>1 DEF HostShaped
<1>5. CASE helper[h].step = "write"
  <2>1. hosts' \in Hosts!Beginnings(helper[h].new)
    BY <1>5 DEF Hosts!HelperDies
  <2>2. hosts' \in Seq(Items) /\ (Once(helper[h].new) => Once(hosts'))
    BY <1>2, <2>1, Begun
  <2>3. HostShaped'
    BY <1>0, <1>1, <1>3, <1>4, <2>2 DEF HostShaped
  <2>4. ~lost => mine \subseteq Hosts!LinesOf(backup)
    BY <1>5 DEF HostInv, LinesKept
  <2>5. mine' = mine /\ backup' = backup /\ lost' = lost /\ connect' = connect
    BY <1>0
  <2>6. LinesKept'
    BY <2>4, <2>5, LinesBackedUp DEF HostInv
  <2>7. ASSUME ~overlapped'
        PROVE  /\ connect'.step = "idle" /\ \A g \in Helpers : ~Hosts!Busy(helper'[g])
               /\ Once(hosts')
               /\ \A b \in Hosts!Blocks \ unsure' : Hosts!BlockDomains(hosts', b) = told'[b]
    <3>1. connect.step = "idle" /\ \A g \in Helpers \ {h} : ~Hosts!Busy(helper[g])
      BY <1>0, <2>7, WorksAlone
    <3>2. AsTold(backup) /\ Updates(backup, helper[h])
      BY <1>0, <1>5, <2>7 DEF HostInv, WritersAlone
    <3>3. Once(hosts')
      BY <1>1, <1>2, <2>2, <3>2, Renewed DEF Updates, AsTold
    <3>4. unsure' = Hosts!Blocks
      BY <1>0, <1>5
    <3> QED
      BY <1>0, <1>3, <3>1, <3>3, <3>4 DEF Hosts!Busy
  <2>8. WritersAlone'
    BY <2>7, CalmAfter
  <2> QED
    BY <2>3, <2>6, <2>8 DEF HostInv
<1>6. CASE helper[h].step # "write"
  <2>1. hosts' = hosts
    BY <1>6 DEF Hosts!HelperDies
  <2>2. HostShaped'
    BY <1>0, <1>1, <1>3, <1>4, <2>1 DEF HostShaped
  <2>3. LinesKept'
    BY <1>0, <1>3, <2>1, LinesUntouched DEF HostInv
  <2>4. ASSUME ~overlapped'
        PROVE  /\ connect'.step = "idle" /\ \A g \in Helpers : ~Hosts!Busy(helper'[g])
               /\ Once(hosts')
               /\ \A b \in Hosts!Blocks \ unsure' : Hosts!BlockDomains(hosts', b) = told'[b]
    <3>1. connect.step = "idle" /\ \A g \in Helpers \ {h} : ~Hosts!Busy(helper[g])
      BY <1>0, <2>4, WorksAlone
    <3>2. CASE helper[h].step = "restore"
      <4>1. Once(hosts)
        BY <1>0, <2>4, <3>2 DEF HostInv, WritersAlone
      <4> QED
        BY <1>0, <1>3, <2>1, <3>1, <3>2, <4>1 DEF Hosts!Busy
    <3>3. CASE helper[h].step # "restore"
      <4>1. \A g \in Helpers : helper[g].step \notin {"write", "restore"}
        BY <1>6, <3>1, <3>3 DEF Hosts!Busy
      <4>2. AsTold(hosts)
        BY <1>0, <2>4, <4>1 DEF HostInv, WritersAlone
      <4> QED
        BY <1>0, <1>3, <1>6, <2>1, <3>1, <3>3, <4>2 DEF AsTold, Hosts!Busy
    <3> QED
      BY <3>2, <3>3
  <2>5. WritersAlone'
    BY <2>4, CalmAfter
  <2> QED
    BY <2>2, <2>3, <2>5 DEF HostInv
<1> QED
  BY <1>5, <1>6

\* Connect reads: what it will write keeps every line and every block but its own.
LEMMA HostConnectReads ==
  ASSUME HostAssumption, HostInv, NEW ds \in Hosts!Wants, Hosts!ConnectReads(ds)
  PROVE  HostInv'
<1>0. connect.step = "idle" /\ UNCHANGED <<mine, hosts, backup, helper, agent, told, unsure, lost>>
  BY DEF Hosts!ConnectReads, Hosts!answers
<1>1. HostShaped /\ hosts \in Seq(Items) /\ connect \in Connects
  BY DEF HostInv, HostShaped
<1>2. CASE Hosts!Incomplete(hosts, "connect") \/ (ds # {} /\ Hosts!Taken(hosts, ds))
  <2>1. connect' = [connect EXCEPT !.on = FALSE, !.domains = {}] /\ overlapped' = overlapped
    BY <1>2 DEF Hosts!ConnectReads
  <2>2. connect' \in Connects /\ connect'.step = "idle"
    BY <1>0, <1>1, <2>1 DEF Connects, Hosts!Wants
  <2>3. HostShaped'
    BY <1>0, <1>1, <2>1, <2>2 DEF HostShaped
  <2>4. LinesKept'
    BY <1>0, <2>2, LinesUntouched DEF HostInv
  <2>5. WritersAlone'
    BY <1>0, <2>1, <2>2 DEF HostInv, WritersAlone, AsTold, Updates, Hosts!Busy
  <2> QED
    BY <2>3, <2>4, <2>5 DEF HostInv
<1>3. CASE ~(Hosts!Incomplete(hosts, "connect") \/ (ds # {} /\ Hosts!Taken(hosts, ds)))
  <2> DEFINE new == Hosts!UpdateManagedBlock(hosts, "connect", ds)
  <2>1. /\ connect' = [connect EXCEPT !.step = "replace", !.domains = ds, !.on = FALSE, !.new = new]
        /\ overlapped' = (overlapped \/ Hosts!Overlaps("connect"))
    BY <1>3 DEF Hosts!ConnectReads
  <2>2. "connect" \in Hosts!Blocks /\ ~Hosts!Incomplete(hosts, "connect")
    BY <1>3 DEF Hosts!Blocks
  <2>3. new \in Seq(Items) /\ Hosts!LinesOf(new) = Hosts!LinesOf(hosts)
    BY <1>1, <2>2, Renewed
  <2>4. new = Hosts!UpdateManagedBlock(hosts, "connect", ds)
    OBVIOUS
  <2> HIDE DEF new
  <2>5. /\ connect' \in Connects /\ connect'.step = "replace"
        /\ connect'.domains = ds /\ connect'.new = new
    BY <1>1, <2>1, <2>3 DEF Connects
  <2>6. HostShaped'
    BY <1>0, <1>1, <2>1, <2>5 DEF HostShaped
  <2>7. LinesKept'
    BY <1>0, <2>3, <2>5, LinesUntouched DEF HostInv
  <2>8. WritersAlone'
    <3> SUFFICES ASSUME ~overlapped' PROVE WritersAlone'
      BY DEF WritersAlone
    <3>1. ~overlapped /\ WritersAlone /\ \A g \in Helpers : ~Hosts!Busy(helper[g])
      BY <2>1 DEF HostInv, Hosts!Overlaps, Hosts!Others, HostAssumption
    <3>2. AsTold(hosts)
      BY <3>1 DEF WritersAlone, Hosts!Busy
    <3> QED
      BY <1>0, <2>2, <2>4, <2>5, <3>1, <3>2 DEF WritersAlone, AsTold, Updates, Hosts!Busy
  <2> QED
    BY <2>6, <2>7, <2>8 DEF HostInv
<1> QED
  BY <1>2, <1>3

\* Connect's file in the place of the old one.
LEMMA HostConnectReplaces ==
  ASSUME HostAssumption, HostInv, Hosts!ConnectReplaces
  PROVE  HostInv'
<1>0. /\ connect.step = "replace" /\ hosts' = connect.new
      /\ connect' = [connect EXCEPT !.step = "idle", !.on = connect.domains # {}, !.new = <<>>]
      /\ told' = [told EXCEPT !["connect"] = connect.domains] /\ unsure' = unsure \ {"connect"}
      /\ UNCHANGED <<mine, backup, helper, agent, overlapped, lost>>
  BY DEF Hosts!ConnectReplaces, Hosts!Answer
<1>1. HostShaped /\ hosts \in Seq(Items) /\ connect \in Connects /\ "connect" \in Hosts!Blocks
  BY DEF HostInv, HostShaped, Hosts!Blocks
<1>2. connect.new \in Seq(Items) /\ connect.domains \in Hosts!Wants
  BY <1>1 DEF Connects
<1>3. connect' \in Connects /\ connect'.step = "idle"
  <2>1. (connect.domains # {}) \in BOOLEAN /\ <<>> \in Seq(Items)
    OBVIOUS
  <2> QED
    BY <1>0, <1>1, <2>1 DEF Connects
<1>4. told' \in [Hosts!Blocks -> Hosts!Wants] /\ unsure' \subseteq Hosts!Blocks
  BY <1>0, <1>1, <1>2 DEF HostShaped
<1>5. HostShaped'
  BY <1>0, <1>1, <1>2, <1>3, <1>4 DEF HostShaped
<1>6. LinesKept'
  BY <1>0, <1>3 DEF HostInv, LinesKept, Hosts!LinesRecoverable
<1>7. ASSUME ~overlapped'
      PROVE  /\ connect'.step = "idle" /\ \A g \in Helpers : ~Hosts!Busy(helper'[g])
             /\ Once(hosts')
             /\ \A b \in Hosts!Blocks \ unsure' : Hosts!BlockDomains(hosts', b) = told'[b]
  <2>1. ~overlapped /\ WritersAlone /\ Hosts!Busy(connect)
    BY <1>0, <1>7 DEF HostInv, Hosts!Busy
  <2>2. \A g \in Helpers : ~Hosts!Busy(helper[g])
    BY <2>1 DEF WritersAlone
  <2>3. AsTold(hosts)
    BY <2>1, <2>2 DEF WritersAlone, Hosts!Busy
  <2>4. /\ ~Hosts!Incomplete(hosts, "connect")
        /\ hosts' = Hosts!UpdateManagedBlock(hosts, "connect", connect.domains)
    BY <1>0, <2>1 DEF WritersAlone
  <2>5. /\ Hosts!BlockDomains(hosts', "connect") = connect.domains
        /\ \A b \in Hosts!Blocks \ {"connect"} :
             Hosts!BlockDomains(hosts', b) = Hosts!BlockDomains(hosts, b)
        /\ Once(hosts')
    BY <1>1, <1>2, <2>3, <2>4, Renewed DEF AsTold
  <2>6. \A b \in Hosts!Blocks \ (unsure \cup {"connect"}) : Hosts!BlockDomains(hosts', b) = told[b]
    BY <2>3, <2>5 DEF AsTold
  <2>7. \A b \in Hosts!Blocks \ unsure' : Hosts!BlockDomains(hosts', b) = told'[b]
    BY <1>0, <1>1, <1>2, <2>5, <2>6, Answered
  <2> QED
    BY <1>0, <1>3, <2>2, <2>5, <2>7
<1>8. WritersAlone'
  BY <1>7, CalmAfter
<1> QED
  BY <1>5, <1>6, <1>8 DEF HostInv

\* Connect writes nothing.
LEMMA HostConnectFails ==
  ASSUME HostInv, Hosts!ConnectFails
  PROVE  HostInv'
<1>0. /\ connect' = [connect EXCEPT !.step = "idle", !.new = <<>>]
      /\ UNCHANGED <<mine, hosts, backup, helper, agent, told, unsure, overlapped, lost>>
  BY DEF Hosts!ConnectFails, Hosts!answers
<1>1. HostShaped /\ connect \in Connects
  BY DEF HostInv, HostShaped
<1>2. connect' \in Connects /\ connect'.step = "idle"
  <2>1. <<>> \in Seq(Items)
    OBVIOUS
  <2> QED
    BY <1>0, <1>1, <2>1 DEF Connects
<1>3. HostShaped'
  BY <1>0, <1>1, <1>2 DEF HostShaped
<1>4. LinesKept'
  BY <1>0, <1>2, LinesUntouched DEF HostInv
<1>5. WritersAlone'
  BY <1>0, <1>2 DEF HostInv, WritersAlone, AsTold, Updates, Hosts!Busy
<1> QED
  BY <1>3, <1>4, <1>5 DEF HostInv

\* While nothing is asked and nobody writes, the file is as its owners were told.
LEMMA QuietFile ==
  ASSUME HostInv, Hosts!Quiet
  PROVE  /\ connect.step = "idle" /\ \A h \in Helpers : helper[h].step = "idle"
         /\ ~overlapped => AsTold(hosts)
BY DEF HostInv, WritersAlone, Hosts!Quiet

\* A line put before the others.
LEMMA Headed ==
  ASSUME HostAssumption, NEW f \in Seq(Items), NEW l \in Lines
  PROVE  LET g == <<l>> \o f IN
         /\ g \in Seq(Items) /\ Hosts!LinesOf(g) = Hosts!LinesOf(f) \cup {l}
         /\ \A b \in Hosts!Blocks : Hosts!BlockDomains(g, b) = Hosts!BlockDomains(f, b)
         /\ Once(f) => Once(g)
<1> DEFINE g == <<l>> \o f
<1>1. l \in Items /\ ~Hosts!IsBlock(l) /\ Hosts!OwnerOf(l) = "user"
  BY DEF Items, Hosts!IsBlock, Hosts!OwnerOf
<1>2. g \in Seq(Items) /\ Len(g) = Len(f) + 1
  BY <1>1, ConcatProperties
<1>3. Len(f) \in Nat /\ g[1] = l /\ \A i \in 1..Len(f) : g[i + 1] = f[i]
  OBVIOUS
<1> HIDE DEF g
<1>4. \A j \in 1..Len(g) : j = 1 \/ (j - 1 \in 1..Len(f) /\ g[j] = f[j - 1])
  BY <1>2, <1>3
<1>5. \A i \in 1..Len(f) : i + 1 \in 1..Len(g) /\ g[i + 1] = f[i]
  BY <1>2, <1>3
<1>6. 1 \in 1..Len(g)
  BY <1>2, <1>3
<1>7. Hosts!LinesOf(g) = Hosts!LinesOf(f) \cup {l}
  <2>1. \A x \in Hosts!LinesOf(g) : x \in Hosts!LinesOf(f) \cup {l}
    BY <1>3, <1>4 DEF Hosts!LinesOf
  <2>2. \A x \in Hosts!LinesOf(f) : x \in Hosts!LinesOf(g)
    BY <1>5 DEF Hosts!LinesOf
  <2>3. l \in Hosts!LinesOf(g)
    BY <1>1, <1>3, <1>6 DEF Hosts!LinesOf
  <2> QED
    BY <2>1, <2>2, <2>3
<1>8. "user" \notin Hosts!Blocks
  BY HostItems
<1>9. \A b \in Hosts!Blocks : \A j \in Hosts!BlocksOf(g, b) :
        j \in 1..Len(g) /\ j # 1 /\ j - 1 \in Hosts!BlocksOf(f, b) /\ g[j] = f[j - 1]
  BY <1>1, <1>3, <1>4, <1>8 DEF Hosts!BlocksOf
<1>10. \A b \in Hosts!Blocks : \A i \in Hosts!BlocksOf(f, b) :
         i + 1 \in Hosts!BlocksOf(g, b) /\ g[i + 1] = f[i]
  BY <1>5 DEF Hosts!BlocksOf
<1>11. \A b \in Hosts!Blocks : Hosts!BlockDomains(g, b) = Hosts!BlockDomains(f, b)
  BY <1>9, <1>10 DEF Hosts!BlockDomains
<1>12. Once(f) => Once(g)
  <2> SUFFICES ASSUME Once(f), NEW b \in Hosts!Blocks,
                      NEW i \in Hosts!BlocksOf(g, b), NEW j \in Hosts!BlocksOf(g, b)
               PROVE  i = j
    BY DEF Once
  <2>1. i \in Int /\ j \in Int /\ i - 1 \in Hosts!BlocksOf(f, b) /\ j - 1 \in Hosts!BlocksOf(f, b)
    BY <1>9
  <2>2. i - 1 = j - 1
    BY <2>1 DEF Once
  <2> QED
    BY <2>1, <2>2
<1> QED
  BY <1>2, <1>7, <1>11, <1>12 DEF g

\* The user adds a line.
LEMMA HostEdit ==
  ASSUME HostAssumption, HostInv, NEW l \in Lines, Hosts!Edit(l)
  PROVE  HostInv'
<1>0. /\ Hosts!Quiet /\ mine' = mine \cup {l} /\ hosts' = <<l>> \o hosts
      /\ UNCHANGED <<backup, helper, agent, connect, told, unsure, overlapped, lost>>
  BY DEF Hosts!Edit, Hosts!answers
<1>1. HostShaped /\ hosts \in Seq(Items)
  BY DEF HostInv, HostShaped
<1>2. /\ connect.step = "idle" /\ \A h \in Helpers : helper[h].step = "idle"
      /\ ~overlapped => AsTold(hosts)
  BY <1>0, QuietFile
<1>3. /\ hosts' \in Seq(Items) /\ Hosts!LinesOf(hosts') = Hosts!LinesOf(hosts) \cup {l}
      /\ \A b \in Hosts!Blocks : Hosts!BlockDomains(hosts', b) = Hosts!BlockDomains(hosts, b)
      /\ Once(hosts) => Once(hosts')
  BY <1>0, <1>1, Headed
<1>4. IsFiniteSet(mine')
  BY <1>0, <1>1, FS_AddElement DEF HostShaped
<1>5. HostShaped'
  BY <1>0, <1>1, <1>3, <1>4 DEF HostShaped
<1>6. LinesKept'
  BY <1>0, <1>2, <1>3 DEF HostInv, LinesKept, Hosts!LinesRecoverable
<1>7. WritersAlone'
  BY <1>0, <1>2, <1>3, CalmAfter DEF AsTold, Hosts!Busy
<1> QED
  BY <1>5, <1>6, <1>7 DEF HostInv

\* The items of a finite set one after the other, each once.
LEMMA Listed ==
  ASSUME NEW S, IsFiniteSet(S)
  PROVE  LET q == Hosts!SetToSeq(S) IN
         /\ q \in Seq(S) /\ Len(q) \in Nat
         /\ \A i \in 1..Len(q) : q[i] \in S
         /\ \A i, j \in 1..Len(q) : q[i] = q[j] => i = j
         /\ \A x \in S : \E i \in 1..Len(q) : q[i] = x
<1> DEFINE n == Cardinality(S)
           Lists == {f \in [1..n -> S] : \A i, j \in 1..n : f[i] = f[j] => i = j}
           q == Hosts!SetToSeq(S)
<1>1. n \in Nat /\ ExistsBijection(1..n, S)
  BY FS_CardinalityType
<1>2. Lists # {}
  BY <1>1 DEF ExistsBijection, Bijection, Injection, IsInjective
<1>3. \A f \in [1..n -> S] : Hosts!IsInjective(f) <=> \A i, j \in 1..n : f[i] = f[j] => i = j
  BY DEF Hosts!IsInjective
<1>4. q = CHOOSE f \in [1..n -> S] : Hosts!IsInjective(f)
  BY Counts DEF Hosts!SetToSeq
<1> HIDE DEF n, q
<1>5. q \in [1..n -> S] /\ \A i, j \in 1..n : q[i] = q[j] => i = j
  BY <1>2, <1>3, <1>4
<1>6. q \in Seq(S) /\ Len(q) = n
  <2>1. q \in Seq(S)
    BY <1>1, <1>5, SeqDef
  <2>2. Len(q) \in Nat /\ 1..Len(q) = 1..n
    BY <1>5, <2>1, LenProperties
  <2>3. ~(Len(q) < n) /\ ~(n < Len(q))
    <3>1. \A k \in Nat : (k \in 1..n <=> 1 <= k /\ k <= n) /\ (k \in 1..Len(q) <=> 1 <= k /\ k <= Len(q))
      BY <1>1, <2>2
    <3> QED
      BY <1>1, <2>2, <3>1
  <2> QED
    BY <1>1, <2>1, <2>2, <2>3
<1>7. q \in Injection(1..n, S)
  BY <1>5 DEF Injection, IsInjective
<1>8. IsFiniteSet(1..n) /\ Cardinality(1..n) = n
  BY <1>1, FS_Interval
<1>9. q \in Surjection(1..n, S)
  BY <1>7, <1>8, FS_Injection DEF n
<1> QED
  BY <1>1, <1>5, <1>6, <1>9 DEF Surjection, q

\* The user puts the missing lines back and the cut blocks away.
LEMMA HostRepair ==
  ASSUME HostAssumption, HostInv, Hosts!Repair
  PROVE  HostInv'
<1> DEFINE W == Hosts!WholeBlocks(hosts)
           a == Hosts!SetToSeq(mine)
           b == Hosts!SetToSeq(W)
<1>0. /\ Hosts!Quiet /\ hosts' = a \o b
      /\ told' = [x \in Hosts!Blocks |-> Hosts!BlockDomains(hosts', x)]
      /\ unsure' = {} /\ lost' = FALSE
      /\ UNCHANGED <<mine, backup, helper, agent, connect, overlapped>>
  BY DEF Hosts!Repair
<1>1. HostShaped /\ hosts \in Seq(Items) /\ Len(hosts) \in Nat
  BY DEF HostInv, HostShaped
<1>2. /\ connect.step = "idle" /\ \A h \in Helpers : helper[h].step = "idle"
      /\ ~overlapped => AsTold(hosts)
  BY <1>0, QuietFile
<1>3. IsFiniteSet(mine) /\ mine \subseteq Lines
  BY <1>1 DEF HostShaped
<1>4. IsFiniteSet(W)
  <2> DEFINE All == {hosts[i] : i \in 1..Len(hosts)}
  <2>1. IsFiniteSet(1..Len(hosts))
    BY <1>1, FS_Interval
  <2>2. hosts \in Surjection(1..Len(hosts), All)
    BY <1>1 DEF Surjection
  <2>3. IsFiniteSet(All)
    BY <2>1, <2>2, FS_Surjection
  <2>4. W \subseteq All
    BY DEF Hosts!WholeBlocks
  <2> QED
    BY <2>3, <2>4, FS_Subset
<1>5. \A x \in W : \E i \in 1..Len(hosts) : x = hosts[i] /\ Hosts!IsBlock(x)
  BY DEF Hosts!WholeBlocks
<1>6. \A x \in W : x \in BlockItems /\ Hosts!IsBlock(x) /\ Hosts!OwnerOf(x) = x.who
  BY <1>1, <1>5, HostItems
<1> HIDE DEF W
<1>7. /\ a \in Seq(mine) /\ Len(a) \in Nat /\ \A i \in 1..Len(a) : a[i] \in mine
      /\ \A x \in mine : \E i \in 1..Len(a) : a[i] = x
  BY <1>3, Listed
<1>8. /\ b \in Seq(W) /\ Len(b) \in Nat /\ \A i \in 1..Len(b) : b[i] \in W
      /\ \A i, j \in 1..Len(b) : b[i] = b[j] => i = j
  BY <1>4, Listed
<1> HIDE DEF a, b
<1>9. a \in Seq(Items) /\ b \in Seq(Items)
  BY <1>3, <1>6, <1>7, <1>8, SeqMonotonic DEF Items
<1>10. /\ hosts' \in Seq(Items) /\ Len(hosts') = Len(a) + Len(b)
       /\ \A i \in 1..Len(hosts') : hosts'[i] = IF i <= Len(a) THEN a[i] ELSE b[i - Len(a)]
  <2> DEFINE c == a \o b
  <2>1. /\ c \in Seq(Items) /\ Len(c) = Len(a) + Len(b)
        /\ \A i \in 1..Len(c) : c[i] = IF i <= Len(a) THEN a[i] ELSE b[i - Len(a)]
    BY <1>9, ConcatProperties
  <2>2. hosts' = c
    BY <1>0
  <2> HIDE DEF c
  <2> QED
    BY <2>1, <2>2
<1>11. \A i \in 1..Len(a) : i \in 1..Len(hosts') /\ hosts'[i] = a[i] /\ ~Hosts!IsBlock(hosts'[i])
  <2> TAKE i \in 1..Len(a)
  <2>1. i \in 1..Len(hosts') /\ i <= Len(a)
    BY <1>7, <1>8, <1>10
  <2>2. hosts'[i] = a[i]
    BY <1>10, <2>1
  <2>3. a[i] \in Lines
    BY <1>3, <1>7
  <2> QED
    BY <2>1, <2>2, <2>3 DEF Hosts!IsBlock
<1>12. mine \subseteq Hosts!LinesOf(hosts')
  BY <1>7, <1>11 DEF Hosts!LinesOf
<1>13. \A x \in Hosts!Blocks : \A i \in Hosts!BlocksOf(hosts', x) :
         /\ i \in Nat /\ i - Len(a) \in 1..Len(b) /\ hosts'[i] = b[i - Len(a)]
         /\ hosts'[i] \in W /\ hosts'[i].who = x
  <2> TAKE x \in Hosts!Blocks
  <2> TAKE i \in Hosts!BlocksOf(hosts', x)
  <2>1. i \in 1..Len(hosts') /\ Hosts!OwnerOf(hosts'[i]) = x
    BY DEF Hosts!BlocksOf
  <2>2. i \notin 1..Len(a)
    BY <1>11, <2>1, HostItems DEF Hosts!OwnerOf
  <2>3. i \in Nat /\ i - Len(a) \in 1..Len(b) /\ hosts'[i] = b[i - Len(a)]
    BY <1>7, <1>8, <1>10, <2>1, <2>2
  <2> QED
    BY <1>6, <1>8, <2>1, <2>3
<1>14. told' \in [Hosts!Blocks -> Hosts!Wants]
  <2>1. \A x \in Hosts!Blocks : Hosts!BlockDomains(hosts', x) \in Hosts!Wants
    BY <1>6, <1>13 DEF Hosts!BlockDomains, Hosts!Wants, BlockItems
  <2> QED
    BY <1>0, <2>1
<1>15. HostShaped'
  BY <1>0, <1>1, <1>10, <1>14 DEF HostShaped
<1>16. LinesKept'
  BY <1>0, <1>2, <1>12 DEF LinesKept, Hosts!LinesRecoverable
<1>17. ~overlapped => Once(hosts')
  <2> SUFFICES ASSUME ~overlapped, NEW x \in Hosts!Blocks,
                      NEW i \in Hosts!BlocksOf(hosts', x), NEW j \in Hosts!BlocksOf(hosts', x)
               PROVE  i = j
    BY DEF Once
  <2>1. /\ i \in Nat /\ i - Len(a) \in 1..Len(b) /\ hosts'[i] = b[i - Len(a)]
        /\ j \in Nat /\ j - Len(a) \in 1..Len(b) /\ hosts'[j] = b[j - Len(a)]
        /\ hosts'[i] \in W /\ hosts'[j] \in W /\ hosts'[i].who = x /\ hosts'[j].who = x
    BY <1>13
  <2>2. PICK k \in 1..Len(hosts) : hosts'[i] = hosts[k]
    BY <1>5, <2>1
  <2>3. PICK m \in 1..Len(hosts) : hosts'[j] = hosts[m]
    BY <1>5, <2>1
  <2>4. k \in Hosts!BlocksOf(hosts, x) /\ m \in Hosts!BlocksOf(hosts, x)
    BY <1>6, <2>1, <2>2, <2>3 DEF Hosts!BlocksOf
  <2>5. k = m
    BY <1>2, <2>4 DEF AsTold, Once
  <2>6. i - Len(a) = j - Len(a)
    BY <1>8, <2>1, <2>2, <2>3, <2>5
  <2> QED
    BY <1>7, <2>1, <2>6
<1>18. WritersAlone'
  BY <1>0, <1>2, <1>17, CalmAfter DEF Hosts!Busy
<1> QED
  BY <1>15, <1>16, <1>18 DEF HostInv

\* Whatever happens to the file, the invariant holds afterwards.
LEMMA HostStep ==
  ASSUME HostAssumption, HostInv, [Hosts!Next]_Hosts!vars
  PROVE  HostInv'
<1>1. CASE UNCHANGED Hosts!vars
  BY <1>1 DEF HostInv, HostShaped, LinesKept, Hosts!LinesRecoverable, WritersAlone, AsTold,
              Hosts!vars, Hosts!answers
<1>2. CASE Hosts!Done
  BY <1>1, <1>2 DEF Hosts!Done
<1>3. ASSUME NEW h \in Helpers,
             \/ \E who \in {"site", "proxy"}, ds \in Hosts!Wants : Hosts!Sync(h, who, ds)
             \/ Hosts!Refuse(h) \/ Hosts!Consent(h) \/ Hosts!CopyBackup(h) \/ Hosts!Truncate(h)
             \/ Hosts!Write(h) \/ Hosts!WriteFails(h) \/ Hosts!Restore(h) \/ Hosts!HelperDies(h)
      PROVE  HostInv'
  BY <1>3, HostSync, HostRefuse, HostConsent, HostCopyBackup, HostTruncate, HostWrite,
     HostWriteFails, HostRestore, HostHelperDies
<1>4. ASSUME \/ \E ds \in Hosts!Wants : Hosts!ConnectReads(ds)
             \/ Hosts!ConnectReplaces \/ Hosts!ConnectFails \/ Hosts!AgentDies
             \/ \E l \in Lines : Hosts!Edit(l)
             \/ Hosts!Repair
      PROVE  HostInv'
  BY <1>4, HostAgentDies, HostConnectReads, HostConnectReplaces, HostConnectFails, HostEdit,
     HostRepair
<1> QED
  BY <1>1, <1>2, <1>3, <1>4 DEF Hosts!Next

\* What holds of the file, its backup and its writers in every reachable state.
LEMMA HostInvariance ==
  ASSUME HostAssumption
  PROVE  Hosts!Spec => []HostInv
<1>1. Hosts!Init => HostInv
  BY HostInit
<1>2. HostInv /\ [Hosts!Next]_Hosts!vars => HostInv'
  BY HostStep
<1> QED
  BY <1>1, <1>2, PTL DEF Hosts!Spec

\* Whoever fails, dies or is overtaken while it writes the hosts file, every line of the
\* user's is in the file or in hosts.fabdev.backup, as long as no Helper has taken a torn
\* file as its backup.
THEOREM HostLinesRecoverable ==
  ASSUME HostAssumption
  PROVE  Hosts!Spec => []Hosts!LinesRecoverable
<1>1. HostInv => Hosts!LinesRecoverable
  BY DEF HostInv, LinesKept, Hosts!LinesRecoverable
<1> QED
  BY <1>1, HostInvariance, PTL

\* Between two writes, each block is there once at most and holds what its writer was last
\* told it holds, unless the writer has had no answer it can rely on, or two of the Helpers
\* and Connect overlapped.
THEOREM HostBlocksAsTold ==
  ASSUME HostAssumption
  PROVE  Hosts!Spec => []Hosts!BlocksAsTold
<1>1. HostInv => Hosts!BlocksAsTold
  <2> SUFFICES ASSUME HostInv, ~overlapped, ~Hosts!Busy(connect),
                      \A h \in Helpers : ~Hosts!Busy(helper[h]), NEW b \in Hosts!Blocks
               PROVE  /\ Hosts!Cardinality(Hosts!BlocksOf(hosts, b)) <= 1
                      /\ b \notin unsure => Hosts!BlockDomains(hosts, b) = told[b]
    BY DEF Hosts!BlocksAsTold
  <2>1. AsTold(hosts) /\ hosts \in Seq(Items)
    BY DEF HostInv, HostShaped, WritersAlone, Hosts!Busy
  <2> QED
    BY <2>1, OnceCounted DEF AsTold, Once
<1> QED
  BY <1>1, HostInvariance, PTL
=============================================================================
