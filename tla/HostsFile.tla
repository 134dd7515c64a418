----------------------------- MODULE HostsFile -----------------------------
(***************************************************************************)
(* The Windows hosts file: helpers/windows (hosts.rs and windows.rs),      *)
(* which the Agent runs for the Sites and for the Proxy connections, one   *)
(* at a time under its lifecycle lock, and fabDev Connect, which writes a  *)
(* block of its own.                                                       *)
(*                                                                         *)
(* Every writer reads the file, replaces its own marked block and writes   *)
(* the whole file back.  The Helper writes in place (truncate, write, and  *)
(* put its backup back if the write fails); Connect renames a new file     *)
(* over it.  Nothing locks the file between two programs, and a Helper     *)
(* waiting for the user's consent outlives the Agent that started it.      *)
(***************************************************************************)
EXTENDS Integers, Sequences, SequencesExt, FiniteSets

CONSTANTS
  Lines, FirstLine,   \* the user's own lines, and the one there is from the start
  Domains,     \* the .test domains a writer may ask for
  Helpers,     \* Helper processes that may be alive at once
  None,
  MaxSyncs,    \* bound: writers started
  MaxFaults    \* bound: failing writes, processes that die, refused consents

VARIABLES
  mine,        \* the lines the user has put in
  hosts,       \* the file: the user's lines and the blocks, in order
  backup,      \* hosts.fabdev.backup
  helper,      \* the Helper processes
  agent,       \* the Helper the Agent waits for, or None
  connect,     \* fabDev Connect
  told,        \* what each block holds by the last answer that was good
  overlapped,  \* writers that worked on the file at the same time
  unsure,      \* history: blocks whose writer has had no answer it can rely on
  lost,        \* a torn file became the backup of the next writer
  syncs,
  faults

answers == <<told, unsure>>
vars == <<mine, hosts, backup, helper, agent, connect, answers, overlapped, lost, syncs, faults>>

Blocks == {"site", "proxy", "connect"}
Block(who, ds, cut) == [who |-> who, domains |-> ds, cut |-> cut]
Wants == SUBSET Domains
Waiting == [step |-> "idle", who |-> "site", domains |-> {}, new |-> <<>>]

IsBlock(item) == item \notin Lines
OwnerOf(item) == IF IsBlock(item) THEN item.who ELSE "user"
LinesOf(f) == {f[i] : i \in {j \in 1..Len(f) : ~IsBlock(f[j])}}
BlocksOf(f, who) == {i \in 1..Len(f) : OwnerOf(f[i]) = who}
Torn(f) == mine \ LinesOf(f) # {} \/ \E i \in 1..Len(f) : IsBlock(f[i]) /\ f[i].cut
WholeBlocks(f) == {f[i] : i \in {j \in 1..Len(f) : IsBlock(f[j]) /\ ~f[j].cut}}
BlockDomains(f, who) == UNION {f[i].domains : i \in BlocksOf(f, who)}

Init ==
  /\ mine = {FirstLine}
  /\ hosts = <<FirstLine>>
  /\ backup = <<>>
  /\ helper = [h \in Helpers |-> Waiting]
  /\ agent = None
  /\ connect = [step |-> "idle", on |-> FALSE, domains |-> {}, new |-> <<>>]
  /\ told = [b \in Blocks |-> {}]
  /\ unsure = {} /\ overlapped = FALSE /\ lost = FALSE
  /\ syncs = 0 /\ faults = 0

-----------------------------------------------------------------------------
(* Pure functions on the contents.                                         *)

\* More than one block, or one without its end marker: nobody may guess.
Incomplete(f, who) ==
  Cardinality(BlocksOf(f, who)) > 1 \/ \E i \in BlocksOf(f, who) : f[i].cut

\* remove_managed_block: what stands before the block, and what stands after it.
WithoutBlock(f, who) ==
  IF BlocksOf(f, who) = {} THEN f ELSE RemoveAt(f, CHOOSE i \in BlocksOf(f, who) : TRUE)

\* update_managed_block: the writer's old block goes, its new one is the last.
UpdateManagedBlock(f, who, ds) ==
  IF ds = {} THEN WithoutBlock(f, who)
  ELSE Append(WithoutBlock(f, who), Block(who, ds, FALSE))

\* contains_unmanaged_domain: Connect looks at every line but its own block.
Taken(f, ds) ==
  \E i \in 1..Len(f) : IsBlock(f[i]) /\ f[i].who # "connect"
                         /\ f[i].domains \cap ds # {}

\* What a write in place leaves when it is cut short: a beginning of it.
Beginnings(f) ==
  {SubSeq(f, 1, k) : k \in 0..Len(f)} \cup
  {Append(SubSeq(f, 1, k), [f[k + 1] EXCEPT !.cut = TRUE]) :
     k \in {j \in 0..(Len(f) - 1) : IsBlock(f[j + 1])}}

Busy(p) == p.step \notin {"idle", "consent"}
Others(h) == {g \in Helpers \ {h} : Busy(helper[g])}
Overlaps(h) == Others(h) # {} \/ (h # "connect" /\ Busy(connect))

-----------------------------------------------------------------------------
(* The Agent.  It waits for its Helper within a request that holds the      *)
(* lifecycle lock, whether it syncs the Sites or the Proxies.               *)

\* The answer of a writer of who's block.
Answer(who, ds, ok) ==
  IF ok THEN told' = [told EXCEPT ![who] = ds] /\ unsure' = unsure \ {who}
  ELSE UNCHANGED answers

\* sync_site_domains or sync_windows_proxy_domains.  The Helper without rights ends at
\* once when the block is already what it should be, or when it cannot tell where a
\* block ends.
Sync(h, who, ds) ==
  /\ agent = None /\ helper[h].step = "idle" /\ syncs < MaxSyncs
  /\ syncs' = syncs + 1
  /\ LET same == UpdateManagedBlock(hosts, who, ds) = hosts
     IN IF Incomplete(hosts, who) \/ same
        THEN /\ Answer(who, ds, ~Incomplete(hosts, who))
             /\ UNCHANGED <<helper, agent>>
        ELSE /\ helper' = [helper EXCEPT ![h] =
                             [step |-> "consent", who |-> who, domains |-> ds, new |-> <<>>]]
             /\ agent' = h
             /\ UNCHANGED answers
  /\ overlapped' = (overlapped \/ Overlaps(h))
  /\ UNCHANGED <<mine, hosts, backup, connect, lost, faults>>

\* The Agent dies; its Helpers stay and the next Agent starts others.
AgentDies ==
  /\ agent # None /\ faults < MaxFaults
  /\ agent' = None /\ faults' = faults + 1
  /\ unsure' = unsure \cup {helper[agent].who}
  /\ UNCHANGED <<mine, hosts, backup, helper, connect, told, overlapped, lost, syncs>>

Leave(h) ==
  /\ helper' = [helper EXCEPT ![h] = Waiting]
  /\ agent' = IF agent = h THEN None ELSE agent

\* Only the Agent that waits for the Helper hears how it ended: a Helper that
\* waited for consent while its Agent was replaced writes what is out of date.
Finish(h, ok) ==
  /\ Leave(h)
  /\ IF ok /\ agent # h THEN unsure' = unsure \cup {helper[h].who} /\ told' = told
     ELSE Answer(helper[h].who, helper[h].domains, ok)

-----------------------------------------------------------------------------
(* The Helper, with the rights the user gave it.                           *)

Refuse(h) ==
  /\ helper[h].step = "consent" /\ faults < MaxFaults
  /\ faults' = faults + 1
  /\ Finish(h, FALSE)
  /\ UNCHANGED <<mine, hosts, backup, connect, overlapped, lost, syncs>>

\* The elevated Helper reads the file again and works out the new contents.
Consent(h) ==
  /\ helper[h].step = "consent"
  /\ LET who == helper[h].who
         new == UpdateManagedBlock(hosts, who, helper[h].domains)
     IN IF Incomplete(hosts, who) \/ new = hosts
        THEN Finish(h, ~Incomplete(hosts, who))
        ELSE /\ helper' = [helper EXCEPT ![h].step = "backup", ![h].new = new]
             /\ UNCHANGED <<agent, answers>>
  /\ overlapped' = (overlapped \/ Overlaps(h))
  /\ UNCHANGED <<mine, hosts, backup, connect, lost, syncs, faults>>

CopyNothing == backup' = backup
Copy == backup' = hosts

CopyBackup(h) ==
  /\ helper[h].step = "backup"
  /\ Copy
  /\ lost' = (lost \/ Torn(hosts))
  /\ helper' = [helper EXCEPT ![h].step = "truncate"]
  /\ UNCHANGED <<mine, hosts, agent, connect, answers, overlapped, syncs, faults>>

Truncate(h) ==
  /\ helper[h].step = "truncate"
  /\ hosts' = <<>>
  /\ helper' = [helper EXCEPT ![h].step = "write"]
  /\ UNCHANGED <<mine, backup, agent, connect, answers, overlapped, lost, syncs, faults>>

Write(h) ==
  /\ helper[h].step = "write"
  /\ hosts' = helper[h].new
  /\ Finish(h, TRUE)
  /\ UNCHANGED <<mine, backup, connect, overlapped, lost, syncs, faults>>

\* The write fails on the way: restore_hosts puts the backup back.
WriteFails(h) ==
  /\ helper[h].step = "write" /\ faults < MaxFaults
  /\ faults' = faults + 1
  /\ hosts' \in Beginnings(helper[h].new)
  /\ helper' = [helper EXCEPT ![h].step = "restore"]
  /\ UNCHANGED <<mine, backup, agent, connect, answers, overlapped, lost, syncs>>

RestoreHosts(h) == hosts' = backup

Restore(h) ==
  /\ helper[h].step = "restore"
  /\ RestoreHosts(h)
  /\ Finish(h, FALSE)
  /\ UNCHANGED <<mine, backup, connect, overlapped, lost, syncs, faults>>

\* The process dies, or the backup cannot be put back: what was written stays.
HelperDies(h) ==
  /\ Busy(helper[h]) /\ faults < MaxFaults
  /\ faults' = faults + 1
  /\ hosts' \in IF helper[h].step = "write" THEN Beginnings(helper[h].new)
                ELSE {hosts}
  /\ unsure' = IF helper[h].step \in {"write", "restore"} THEN Blocks ELSE unsure
  /\ Leave(h)
  /\ UNCHANGED <<mine, backup, connect, told, overlapped, lost, syncs>>

-----------------------------------------------------------------------------
(* fabDev Connect, which has its rights from the start and never puts its   *)
(* own backup back.                                                        *)

\* connect reads the file and refuses domains somebody else has in it, after
\* the listener is up; disconnect has none to add.
ConnectReads(ds) ==
  /\ connect.step = "idle" /\ syncs < MaxSyncs
  /\ syncs' = syncs + 1
  /\ connect.on <=> ds = {}
  /\ IF Incomplete(hosts, "connect") \/ (ds # {} /\ Taken(hosts, ds))
     THEN /\ connect' = [connect EXCEPT !.on = FALSE, !.domains = {}]
          /\ overlapped' = overlapped
     ELSE /\ connect' = [connect EXCEPT !.step = "replace", !.domains = ds,
                           !.on = FALSE,
                           !.new = UpdateManagedBlock(hosts, "connect", ds)]
          /\ overlapped' = (overlapped \/ Overlaps("connect"))
  /\ UNCHANGED <<mine, hosts, backup, helper, agent, answers, lost, faults>>

ConnectReplaces ==
  /\ connect.step = "replace"
  /\ hosts' = connect.new
  /\ connect' = [connect EXCEPT !.step = "idle", !.on = connect.domains # {},
                                !.new = <<>>]
  /\ Answer("connect", connect.domains, TRUE)
  /\ UNCHANGED <<mine, backup, helper, agent, overlapped, lost, syncs, faults>>

\* The rename is refused, or the program dies: the file is as it was, and so
\* is the block of a Connect that was to disconnect.
ConnectFails ==
  /\ connect.step = "replace" /\ faults < MaxFaults
  /\ faults' = faults + 1
  /\ connect' = [connect EXCEPT !.step = "idle", !.new = <<>>]
  /\ UNCHANGED <<mine, hosts, backup, helper, agent, answers, overlapped, lost, syncs>>

Quiet ==
  agent = None /\ connect.step = "idle" /\ \A h \in Helpers : helper[h].step = "idle"

\* The user adds a line while nobody writes.
Edit(l) ==
  /\ Quiet /\ l \notin mine
  /\ mine' = mine \cup {l} /\ hosts' = <<l>> \o hosts
  /\ UNCHANGED <<backup, helper, agent, connect, answers, overlapped, lost, syncs, faults>>

\* The user puts back what is missing.
Repair ==
  /\ Torn(hosts) /\ Quiet
  /\ hosts' = SetToSeq(mine) \o SetToSeq(WholeBlocks(hosts))
  /\ told' = [b \in Blocks |-> BlockDomains(hosts', b)]
  /\ unsure' = {}
  /\ lost' = FALSE
  /\ UNCHANGED <<mine, backup, helper, agent, connect, overlapped, syncs, faults>>

Done ==
  /\ syncs = MaxSyncs /\ Quiet
  /\ UNCHANGED vars

Next ==
  \/ \E h \in Helpers :
       \/ \E who \in {"site", "proxy"}, ds \in Wants : Sync(h, who, ds)
       \/ Refuse(h) \/ Consent(h) \/ CopyBackup(h) \/ Truncate(h) \/ Write(h)
       \/ WriteFails(h) \/ Restore(h) \/ HelperDies(h)
  \/ AgentDies
  \/ \E ds \in Wants : ConnectReads(ds)
  \/ ConnectReplaces \/ ConnectFails
  \/ \E l \in Lines : Edit(l)
  \/ Repair \/ Done

Spec == Init /\ [][Next]_vars

-----------------------------------------------------------------------------
TypeOK ==
  /\ \A i \in 1..Len(hosts) : IsBlock(hosts[i]) => hosts[i].who \in Blocks
  /\ agent \in Helpers \cup {None}
  /\ told \in [Blocks -> Wants]

\* Whoever fails or dies while it writes, every line of the user's is in the
\* file or in the backup, as long as no Helper has taken a file that was already
\* torn as its backup.
LinesRecoverable ==
  ~lost => mine \subseteq LinesOf(hosts) \cup LinesOf(backup)

\* Between two writes, each block holds what its writer was last told it holds
\* (the Agent by the Helper's exit code, Connect by the rename), and nobody's
\* writing disturbed another's, also where a file was torn: unless two writers
\* overlapped.
BlocksAsTold ==
  ~overlapped /\ ~Busy(connect) /\ (\A h \in Helpers : ~Busy(helper[h])) =>
    \A b \in Blocks :
      /\ Cardinality(BlocksOf(hosts, b)) <= 1
      /\ b \notin unsure => BlockDomains(hosts, b) = told[b]
=============================================================================
