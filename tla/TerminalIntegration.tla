------------------------ MODULE TerminalIntegration ------------------------
(***************************************************************************)
(* `php` and `node` in the user's terminal: crates/platform's             *)
(* terminal_php.rs and terminal_node.rs, and the Agent's requests that     *)
(* call them, one at a time under its lifecycle lock.                      *)
(*                                                                         *)
(* Both integrations put shims into <data>/bin and make the shell find     *)
(* them.  On macOS each keeps a marked block in the user's own shell files *)
(* (PHP in .zprofile, Node in .zprofile and .zshrc), and PHP turns Herd's  *)
(* PATH lines into marked comments.  On Windows both share one entry of    *)
(* the user's PATH, and PHP moves Herd's entries to a backup file.  None   *)
(* of it is written at once: an operation is a sequence of writes, some of *)
(* them taken back when a later one fails, and the process may die between *)
(* any two.                                                                *)
(***************************************************************************)
EXTENDS Integers, Sequences, SequencesExt, FiniteSets

CONSTANTS
  Windows,     \* whether the user's PATH is in the registry
  NodeShims,   \* the commands Node's integration writes shims for
  Versions,    \* the Node versions a user installs
  Own,         \* Windows: the user's PATH entries, in order
  Herd,        \* Herd's PATH entries (Windows) or PATH lines (macOS)
  Bin,         \* Windows: the PATH entry of <data>/bin
  None,
  MaxChanges,  \* bound: operations and the user's own edits
  MaxFaults    \* bound: writes that fail and deaths of the Agent

VARIABLES
  profile,     \* .zprofile: fabDev's blocks, Herd's lines active and disabled
  rc,          \* .zshrc, the same
  path,        \* the user's PATH on Windows
  backup,      \* what terminal-php-herd-path.txt holds: <<index, entry>> pairs
  shims,       \* the shims in <data>/bin
  installed,   \* Node versions on disk
  selected,    \* the global Node version
  op,          \* the operation in progress, or the last one
  herd,        \* what Herd has put where and not taken away again
  overwritten, \* entries that the next write of the backup dropped from it
  torn,        \* integrations whose last change failed or was cut short
  changes,
  faults

vars == <<profile, rc, path, backup, shims, installed, selected, op, herd,
          overwritten, torn, changes, faults>>

Php == "php"
Files == {"profile", "rc"}
Cuts == {"no", "php", "node"}
File == [php: BOOLEAN, node: BOOLEAN, active: SUBSET Herd,
         disabled: SUBSET Herd, cut: Cuts]

EnablePhp == "EnableTerminalPhp"
DisablePhp == "DisableTerminalPhp"
EnableNode == "EnableTerminalNode"
DisableNode == "DisableTerminalNode"
SelectNode == "SetGlobalNode"
RemoveNode == "RemoveNodeRuntime"
PhpKinds == {EnablePhp, DisablePhp}
Kinds == PhpKinds \cup {EnableNode, DisableNode, SelectNode, RemoveNode}
Enables == {EnablePhp, EnableNode, SelectNode}

Idle == op.left = <<>>
Integration(kind) == IF kind \in PhpKinds THEN "php" ELSE "node"
Shimmed(kind) == IF kind \in PhpKinds THEN {Php} ELSE NodeShims

Init ==
  /\ \E lines \in SUBSET Herd :
       /\ profile = [php |-> FALSE, node |-> FALSE, active |-> {},
                     disabled |-> {}, cut |-> "no"]
       /\ rc = [profile EXCEPT !.active = IF Windows THEN {} ELSE lines]
       /\ path = IF Windows THEN SetToSeq(lines) \o Own ELSE <<>>
       /\ herd = [profile |-> {}, rc |-> lines]
  /\ backup = <<>> /\ shims = {}
  /\ installed = Versions /\ selected = None
  /\ op = [kind |-> DisablePhp, left |-> <<>>, ok |-> TRUE, profile |-> profile,
           rc |-> rc, version |-> None, was |-> None, undone |-> TRUE]
  /\ overwritten = {} /\ torn = {}
  /\ changes = 0 /\ faults = 0

-----------------------------------------------------------------------------
(* What the operations write.                                              *)

\* The shim, the backup of Herd's entries and PATH in the user's registry.
WindowsPlan(kind) ==
  CASE kind = EnablePhp -> <<"shim", "backup", "path">>
    [] kind = DisablePhp -> <<"unshim", "path", "forget">>
    [] kind \in {EnableNode, SelectNode} -> <<"shim", "path">>
    [] OTHER -> <<"unshim", "path">>

\* Enabling ends with .zprofile, disabling begins with it.
ShellPlan(kind) ==
  IF kind \in Enables THEN <<"shim", "rc", "profile">>
  ELSE <<"profile", "rc", "unshim">>

WritePlan(kind) == IF Windows THEN WindowsPlan(kind) ELSE ShellPlan(kind)

\* SetGlobalNode and RemoveNodeRuntime enclose the integration's writes.
PlanKeepingShims(kind, v) ==
  CASE kind = SelectNode -> <<"select">> \o WritePlan(kind)
    [] kind = RemoveNode /\ v = selected -> <<"deselect", "remove">>
    [] kind = RemoveNode /\ v # selected -> <<"remove">>
    [] OTHER -> WritePlan(kind)

Plan(kind, v) ==
  CASE kind = SelectNode -> <<"select">> \o WritePlan(kind)
    [] kind = RemoveNode /\ v = selected ->
         <<"deselect">> \o WritePlan(kind) \o <<"remove">>
    [] kind = RemoveNode /\ v # selected -> <<"remove">>
    [] OTHER -> WritePlan(kind)

\* mark_herd_php_paths and restore_herd_php_paths: the marked comments become
\* lines again before the lines that are active are commented out.
Marked(f) == [f EXCEPT !.disabled = f.active \cup f.disabled, !.active = {}]
Unmarked(f) == [f EXCEPT !.active = f.active \cup f.disabled, !.disabled = {}]

\* A file as the operation leaves it, from what it held when it was read: the
\* PHP block is in .zprofile only, Node's is in both.
UpdatedPhp(kind, name, f) ==
  LET lines == IF kind = EnablePhp THEN Marked(f) ELSE Unmarked(f)
  IN IF name = "profile" THEN [lines EXCEPT !.php = (kind = EnablePhp)] ELSE lines

UpdatedNode(kind, f) == [f EXCEPT !.node = (kind \in Enables)]

Updated(kind, name, f) ==
  IF kind \in PhpKinds THEN UpdatedPhp(kind, name, f) ELSE UpdatedNode(kind, f)

\* What of a list is in S, in its order.
Kept(list, S) ==
  LET kept[i \in 0..Len(list)] ==
        IF i = 0 THEN <<>>
        ELSE IF list[i] \in S THEN Append(kept[i - 1], list[i]) ELSE kept[i - 1]
  IN kept[Len(list)]

Without(entries, drop) == Kept(entries, Range(entries) \ drop)
HerdEntries == Kept([i \in 1..Len(path) |-> <<i, path[i]>>], (1..Len(path)) \X Herd)
Entries(saved) == {saved[i][2] : i \in 1..Len(saved)}

PathHolds(entry) == entry \in Range(path)

\* restore_path_entries: one entry after another, at its old place or at the end.
PutBack(entries, p) ==
  IF p[2] \in Range(entries) THEN entries
  ELSE InsertAt(entries, IF p[1] > Len(entries) THEN Len(entries) + 1 ELSE p[1], p[2])

Restored(entries, saved) ==
  LET back[i \in 0..Len(saved)] ==
        IF i = 0 THEN entries ELSE PutBack(back[i - 1], saved[i])
  IN back[Len(saved)]

Prepended(entries) ==
  IF Bin \in Range(entries) THEN entries
  ELSE <<Bin>> \o entries

\* Each integration leaves the common entry to the other while it has shims.
NewPathPhp(kind) ==
  IF kind = EnablePhp THEN Prepended(Without(path, Herd))
  ELSE Restored(IF shims \cap NodeShims # {} THEN path ELSE Without(path, {Bin}),
                backup)

NewPathNode(kind) ==
  IF kind \in Enables THEN Prepended(path)
  ELSE IF Php \in shims THEN path ELSE Without(path, {Bin})

NewPath(kind) == IF kind \in PhpKinds THEN NewPathPhp(kind) ELSE NewPathNode(kind)

-----------------------------------------------------------------------------
(* The requests.                                                           *)

\* An operation reads both shell files and refuses incomplete markers of its
\* own before it writes anything; EnableTerminalNode wants a selected version.
Refused(kind) ==
  \/ profile.cut = Integration(kind) \/ rc.cut = Integration(kind)
  \/ kind = EnableNode /\ selected \notin installed

\* What is left of a request whose integration refuses: the Agent has selected
\* (deselected) the version by then, and takes that back.
RefusedPlan(kind, v) ==
  CASE kind = SelectNode -> <<"select", "reselect">>
    [] kind = RemoveNode -> <<"deselect", "reselect">>
    [] OTHER -> <<>>

Ask(kind, v) ==
  /\ Idle /\ changes < MaxChanges
  /\ changes' = changes + 1
  /\ IF kind \in {SelectNode, RemoveNode} THEN v \in installed ELSE v = None
  /\ LET refused == Refused(kind) /\ (kind = RemoveNode => v = selected)
     IN op' = [kind |-> kind, ok |-> ~refused, profile |-> profile, rc |-> rc,
               version |-> v, was |-> selected, undone |-> TRUE,
               left |-> IF refused THEN RefusedPlan(kind, v) ELSE Plan(kind, v)]
  /\ UNCHANGED <<profile, rc, path, backup, shims, installed, selected, herd,
                 overwritten, torn, faults>>

\* What the old backup held, and the new one and PATH do not, is gone.
SaveBackup(entries) ==
  /\ backup' = entries
  /\ overwritten' = overwritten \cup (Entries(backup) \ (Entries(entries) \cup Range(path)))

\* The backup is emptied before it is written: a write that fails or is cut short
\* may leave only the first of its lines.
CutBackup(step) ==
  \/ UNCHANGED <<backup, overwritten>>
  \/ /\ step = "backup" /\ Windows
     /\ \E n \in 0..(Len(HerdEntries) - 1) : SaveBackup(SubSeq(HerdEntries, 1, n))

\* One write of the operation.  Node's shims are written one after another.
Effect(step) ==
  LET kind == op.kind
      keep(name) == CASE name = "files" -> UNCHANGED <<profile, rc>>
                      [] name = "path" -> UNCHANGED <<path, backup, overwritten>>
                      [] name = "node" -> UNCHANGED <<installed, selected>>
                      [] OTHER -> UNCHANGED shims
      only(name) == \A n \in {"files", "path", "node", "shims"} \ {name} : keep(n)
  IN CASE step = "shim" -> shims' = shims \cup Shimmed(kind) /\ only("shims")
       [] step = "unshim" -> shims' = shims \ Shimmed(kind) /\ only("shims")
       [] step = "profile" ->
            /\ profile' = Updated(kind, "profile", op.profile)
            /\ rc' = rc /\ only("files")
       [] step = "rc" ->
            /\ rc' = Updated(kind, "rc", op.rc)
            /\ profile' = profile /\ only("files")
       [] step = "profileBack" -> profile' = op.profile /\ rc' = rc /\ only("files")
       [] step = "rcBack" -> rc' = op.rc /\ profile' = profile /\ only("files")
       [] step = "backup" ->
            /\ SaveBackup(IF HerdEntries = <<>> THEN backup ELSE HerdEntries)
            /\ path' = path /\ only("path")
       [] step = "path" ->
            path' = NewPath(kind) /\ UNCHANGED <<backup, overwritten>> /\ only("path")
       [] step = "forget" ->
            backup' = <<>> /\ UNCHANGED <<path, overwritten>> /\ only("path")
       [] step = "select" ->
            selected' = op.version /\ installed' = installed /\ only("node")
       [] step = "deselect" ->
            selected' = None /\ installed' = installed /\ only("node")
       [] step = "reselect" ->
            selected' = op.was /\ installed' = installed /\ only("node")
       [] step = "remove" ->
            installed' = installed \ {op.version} /\ selected' = selected /\ only("node")

\* The integrations whose last change has not gone through, after this step.
\* Removing a version that is not selected changes no integration.
TornAfter(left) ==
  IF left # <<>> \/ (op.kind = RemoveNode /\ op.was # op.version) THEN torn
  ELSE IF op.ok THEN torn \ {Integration(op.kind)}
  ELSE torn \cup {Integration(op.kind)}

Step ==
  /\ ~Idle /\ Head(op.left) # "restart"
  /\ Effect(Head(op.left))
  /\ op' = [op EXCEPT !.left = Tail(op.left)]
  /\ torn' = TornAfter(Tail(op.left))
  /\ UNCHANGED <<herd, changes, faults>>

\* A step that would change nothing on disk is not tried, so it cannot fail.
Writes(step) ==
  CASE step = "profile" /\ op.kind \notin Enables ->
         Updated(op.kind, "profile", op.profile) # op.profile
    [] step = "rc" /\ op.kind \notin {EnableNode, SelectNode} ->
         Updated(op.kind, "rc", op.rc) # op.rc
    [] step = "path" -> NewPath(op.kind) # path
    [] step = "backup" -> HerdEntries # <<>>
    [] step = "unshim" -> shims \cap Shimmed(op.kind) # {}
    [] OTHER -> TRUE

\* What the code takes back when a step of the shell files fails: the file the
\* step before it wrote, both when Node's shims cannot be removed, and nothing
\* on Windows or when the PHP shim cannot be removed.
UndoFiles(kind, step) ==
  IF Windows THEN <<>>
  ELSE CASE kind \in Enables /\ step = "profile" -> <<"rcBack">>
         [] kind \notin Enables /\ step = "rc" -> <<"profileBack">>
         [] kind \in {DisableNode, RemoveNode} /\ step = "unshim" ->
              <<"profileBack", "rcBack">>
         [] OTHER -> <<>>

\* SetGlobalNode and RemoveNodeRuntime select the version they found selected
\* again; a version whose directory cannot be removed also gets its integration.
UndoAgent(kind, step) ==
  CASE kind = SelectNode -> <<"reselect">>
    [] kind = RemoveNode /\ step # "remove" -> <<"reselect">>
    [] kind = RemoveNode /\ step = "remove" /\ op.was = op.version ->
         <<"reselect", "restart">>
    [] OTHER -> <<>>

Undoing(step) == step \in {"profileBack", "rcBack", "reselect"}

\* A step fails.  Of several shims some are written (removed) before the one
\* that is not.  A failing undo is ignored, and what it should have put back
\* stays as it is.
Fail ==
  /\ ~Idle /\ faults < MaxFaults
  /\ LET step == Head(op.left)
         left == IF Undoing(step) THEN Tail(op.left)
                 ELSE UndoFiles(op.kind, step) \o UndoAgent(op.kind, step)
     IN /\ step # "restart" /\ Writes(step)
        /\ \E some \in SUBSET Shimmed(op.kind) :
             /\ some # Shimmed(op.kind)
             /\ shims' = CASE step = "shim" -> shims \cup some
                           [] step = "unshim" -> shims \ some
                           [] OTHER -> shims
        /\ op' = [op EXCEPT !.left = left, !.ok = FALSE,
                            !.undone = op.undone /\ ~Undoing(step)]
        /\ torn' = torn \cup {Integration(op.kind)}
        /\ CutBackup(step)
  /\ faults' = faults + 1
  /\ UNCHANGED <<profile, rc, path, installed, selected, herd, changes>>

\* RemoveNodeRuntime, after a version it could not remove: enable_terminal_node.
Restart ==
  /\ ~Idle /\ Head(op.left) = "restart"
  /\ op' = [op EXCEPT !.left = WritePlan(EnableNode), !.kind = EnableNode,
                      !.profile = profile, !.rc = rc, !.undone = FALSE]
  /\ UNCHANGED <<profile, rc, path, backup, shims, installed, selected, herd,
                 overwritten, torn, changes, faults>>

\* The Agent dies in the middle, perhaps of a write; nothing looks at the operation
\* afterwards.
Crash ==
  /\ ~Idle /\ faults < MaxFaults
  /\ faults' = faults + 1
  /\ op' = [op EXCEPT !.left = <<>>, !.ok = FALSE, !.undone = FALSE]
  /\ torn' = torn \cup {Integration(op.kind)}
  /\ CutBackup(Head(op.left))
  /\ UNCHANGED <<profile, rc, path, shims, installed, selected, herd, changes>>

-----------------------------------------------------------------------------
(* The user and Herd, between two operations.                              *)

Edit ==
  /\ Idle /\ changes < MaxChanges
  /\ changes' = changes + 1
  /\ op' = [op EXCEPT !.undone = FALSE]
  /\ UNCHANGED <<backup, shims, selected, overwritten, torn, faults>>

\* Herd is installed or comes back: a line at the end of a file, or an entry
\* at the front of PATH.
HerdReturns(entry) ==
  /\ Edit
  /\ UNCHANGED installed
  /\ IF Windows
     THEN /\ ~PathHolds(entry)
          /\ path' = <<entry>> \o path
          /\ herd' = [herd EXCEPT !.rc = @ \cup {entry}]
          /\ UNCHANGED <<profile, rc>>
     ELSE /\ path' = path
          /\ \/ /\ entry \notin profile.active \cup profile.disabled
                /\ profile' = [profile EXCEPT !.active = @ \cup {entry}]
                /\ herd' = [herd EXCEPT !.profile = @ \cup {entry}]
                /\ UNCHANGED rc
             \/ /\ entry \notin rc.active \cup rc.disabled
                /\ rc' = [rc EXCEPT !.active = @ \cup {entry}]
                /\ herd' = [herd EXCEPT !.rc = @ \cup {entry}]
                /\ UNCHANGED profile

\* The user cuts the end marker of a block in .zshrc by hand, or puts it back.
CutMarker(kind) ==
  /\ Edit /\ ~Windows
  /\ rc' = [rc EXCEPT !.cut = IF @ = "no" THEN kind ELSE "no"]
  /\ IF kind = "node" THEN rc.node ELSE rc.disabled # {}
  /\ UNCHANGED <<profile, path, installed, herd>>

\* A version is installed again.
Install(v) ==
  /\ Edit
  /\ installed' = installed \cup {v}
  /\ UNCHANGED <<profile, rc, path, herd>>

Done == Idle /\ changes = MaxChanges /\ UNCHANGED vars

Next ==
  \/ \E kind \in Kinds, v \in Versions \cup {None} : Ask(kind, v)
  \/ Step \/ Fail \/ Restart \/ Crash
  \/ \E entry \in Herd : HerdReturns(entry)
  \/ \E kind \in {"php", "node"} : CutMarker(kind)
  \/ \E v \in Versions \ installed : Install(v)
  \/ Done

Spec == Init /\ [][Next]_vars

-----------------------------------------------------------------------------
TypeOK ==
  /\ {profile, rc} \subseteq File
  /\ path \in Seq(Range(Own) \cup Herd \cup {Bin})
  /\ shims \subseteq {Php} \cup NodeShims
  /\ installed \subseteq Versions /\ selected \in Versions \cup {None}
  /\ op.kind \in Kinds /\ torn \subseteq {"php", "node"}

PhpOn ==
  /\ Php \in shims
  /\ IF Windows THEN PathHolds(Bin) /\ \A e \in Herd : ~PathHolds(e)
     ELSE profile.php /\ profile.active = {} /\ rc.active = {}

NodeOn ==
  /\ NodeShims \subseteq shims
  /\ IF Windows THEN PathHolds(Bin) ELSE profile.node /\ rc.node

\* Between operations, and whatever failed before the last one that went
\* through, an integration is there as a whole or not at all: the shims and
\* what makes the shell find them, both of Node's blocks, and Herd disabled
\* only while fabDev's own PHP takes its place.
IntegrationWhole ==
  Idle =>
    /\ "php" \notin torn /\ ~Windows =>
         /\ profile.php <=> Php \in shims
         /\ profile.disabled \cup rc.disabled # {} => profile.php
    /\ "node" \notin torn /\ ~Windows =>
         /\ profile.node <=> rc.node
         /\ IF rc.node THEN NodeShims \subseteq shims ELSE NodeShims \cap shims = {}
    /\ torn = {} /\ Windows =>
         /\ PathHolds(Bin) <=> shims # {}
         /\ Php \notin shims => backup = <<>>

\* Nothing of the user's is lost: an entry of Herd is in PATH (a line in its
\* file), or is kept where Disable finds it; the user's other entries stay in
\* their order.  The one exception is an entry that the next Enable dropped
\* from the backup because Herd had come back with another one.
TheirsKept ==
  /\ ~Windows => /\ profile.active \cup profile.disabled = herd.profile
                 /\ rc.active \cup rc.disabled = herd.rc
  /\ Windows =>
       /\ herd.rc \subseteq Range(path) \cup Entries(backup) \cup overwritten
       /\ Without(path, Herd \cup {Bin}) = Own

\* A change of the shell files that fails is taken back: if every undo went
\* through, the files are what they were and the same version is selected.
\* Only a PHP shim that cannot be removed leaves a Disable half done.
FailedChangeKeeps ==
  Idle /\ ~op.ok /\ op.undone =>
    /\ selected = op.was
    /\ op.kind # DisablePhp /\ ~Windows => profile = op.profile /\ rc = op.rc

\* Node's shims have a version to run whenever Node's integration is reported
\* as enabled, unless its last change failed or was cut short.
EnabledNodeRuns ==
  Idle /\ NodeOn /\ "node" \notin torn => selected \in installed

CommandsThere == IntegrationWhole /\ EnabledNodeRuns
=============================================================================
