---------------------------- MODULE RuntimeStore ----------------------------
(***************************************************************************)
(* What the user sees of one Runtime (PHP, Node.js or MariaDB): which      *)
(* package each version holds, which version is selected, and which        *)
(* removals are remembered.  An online install or update is one atomic     *)
(* change of all three.  RuntimeInstall implements it with directories,    *)
(* renames and a link, as long as no crash or failed recovery intervenes.  *)
(***************************************************************************)
CONSTANTS Versions, Packages, Absent, NoVersion

VARIABLES
  installed,  \* installed[v]: the package version v holds, or Absent
  selected,   \* the active version, or NoVersion
  forgotten   \* versions the user removed and the Desktop must not bring back

svars == <<installed, selected, forgotten>>

Init ==
  /\ installed \in [Versions -> Packages \cup {Absent}]
  /\ selected \in {v \in Versions : installed[v] # Absent} \cup {NoVersion}
  /\ forgotten = {}

\* An online install: the package, the selection and the marker change at once.
Update(v, p) ==
  /\ installed[v] # p
  /\ installed' = [installed EXCEPT ![v] = p]
  /\ selected' \in {selected, v}
  /\ forgotten' = forgotten \ {v}

\* A manual or built-in install adds a version, and replaces none.
Add(v, p) ==
  /\ installed[v] = Absent
  /\ installed' = [installed EXCEPT ![v] = p]
  /\ UNCHANGED <<selected, forgotten>>

Select(v) ==
  /\ installed[v] # Absent
  /\ selected' = v
  /\ UNCHANGED <<installed, forgotten>>

Deselect ==
  /\ selected' = NoVersion
  /\ UNCHANGED <<installed, forgotten>>

Withdraw(v) ==
  /\ selected # v
  /\ installed' = [installed EXCEPT ![v] = Absent]
  /\ UNCHANGED <<selected, forgotten>>

\* Only a version that is there is marked, before it is withdrawn, and only
\* one that is there is unmarked: one withdrawn stays marked until an
\* install brings it back.
Mark(v) ==
  /\ installed[v] # Absent
  /\ forgotten' \in {forgotten \cup {v}, forgotten \ {v}}
  /\ UNCHANGED <<installed, selected>>

Next ==
  \/ Deselect
  \/ \E v \in Versions :
       \/ Select(v) \/ Withdraw(v) \/ Mark(v)
       \/ \E p \in Packages : Update(v, p) \/ Add(v, p)

Spec == Init /\ [][Next]_svars
=============================================================================
