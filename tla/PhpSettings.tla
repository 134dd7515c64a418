----------------------------- MODULE PhpSettings -----------------------------
(***************************************************************************)
(* The configuration of each PHP version and the server that runs with it. *)
(* The user's copy is config/php/<version>/php.ini with a small settings   *)
(* file beside it (fpm.json on macOS, fastcgi.json on Windows).  The copy  *)
(* under services/ is generated from it, and a server reads that one when  *)
(* it starts.  A save writes, generates, validates and, if the version is  *)
(* in use, restarts, and puts the old state back when a stage fails.       *)
(*                                                                         *)
(* A save holds the supervisor's lock throughout, so nothing but the end   *)
(* of a process, of the Agent, or a failing call comes between its stages. *)
(* Wording is abstracted: a php.ini is "template" (what is generated for   *)
(* an empty one), "good", "bad" (the server rejects it) or "blank".        *)
(***************************************************************************)
EXTENDS Naturals

CONSTANTS
  Windows,
  Versions,   \* 1..n, in the order of the BTreeSet
  Default,    \* the setting without a settings file
  Settings,   \* the settings that can be chosen
  None,
  MaxSaves,
  MaxFaults

VARIABLES
  ini,        \* ini[v]: the user's php.ini
  setting,    \* setting[v]: the settings file, or None
  generated,  \* generated[v]: what services/php/<version> says
  master,     \* master[v]: what the managed server started with, or None
  strays,     \* strays[v]: unmanaged servers of v that still run
  expected,   \* expected_php_versions
  save,       \* the save in progress, or None
  last,       \* the save that just ended, or None
  drifted,    \* history: versions changed beneath their server
  suspect,    \* history: versions whose php.ini nobody validated
  saves,
  mistakes    \* faults so far

files == <<ini, setting, generated>>
servers == <<master, strays, expected>>
history == <<drifted, suspect>>
vars == <<files, servers, save, last, history, saves, mistakes>>

Inis == {"template", "good", "bad", "blank"}
Valid == {"template", "good"}

SettingOf(v) == IF setting[v] = None THEN Default ELSE setting[v]

Init ==
  /\ ini = [v \in Versions |-> "template"]
  /\ setting = [v \in Versions |-> None]
  /\ generated = [v \in Versions |-> [ini |-> "template", setting |-> Default]]
  /\ master = [v \in Versions |-> None]
  /\ strays = [v \in Versions |-> 0]
  /\ expected = {} /\ save = None /\ last = None
  /\ drifted = {} /\ suspect = {} /\ saves = 0 /\ mistakes = 0

Fault == mistakes < MaxFaults /\ mistakes' = mistakes + 1

Fill(content) == IF content = "blank" THEN "template" ELSE content

\* generate_php_config: an empty php.ini is filled in first.
Generate(V) ==
  /\ ini' = [v \in Versions |-> IF v \in V THEN Fill(ini[v]) ELSE ini[v]]
  /\ generated' = [v \in Versions |->
       IF v \in V THEN [ini |-> Fill(ini[v]), setting |-> SettingOf(v)] ELSE generated[v]]

-----------------------------------------------------------------------------
(* The server of a version.                                                *)

Stop(v) ==
  /\ master' = [master EXCEPT ![v] = None]
  /\ expected' = expected \ {v}
  /\ UNCHANGED strays

\* A child that cannot be killed is dropped: it stays expected, and runs
\* on.  Its PID and socket files may also be what cannot be removed.
StopFails(v) ==
  \/ /\ master[v] # None
     /\ master' = [master EXCEPT ![v] = None]
     /\ strays' = [strays EXCEPT ![v] = @ + 1]
     /\ UNCHANGED expected
  \/ Stop(v)

\* A server that runs is kept; a new one reads the generated files.
Ensure(v) ==
  /\ master' = [master EXCEPT ![v] = IF @ = None THEN generated[v] ELSE @]
  /\ expected' = expected \cup {v}
  /\ UNCHANGED strays

ComesUp(v) == master[v] # None \/ generated[v].ini \in Valid

\* A server that does not come up is stopped again: always with a php.ini
\* it rejects, and when the fault is elsewhere.
EnsureFails(v) ==
  /\ IF ComesUp(v) THEN Fault ELSE UNCHANGED mistakes
  /\ expected' = expected \ {v}
  /\ UNCHANGED <<master, strays>>

-----------------------------------------------------------------------------
(* A save.                                                                 *)

Goto(step) == save' = [save EXCEPT !.step = step]

End(result) ==
  /\ last' = [save EXCEPT !.step = result]
  /\ save' = None

\* The contents are checked, and all but the macOS settings generate once more
\* before anything is written.
Begin(kind, v, value) ==
  /\ save = None /\ saves < MaxSaves
  /\ IF kind = "setting" /\ ~Windows THEN UNCHANGED <<ini, generated>> ELSE Generate({v})
  /\ save' = [kind |-> kind, version |-> v, value |-> value, step |-> "write",
              ini |-> Fill(ini[v]), setting |-> setting[v],
              restart |-> v \in expected, running |-> master[v], attempted |-> FALSE]
  /\ saves' = saves + 1
  /\ last' = None
  /\ UNCHANGED <<setting, servers, history, mistakes>>

BeginSavePhpIni(v) == \E content \in {"good", "bad", "blank"} : Begin("ini", v, content)
BeginSaveSetting(v) == \E value \in Settings : Begin("setting", v, value)

SetIni(content) == ini' = [ini EXCEPT ![save.version] = content] /\ UNCHANGED setting
SetSetting(value) == setting' = [setting EXCEPT ![save.version] = value] /\ UNCHANGED ini

Write ==
  /\ save # None /\ save.step = "write"
  /\ IF save.kind = "ini" THEN SetIni(save.value) ELSE SetSetting(save.value)
  /\ Goto("generate")
  /\ UNCHANGED <<generated, servers, last, history, saves, mistakes>>

\* A failure on the way is answered by putting the old state back; on
\* Windows a settings file that could not be replaced is only reported,
\* after the old one has been removed.
WriteFails ==
  /\ save # None /\ save.step = "write" /\ Fault
  /\ IF Windows /\ save.kind = "setting"
       THEN /\ \E removed \in BOOLEAN : SetSetting(IF removed THEN None ELSE save.setting)
            /\ End("lost")
            /\ drifted' = drifted \cup {save.version}
       ELSE UNCHANGED <<ini, setting, last, drifted>> /\ Goto("restore")
  /\ UNCHANGED <<generated, servers, suspect, saves>>

\* Without a restart a save ends with the validation; the Windows settings
\* have none.
AfterGenerate == IF Windows /\ save.kind = "setting" THEN "stop" ELSE "validate"

GenerateFiles ==
  /\ save # None /\ save.step = "generate"
  /\ Generate({save.version})
  /\ Goto(AfterGenerate)
  /\ UNCHANGED <<setting, servers, last, history, saves, mistakes>>

\* Fault: the server is restarted without asking it about the file.
ValidateNothing ==
  /\ save # None /\ save.step = "validate"
  /\ Goto("stop")
  /\ UNCHANGED <<files, servers, last, history, saves, mistakes>>

Validate ==
  /\ save # None /\ save.step = "validate"
  /\ Goto(IF generated[save.version].ini \in Valid THEN "stop" ELSE "restore")
  /\ UNCHANGED <<files, servers, last, history, saves, mistakes>>

StageFails ==
  /\ save # None /\ save.step \in {"generate", "validate"} /\ Fault
  /\ Goto("restore")
  /\ UNCHANGED <<files, servers, last, history, saves>>

Finish ==
  /\ save # None /\ save.step = "stop" /\ ~save.restart
  /\ End("ok")
  /\ suspect' = IF AfterGenerate = "validate" THEN suspect \ {save.version} ELSE suspect
  /\ UNCHANGED <<files, servers, drifted, saves, mistakes>>

StopServer ==
  /\ save # None /\ save.step = "stop" /\ save.restart
  /\ save' = [save EXCEPT !.step = "ensure", !.attempted = TRUE]
  /\ Stop(save.version)
  /\ UNCHANGED <<files, last, history, saves, mistakes>>

StopServerFails ==
  /\ save # None /\ save.step = "stop" /\ save.restart /\ Fault
  /\ save' = [save EXCEPT !.step = "restore",
                          !.attempted = ~(Windows /\ save.kind = "setting")]
  /\ StopFails(save.version)
  /\ UNCHANGED <<files, last, history, saves>>

EnsureServer ==
  /\ save # None /\ save.step = "ensure" /\ ComesUp(save.version)
  /\ Ensure(save.version) /\ End("ok")
  /\ drifted' = drifted \ {save.version} /\ suspect' = suspect \ {save.version}
  /\ UNCHANGED <<files, saves, mistakes>>

EnsureServerFails ==
  /\ save # None /\ save.step = "ensure"
  /\ EnsureFails(save.version) /\ Goto("restore")
  /\ UNCHANGED <<files, last, history, saves>>

-----------------------------------------------------------------------------
(* Putting the old state back.                                             *)

Restore ==
  /\ save # None /\ save.step = "restore"
  /\ IF save.kind = "ini" THEN SetIni(save.ini) ELSE SetSetting(save.setting)
  /\ Goto("regenerate")
  /\ UNCHANGED <<generated, servers, last, history, saves, mistakes>>

AfterRegenerate ==
  IF save.attempted THEN Goto("restop") /\ UNCHANGED <<last, suspect>>
  ELSE End("failed") /\ UNCHANGED suspect

Regenerate ==
  /\ save # None /\ save.step = "regenerate"
  /\ Generate({save.version})
  /\ AfterRegenerate
  /\ UNCHANGED <<setting, servers, drifted, saves, mistakes>>

\* The Windows settings stop nothing here (nothing runs by now), and a
\* server that does not come back is not reported.  When their stop failed
\* nothing is started again.
Restop ==
  /\ save # None /\ save.step = "restop"
  /\ IF Windows /\ save.kind = "setting" THEN UNCHANGED servers ELSE Stop(save.version)
  /\ Goto("reensure")
  /\ UNCHANGED <<files, last, history, saves, mistakes>>

Reensure ==
  /\ save # None /\ save.step = "reensure" /\ ComesUp(save.version)
  /\ Ensure(save.version) /\ drifted' = drifted \ {save.version}
  /\ End("failed")
  /\ UNCHANGED <<files, suspect, saves, mistakes>>

\* Both errors are reported, and what is left is whatever it is.
Unrestored ==
  /\ End("unrestored")
  /\ drifted' = drifted \cup {save.version}
  /\ suspect' = suspect \cup {save.version}

ReensureFails ==
  /\ save # None /\ save.step = "reensure"
  /\ EnsureFails(save.version)
  /\ IF Windows /\ save.kind = "setting" THEN End("failed") /\ UNCHANGED history ELSE Unrestored
  /\ UNCHANGED <<files, saves>>

RestoreFails ==
  /\ save # None /\ save.step \in {"restore", "regenerate", "restop"} /\ Fault
  /\ IF save.step = "restop" THEN StopFails(save.version) ELSE UNCHANGED servers
  /\ Unrestored
  /\ UNCHANGED <<files, saves>>

-----------------------------------------------------------------------------
(* What else moves the same files and servers.                             *)

Quiet == save = None /\ last' = None /\ UNCHANGED <<save, saves>>

\* Reading php.ini generates.
ReadPhpIni(v) ==
  /\ Quiet /\ Generate({v})
  /\ UNCHANGED <<setting, servers, history, mistakes>>

\* StartAll generates and validates every version, ends what still runs
\* and starts the servers.
StartAll ==
  /\ Quiet /\ \A v \in Versions : master[v] = None
  /\ Generate(Versions) /\ UNCHANGED setting
  /\ IF \A v \in Versions : generated'[v].ini \in Valid
       THEN /\ master' = generated' /\ expected' = Versions
            /\ strays' = [v \in Versions |-> 0]
            /\ drifted' = {} /\ suspect' = {}
       ELSE UNCHANGED <<servers, history>>
  /\ UNCHANGED mistakes

StopAll ==
  /\ Quiet
  /\ master' = [v \in Versions |-> None] /\ expected' = {}
  /\ strays' = [v \in Versions |-> 0]
  /\ UNCHANGED <<files, history, mistakes>>

\* A change of the MariaDB connection generates every version and restarts
\* those in use: all are stopped, then started in order until one fails.
RefreshConnection ==
  /\ Quiet /\ expected # {}
  /\ Generate(Versions) /\ UNCHANGED <<setting, strays, suspect>>
  /\ IF \E v \in expected : generated'[v].ini \notin Valid
       THEN UNCHANGED <<master, expected, drifted, mistakes>>
       ELSE /\ \/ expected' = expected /\ UNCHANGED mistakes
               \/ Fault /\ \E v \in expected : expected' = {w \in expected : w < v}
            /\ master' = [v \in Versions |-> IF v \in expected' THEN generated'[v] ELSE None]
            /\ drifted' = drifted \ expected'

\* The user opens the file in an editor.
EditOutside(v) ==
  /\ Quiet /\ Fault
  /\ \E content \in Inis \ {ini[v]} : ini' = [ini EXCEPT ![v] = content]
  /\ drifted' = drifted \cup {v} /\ suspect' = suspect \cup {v}
  /\ UNCHANGED <<setting, generated, servers>>

ServerEnds(v) ==
  /\ master[v] # None /\ Fault
  /\ master' = [master EXCEPT ![v] = None]
  /\ last' = None
  /\ UNCHANGED <<files, strays, expected, save, history, saves>>

\* The Agent ends; its children do not, and a save stays where it is.
AgentEnds ==
  /\ Fault
  /\ strays' = [v \in Versions |-> strays[v] + IF master[v] = None THEN 0 ELSE 1]
  /\ master' = [v \in Versions |-> None] /\ expected' = {}
  /\ suspect' = IF save = None THEN suspect ELSE suspect \cup {save.version}
  /\ drifted' = Versions
  /\ save' = None /\ last' = None
  /\ UNCHANGED <<files, saves>>

Next ==
  \/ \E v \in Versions :
       BeginSavePhpIni(v) \/ BeginSaveSetting(v) \/ ReadPhpIni(v) \/ EditOutside(v) \/ ServerEnds(v)
  \/ Write \/ WriteFails \/ GenerateFiles \/ Validate \/ StageFails \/ Finish
  \/ StopServer \/ StopServerFails \/ EnsureServer \/ EnsureServerFails
  \/ Restore \/ Regenerate \/ Restop \/ Reensure \/ ReensureFails \/ RestoreFails
  \/ StartAll \/ StopAll \/ RefreshConnection \/ AgentEnds

Spec == Init /\ [][Next]_vars

-----------------------------------------------------------------------------

Config == [ini : Inis, setting : Settings \cup {Default}]

\* Each variable has its type.
TypeOK ==
  /\ ini \in [Versions -> Inis] /\ setting \in [Versions -> Settings \cup {None}]
  /\ generated \in [Versions -> Config]
  /\ \A v \in Versions : master[v] = None \/ master[v] \in Config
  /\ strays \in [Versions -> 0..MaxFaults]
  /\ expected \subseteq Versions /\ drifted \subseteq Versions /\ suspect \subseteq Versions
  /\ saves \in 0..MaxSaves /\ mistakes \in 0..MaxFaults

\* Between saves a server runs with the files as they were last saved, and
\* a php.ini that somebody validated, unless a file was edited outside, a
\* save was cut short or could not be undone (save_php_ini,
\* save_php_fpm_settings, save_php_fastcgi_settings).
ServedAsSaved ==
  save = None => \A v \in Versions :
    /\ master[v] # None /\ v \notin drifted =>
         master[v] = [ini |-> ini[v], setting |-> SettingOf(v)]
    /\ ini[v] \in Valid \/ v \in suspect

\* A save that reports failure and nothing more has put back the file it
\* wrote and the copy generated from it, and on macOS the server it had
\* stopped, with its old configuration; one that succeeds runs with what it
\* saved (the comments at services/src/lib.rs:1697 and 1758).
FailedSaveRestores ==
  last # None =>
    LET v == last.version
    IN  /\ last.step = "failed" =>
             /\ ini[v] = last.ini /\ setting[v] = last.setting
             /\ generated[v] = [ini |-> ini[v], setting |-> SettingOf(v)]
             /\ ~Windows /\ last.attempted => master[v] = generated[v]
        /\ last.step = "ok" =>
             /\ IF last.kind = "ini" THEN ini[v] = Fill(last.value) ELSE setting[v] = last.value
             /\ last.restart => master[v] = generated[v]
=============================================================================
