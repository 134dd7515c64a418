----------------------- MODULE ManagedProcessesProofs -----------------------
(***************************************************************************)
(* A stop of processes left by an Agent that is gone ends what is fabDev's *)
(* and nothing else, for any number of PIDs, starts and faults; the logs   *)
(* of the processes keep their entries while they are rotated; PHP runs    *)
(* with what was saved, whatever stage of a save fails; and so does        *)
(* MariaDB, through faults, crashes and requests that are taken back.      *)
(***************************************************************************)
EXTENDS ManagedProcesses, Naturals, Sequences, FiniteSetTheorems, TLAPS

\* What LogRotation, PhpSettings and MariaDb have of their own; what they share with
\* ManagedProcesses or each other by name stands for one of them at a time.
CONSTANTS
  MaxSize, Retention, MaxEntries,
  Versions, Default, Settings, None, MaxSaves,
  Dirs, DefaultDir, DefaultSettings, Choices, Configs, Template
VARIABLES
  log, archives, at, written, late, expired,
  ini, setting, generated, strays, expected, save, last, drifted, suspect, saves, mistakes,
  settings, connection, custom, desired, data, servers, pidFile, php, installed, child,
  recovered, path, up, task, accepted, lastGood, excused

Logs == INSTANCE LogRotation
Php == INSTANCE PhpSettings
Db == INSTANCE MariaDb

\* 0 stands for "no master" and is no PID.
PidsDistinct == 0 \notin Pids /\ Windows \in BOOLEAN

Kinds == {"none", "master", "worker", "foreign"}
Steps == {"idle", "next", "wait", "stopped", "failed"}

ProcessesTyped ==
  /\ kind \in [Pids -> Kinds]
  /\ master \in [Of("worker") -> Of("master") \cup {0}]
  /\ asked \subseteq Pids

Typed ==
  /\ ProcessesTyped
  /\ step \in Steps
  /\ listed \subseteq Pids
  /\ step = "wait" => current \in Pids
  /\ forced \in BOOLEAN

\* What the stop still has to deal with.
Watched == listed \cup {p \in Pids : step = "wait" /\ p = current}

StepFits ==
  /\ Windows => step # "wait"
  /\ step = "idle" => /\ listed = {} /\ asked = {}
                      /\ orphans = {w \in DOMAIN master : master[w] = 0}
  /\ step = "stopped" => listed = {}

Stopping == step \in {"next", "wait", "stopped"}

\* No service process is forgotten: masters are still watched, and on Windows so
\* are the workers, but for those that started since the listing.
MastersWatched == Stopping => Of("master") \subseteq Watched
WorkersWatched == Windows /\ Stopping => Of("worker") \subseteq listed \cup fresh

\* On Unix a PID is watched for what it was when it was listed.
ForeignFresh == ~Windows => \A p \in Watched : kind[p] = "foreign" => p \in fresh

\* On Unix a worker loses its master only to a SIGKILL or a crash.
WorkersFollow ==
  ~Windows /\ ~forced => \A w \in DOMAIN master : master[w] = 0 => w \in orphans \cup fresh

Inv ==
  /\ Typed /\ StepFits /\ MastersWatched /\ WorkersWatched /\ ForeignFresh /\ WorkersFollow
  /\ OthersUnharmed

-----------------------------------------------------------------------------
(* What the end of processes leaves.                                       *)

\* Processes that end leave those of the other PIDs, each with its master unless
\* that is among them.
LEMMA GoneLeaves ==
  ASSUME PidsDistinct, ProcessesTyped, NEW ps \in SUBSET Pids, Gone(ps)
  PROVE  /\ ProcessesTyped'
         /\ asked' \subseteq asked
         /\ Of("master")' = Of("master") \ ps
         /\ Of("worker")' = Of("worker") \ ps
         /\ \A p \in Pids : kind'[p] = "foreign" => kind[p] = "foreign"
         /\ \A w \in DOMAIN master' :
              w \in DOMAIN master /\ (master'[w] = 0 => master[w] = 0 \/ master[w] \in ps)
  <1>1. kind' \in [Pids -> Kinds]
    BY DEF Gone, ProcessesTyped, Kinds
  <1>2. /\ Of("master")' = Of("master") \ ps
        /\ Of("worker")' = Of("worker") \ ps
        /\ \A p \in Pids : kind'[p] = "foreign" => kind[p] = "foreign"
    BY DEF Gone, ProcessesTyped, Kinds, Of
  <1>3. DOMAIN master = Of("worker")
    BY DEF ProcessesTyped
  <1>4. master' \in [Of("worker") \ ps -> (Of("master") \ ps) \cup {0}]
    BY <1>3 DEF Gone, ProcessesTyped
  <1>5. \A w \in DOMAIN master' :
          w \in DOMAIN master /\ (master'[w] = 0 => master[w] = 0 \/ master[w] \in ps)
    BY DEF Gone
  <1>6. asked' \subseteq asked
    BY DEF Gone
  <1> QED
    BY <1>1, <1>2, <1>4, <1>5, <1>6 DEF ProcessesTyped

\* Ends in which no master leaves workers behind keep WorkersFollow.
LEMMA EndsFollow ==
  ASSUME PidsDistinct, Inv, NEW ps \in SUBSET Pids, Gone(ps),
         UNCHANGED <<orphans, fresh>>, ~forced' => ~forced,
         ~Windows /\ ~forced' => \A w \in DOMAIN master \ ps : master[w] \notin ps
  PROVE  WorkersFollow'
  <1>1. SUFFICES ASSUME ~Windows, ~forced', NEW w \in DOMAIN master', master'[w] = 0
                 PROVE  w \in orphans \cup fresh
    BY DEF WorkersFollow
  <1>2. ~forced
    BY <1>1 DEF Inv, Typed
  <1>3. w \in DOMAIN master \ ps /\ master[w] = 0
    BY <1>1, GoneLeaves DEF Inv, Typed, Gone
  <1> QED
    BY <1>1, <1>2, <1>3 DEF Inv, WorkersFollow

\* The end of any processes keeps what is said of the watched ones, while the
\* stop is where it is.
LEMMA EndsWatched ==
  ASSUME PidsDistinct, Inv, NEW ps \in SUBSET Pids, Gone(ps), UNCHANGED <<step, listed, current, fresh>>
  PROVE  MastersWatched' /\ WorkersWatched' /\ ForeignFresh'
  <1>1. Watched' = Watched /\ Stopping' = Stopping
    BY DEF Watched, Stopping
  <1>2. ProcessesTyped /\ Watched \subseteq Pids
    BY DEF Inv, Typed, Watched
  <1>3. Of("master")' \subseteq Of("master") /\ Of("worker")' \subseteq Of("worker")
    BY <1>2, GoneLeaves
  <1>4. \A p \in Pids : kind'[p] = "foreign" => kind[p] = "foreign"
    BY <1>2, GoneLeaves
  <1> QED
    BY <1>1, <1>2, <1>3, <1>4 DEF Inv, MastersWatched, WorkersWatched, ForeignFresh

-----------------------------------------------------------------------------
(* The steps.                                                              *)

\* Before the stop nothing is watched, and the orphans are those there are.
LEMMA InitInv == ASSUME PidsDistinct, Init PROVE Inv
  <1>1. Typed
    BY DEF Init, Typed, ProcessesTyped, Kinds, Steps, Of
  <1>2. StepFits /\ MastersWatched /\ WorkersWatched
    BY DEF Init, StepFits, MastersWatched, WorkersWatched, Stopping
  <1>3. ForeignFresh /\ WorkersFollow /\ OthersUnharmed
    BY DEF Init, ForeignFresh, Watched, WorkersFollow, OthersUnharmed
  <1> QED
    BY <1>1, <1>2, <1>3 DEF Inv

\* What starts is fresh, unless the stop has not begun; a new worker has a master.
LEMMA StartInv == ASSUME PidsDistinct, Inv, NEW p \in Pids, Start(p) PROVE Inv'
  <1>1. ProcessesTyped /\ Typed /\ StepFits
    BY DEF Inv, Typed
  <1>2. UNCHANGED <<step, listed, current, asked, orphans, forced, harmed>> /\ kind[p] = "none"
        /\ fresh \subseteq fresh' /\ (step # "idle" => p \in fresh')
    BY DEF Start
  <1>3. kind' \in [Pids -> Kinds] /\ \A q \in Pids \ {p} : kind'[q] = kind[q]
    BY <1>1 DEF Start, ProcessesTyped, Kinds, Of
  <1>4. p \notin DOMAIN master
    BY <1>1, <1>2 DEF ProcessesTyped, Of
  <1>5. CASE kind' = [kind EXCEPT ![p] = "foreign"] /\ master' = master
    <2>1. Of("master")' = Of("master") /\ Of("worker")' = Of("worker")
      BY <1>1, <1>2, <1>5 DEF ProcessesTyped, Of, Kinds
    <2>2. Typed'
      BY <1>1, <1>2, <1>3, <1>5, <2>1 DEF Typed, ProcessesTyped
    <2>3. StepFits' /\ MastersWatched' /\ WorkersWatched'
      BY <1>2, <1>5, <2>1 DEF Inv, StepFits, MastersWatched, WorkersWatched, Watched, Stopping
    <2>4. ForeignFresh'
      BY <1>1, <1>2, <1>3 DEF Inv, ForeignFresh, Watched, StepFits, Typed
    <2>5. WorkersFollow' /\ OthersUnharmed'
      BY <1>2, <1>5 DEF Inv, WorkersFollow, OthersUnharmed
    <2> QED
      BY <2>2, <2>3, <2>4, <2>5 DEF Inv
  <1>6. CASE \E m \in Of("master") \ asked :
               /\ kind' = [kind EXCEPT ![p] = "worker"]
               /\ master' = [w \in DOMAIN master \cup {p} |-> IF w = p THEN m ELSE master[w]]
    <2>1. PICK m \in Of("master") :
               /\ kind' = [kind EXCEPT ![p] = "worker"]
               /\ master' = [w \in DOMAIN master \cup {p} |-> IF w = p THEN m ELSE master[w]]
      BY <1>6
    <2>2. Of("master")' = Of("master") /\ Of("worker")' = Of("worker") \cup {p}
      BY <1>1, <1>2, <2>1 DEF ProcessesTyped, Of, Kinds
    <2>3. master' \in [Of("worker") \cup {p} -> Of("master") \cup {0}]
      BY <1>1, <2>1 DEF ProcessesTyped
    <2>4. Typed'
      BY <1>1, <1>2, <1>3, <2>2, <2>3 DEF Typed, ProcessesTyped
    <2>5. m # 0
      BY DEF Of, PidsDistinct
    <2>6. {w \in DOMAIN master' : master'[w] = 0} = {w \in DOMAIN master : master[w] = 0}
      BY <2>1, <2>5, <1>4
    <2>7. StepFits' /\ MastersWatched' /\ WorkersWatched'
      BY <1>2, <2>2, <2>6 DEF Inv, StepFits, MastersWatched, WorkersWatched, Watched, Stopping
    <2>8. ForeignFresh'
      BY <1>1, <1>2, <1>3 DEF Inv, ForeignFresh, Watched, StepFits, Typed
    <2>9. WorkersFollow' /\ OthersUnharmed'
      BY <1>2, <2>6 DEF Inv, WorkersFollow, OthersUnharmed
    <2> QED
      BY <2>4, <2>7, <2>8, <2>9 DEF Inv
  <1> QED
    BY <1>5, <1>6 DEF Start

\* A master that obeys takes its workers with it.
LEMMA ObeyInv == ASSUME PidsDistinct, Inv, NEW p \in Pids, Obey(p) PROVE Inv'
  <1> DEFINE ps == {p} \cup WorkersOf(p)
  <1>1. ProcessesTyped /\ Typed /\ StepFits
    BY DEF Inv, Typed
  <1>2. ps \in SUBSET Pids
    BY <1>1 DEF WorkersOf, ProcessesTyped, Of
  <1>3. Gone(ps) /\ p \in asked
        /\ UNCHANGED <<step, listed, current, orphans, fresh, forced, harmed>>
    BY DEF Obey
  <1>4. \A w \in DOMAIN master \ ps : master[w] \notin ps
    <2> SUFFICES ASSUME NEW w \in DOMAIN master \ ps, master[w] \in ps PROVE FALSE
      OBVIOUS
    <2>1. master[w] # p
      BY DEF WorkersOf
    <2>2. master[w] \in Of("worker")
      BY <2>1, <1>1 DEF WorkersOf, ProcessesTyped
    <2> QED
      BY <2>2, <1>1 DEF ProcessesTyped, Of, PidsDistinct
  <1>5. WorkersFollow'
    BY <1>2, <1>3, <1>4, EndsFollow
  <1>6. MastersWatched' /\ WorkersWatched' /\ ForeignFresh'
    BY <1>2, <1>3, EndsWatched
  <1>7. Typed'
    BY <1>1, <1>2, <1>3, GoneLeaves DEF Typed
  <1>8. StepFits' /\ OthersUnharmed'
    BY <1>1, <1>3 DEF Inv, StepFits, OthersUnharmed
  <1> QED
    BY <1>5, <1>6, <1>7, <1>8 DEF Inv

\* A crash counts as one that leaves workers behind once the stop has begun.
LEMMA DieInv == ASSUME PidsDistinct, Inv, NEW p \in Pids, Die(p) PROVE Inv'
  <1>1. ProcessesTyped /\ Typed /\ StepFits
    BY DEF Inv, Typed
  <1>2. Gone({p}) /\ UNCHANGED <<step, listed, current, fresh, harmed>>
        /\ orphans' = (IF step = "idle" THEN {w \in DOMAIN master' : master'[w] = 0} ELSE orphans)
        /\ forced' = (forced \/ (step # "idle" /\ kind[p] = "master"))
    BY DEF Die
  <1>3. Typed'
    BY <1>1, <1>2, GoneLeaves DEF Typed
  <1>4. MastersWatched' /\ WorkersWatched' /\ ForeignFresh'
    BY <1>2, EndsWatched
  <1>5. WorkersFollow'
    <2>1. CASE step = "idle"
      BY <2>1, <1>2 DEF WorkersFollow
    <2>2. CASE step # "idle"
      <3>1. ~forced' => kind[p] # "master" /\ ~forced
        BY <2>2, <1>2
      <3>2. ~forced' => \A w \in DOMAIN master \ {p} : master[w] \notin {p}
        BY <3>1, <1>1 DEF ProcessesTyped, Of, PidsDistinct
      <3>3. UNCHANGED <<orphans, fresh>>
        BY <2>2, <1>2
      <3>4. {p} \in SUBSET Pids /\ Gone({p})
        BY <1>2
      <3> QED
        BY <3>1, <3>2, <3>3, <3>4, EndsFollow
    <2> QED
      BY <2>1, <2>2
  <1>6. StepFits' /\ OthersUnharmed'
    BY <1>1, <1>2, GoneLeaves DEF Inv, StepFits, OthersUnharmed
  <1> QED
    BY <1>3, <1>4, <1>5, <1>6 DEF Inv

\* The listing watches every master, and on Windows every process.
LEMMA ListInv == ASSUME PidsDistinct, Inv, List PROVE Inv'
  <1>1. ProcessesTyped /\ Typed /\ StepFits
    BY DEF Inv, Typed
  <1>2. UNCHANGED <<kind, master, current, asked, orphans, fresh, forced, harmed>>
        /\ step' = "next" /\ step = "idle"
    BY DEF List
  <1>3. Of("master") \subseteq listed' /\ listed' \subseteq Pids
    BY <1>1 DEF List, Managed, Of
  <1>4. Windows => Of("worker") \subseteq listed'
    BY <1>1 DEF List, Of
  <1>5. ~Windows => \A p \in listed' : kind[p] = "master"
    BY DEF List, Managed
  <1>6. Typed'
    BY <1>1, <1>2, <1>3 DEF Typed, ProcessesTyped, Steps, Of
  <1>7. StepFits' /\ WorkersFollow' /\ OthersUnharmed'
    BY <1>1, <1>2 DEF Inv, StepFits, WorkersFollow, OthersUnharmed
  <1>8. MastersWatched' /\ WorkersWatched' /\ ForeignFresh'
    BY <1>2, <1>3, <1>4, <1>5 DEF MastersWatched, WorkersWatched, ForeignFresh, Watched, Of
  <1> QED
    BY <1>6, <1>7, <1>8 DEF Inv

\* What was listed is signalled, whoever has the PID now.
LEMMA TermInv == ASSUME PidsDistinct, Inv, NEW p \in Pids, Term(p) PROVE Inv'
  <1>1. ProcessesTyped /\ Typed /\ StepFits
    BY DEF Inv, Typed
  <1>2. /\ UNCHANGED <<kind, master, orphans, fresh, forced>>
        /\ ~Windows /\ step = "next" /\ p \in listed /\ listed' = listed \ {p}
    BY DEF Term
  <1>3. /\ ForeignFresh /\ p \in Watched /\ Of("master") \subseteq listed /\ WorkersFollow
        /\ OthersUnharmed
    BY <1>2 DEF Inv, MastersWatched, Stopping, Watched
  <1>4. UNCHANGED <<Of("master"), Of("worker")>>
    BY <1>2 DEF Of
  <1>5. CASE kind[p] = "none" /\ UNCHANGED <<step, current, asked, harmed>>
    <2>1. Typed' /\ StepFits'
      BY <1>1, <1>2, <1>4, <1>5 DEF Typed, ProcessesTyped, StepFits
    <2>2. MastersWatched'
      BY <1>2, <1>3, <1>4, <1>5 DEF MastersWatched, Watched, Of
    <2>3. WorkersWatched' /\ WorkersFollow' /\ OthersUnharmed'
      BY <1>2, <1>3, <1>5 DEF WorkersWatched, WorkersFollow, OthersUnharmed
    <2>4. ForeignFresh'
      BY <1>2, <1>3, <1>5 DEF ForeignFresh, Watched
    <2> QED
      BY <2>1, <2>2, <2>3, <2>4 DEF Inv
  <1>6. CASE asked' = asked \cup {p} /\ Harm(p) /\ step' = "wait" /\ current' = p
    <2>1. Typed' /\ StepFits'
      BY <1>1, <1>2, <1>4, <1>6 DEF Typed, ProcessesTyped, StepFits, Steps
    <2>2. MastersWatched'
      BY <1>2, <1>3, <1>4, <1>6 DEF MastersWatched, Watched, Of
    <2>3. WorkersWatched' /\ WorkersFollow'
      BY <1>2, <1>3 DEF WorkersWatched, WorkersFollow
    <2>4. ForeignFresh'
      BY <1>2, <1>3, <1>6 DEF ForeignFresh, Watched
    <2>5. OthersUnharmed'
      BY <1>2, <1>3, <1>6 DEF OthersUnharmed, Harm, ForeignFresh
    <2> QED
      BY <2>1, <2>2, <2>3, <2>4, <2>5 DEF Inv
  <1> QED
    BY <1>5, <1>6 DEF Term

\* Nothing is left to wait for.
LEMMA EndedInv == ASSUME PidsDistinct, Inv, Ended PROVE Inv'
  <1>1. ProcessesTyped /\ Typed /\ StepFits /\ MastersWatched /\ ForeignFresh
    BY DEF Inv, Typed
  <1>2. /\ UNCHANGED <<kind, master, listed, asked, orphans, fresh, forced, harmed>>
        /\ step = "wait" /\ kind[current] = "none" /\ step' = "next"
    BY DEF Ended, HasEnded
  <1>3. Typed' /\ StepFits'
    BY <1>1, <1>2 DEF Typed, ProcessesTyped, StepFits, Steps, Of
  <1>4. MastersWatched'
    BY <1>1, <1>2 DEF MastersWatched, Watched, Stopping, Of
  <1>5. ForeignFresh'
    BY <1>1, <1>2 DEF ForeignFresh, Watched
  <1>6. WorkersWatched' /\ WorkersFollow' /\ OthersUnharmed'
    BY <1>1, <1>2 DEF Inv, StepFits, WorkersWatched, WorkersFollow, OthersUnharmed
  <1> QED
    BY <1>3, <1>4, <1>5, <1>6 DEF Inv

\* What is watched is killed: a master, whose workers then stay, or whoever took
\* its PID.
LEMMA KillInv == ASSUME PidsDistinct, Inv, Kill PROVE Inv'
  <1>1. ProcessesTyped /\ Typed /\ StepFits /\ MastersWatched /\ ForeignFresh /\ OthersUnharmed
    BY DEF Inv, Typed
  <1>2. /\ Gone({current}) /\ Harm(current) /\ UNCHANGED <<listed, orphans, fresh>>
        /\ step = "wait" /\ step' = "next"
        /\ forced' = (forced \/ kind[current] = "master")
    BY DEF Kill
  <1>3. ~Windows /\ current \in Watched /\ {current} \in SUBSET Pids
    BY <1>1, <1>2 DEF StepFits, Typed, Watched
  <1>4. Typed' /\ StepFits'
    BY <1>1, <1>2, <1>3, GoneLeaves DEF Typed, StepFits, Steps
  <1>5. MastersWatched'
    <2>1. Of("master") \subseteq listed \cup {current}
      BY <1>1, <1>2 DEF MastersWatched, Watched, Stopping
    <2>2. Of("master")' = Of("master") \ {current}
      BY <1>1, <1>2, <1>3, GoneLeaves
    <2> QED
      BY <1>2, <2>1, <2>2 DEF MastersWatched, Watched
  <1>6. ForeignFresh'
    <2>1. \A q \in Pids : kind'[q] = "foreign" => kind[q] = "foreign"
      BY <1>1, <1>2, <1>3, GoneLeaves
    <2>2. Watched' \subseteq Watched /\ Watched \subseteq Pids
      BY <1>1, <1>2 DEF Watched, Typed
    <2> QED
      BY <1>1, <1>2, <2>1, <2>2 DEF ForeignFresh
  <1>7. WorkersFollow'
    <2>1. ~forced' => ~forced /\ \A w \in DOMAIN master \ {current} : master[w] \notin {current}
      BY <1>1, <1>2, <1>3 DEF ProcessesTyped, Of, PidsDistinct
    <2> QED
      BY <1>2, <1>3, <2>1, EndsFollow
  <1>8. WorkersWatched' /\ OthersUnharmed'
    BY <1>1, <1>2, <1>3 DEF WorkersWatched, OthersUnharmed, Harm, ForeignFresh
  <1> QED
    BY <1>4, <1>5, <1>6, <1>7, <1>8 DEF Inv

\* On Windows a process is decided on and terminated through one handle.
LEMMA TerminateInv == ASSUME PidsDistinct, Inv, NEW p \in Pids, Terminate(p) PROVE Inv'
  <1>1. ProcessesTyped /\ Typed /\ StepFits /\ MastersWatched /\ WorkersWatched /\ OthersUnharmed
    BY DEF Inv, Typed
  <1>2. /\ UNCHANGED <<step, current, orphans, fresh, forced>>
        /\ Windows /\ step = "next" /\ p \in listed /\ listed' = listed \ {p}
    BY DEF Terminate
  <1>3. WorkersFollow' /\ ForeignFresh'
    BY <1>2 DEF WorkersFollow, ForeignFresh
  <1>4. Of("master") \subseteq listed /\ Of("worker") \subseteq listed \cup fresh
    BY <1>1, <1>2 DEF MastersWatched, WorkersWatched, Watched, Stopping
  <1>5. CASE Managed(p) /\ Gone({p}) /\ Harm(p)
    <2>1. Typed' /\ StepFits'
      BY <1>1, <1>2, <1>5, GoneLeaves DEF Typed, StepFits
    <2>2. Of("master")' = Of("master") \ {p} /\ Of("worker")' = Of("worker") \ {p}
      BY <1>1, <1>5, GoneLeaves
    <2>3. MastersWatched' /\ WorkersWatched'
      BY <1>2, <1>4, <2>2 DEF MastersWatched, WorkersWatched, Watched
    <2>4. OthersUnharmed'
      BY <1>1, <1>2, <1>5 DEF OthersUnharmed, Harm, Managed
    <2> QED
      BY <1>3, <2>1, <2>3, <2>4 DEF Inv
  <1>6. CASE ~Managed(p) /\ UNCHANGED <<kind, master, asked, harmed>>
    <2>1. Of("master")' = Of("master") /\ Of("worker")' = Of("worker")
          /\ p \notin Of("master") /\ p \notin Of("worker")
      BY <1>2, <1>6 DEF Of, Managed
    <2>2. Typed' /\ StepFits' /\ OthersUnharmed'
      BY <1>1, <1>2, <1>6, <2>1 DEF Typed, ProcessesTyped, StepFits, OthersUnharmed
    <2>3. MastersWatched' /\ WorkersWatched'
      BY <1>2, <1>4, <2>1 DEF MastersWatched, WorkersWatched, Watched
    <2> QED
      BY <1>3, <2>2, <2>3 DEF Inv
  <1> QED
    BY <1>5, <1>6 DEF Terminate, IsManagedExecutable

\* The stop gives up, or has nothing left to look at.
LEMMA OverInv ==
  ASSUME PidsDistinct, Inv, Stopped \/ \E p \in Pids : TerminateFails(p) PROVE Inv'
  <1>1. ProcessesTyped /\ Typed /\ StepFits
    BY DEF Inv, Typed
  <1>2. /\ UNCHANGED <<kind, master, current, asked, orphans, fresh, forced, harmed>>
        /\ step = "next" /\ listed' = {} /\ step' \in {"stopped", "failed"}
        /\ step' = "stopped" => listed = {}
    BY DEF Stopped, TerminateFails
  <1>3. Of("master")' = Of("master") /\ Of("worker")' = Of("worker")
    BY <1>2 DEF Of
  <1>4. Typed' /\ StepFits'
    BY <1>1, <1>2, <1>3 DEF Typed, ProcessesTyped, StepFits, Steps
  <1>5. MastersWatched' /\ WorkersWatched'
    BY <1>2, <1>3 DEF Inv, MastersWatched, WorkersWatched, Watched, Stopping
  <1>6. ForeignFresh' /\ WorkersFollow' /\ OthersUnharmed'
    BY <1>2 DEF Inv, ForeignFresh, Watched, WorkersFollow, OthersUnharmed
  <1> QED
    BY <1>4, <1>5, <1>6 DEF Inv

\* A stop that is reported as done leaves no service process but those that
\* started during it, workers that had lost their master before it on Unix and
\* the workers of a master that crashed or had to be killed; and it signals
\* somebody else's process only if, on Unix, that took a PID after the listing
\* (services 4237-4257, 4340-4414, 4706-4747).
THEOREM StopIsExact ==
  ASSUME PidsDistinct PROVE Spec => []StopsItsOwn
  <1>1. Init => Inv
    BY InitInv
  <1>2. Inv /\ [Next]_vars => Inv'
    <2> SUFFICES ASSUME Inv, [Next]_vars PROVE Inv'
      OBVIOUS
    <2>1. CASE UNCHANGED vars
      BY <2>1 DEF vars, Inv, Typed, ProcessesTyped, StepFits, MastersWatched, WorkersWatched,
                  ForeignFresh, WorkersFollow, OthersUnharmed, Watched, Stopping, Of
    <2>2. CASE \E p \in Pids : Start(p) \/ Obey(p) \/ Die(p) \/ Term(p) \/ Terminate(p)
      BY <2>2, StartInv, ObeyInv, DieInv, TermInv, TerminateInv
    <2>3. CASE List \/ Ended \/ Kill \/ Stopped \/ \E p \in Pids : TerminateFails(p)
      BY <2>3, ListInv, EndedInv, KillInv, OverInv
    <2> QED
      BY <2>1, <2>2, <2>3 DEF Next, Done
  <1>3. Inv => StopsItsOwn
    <2> SUFFICES ASSUME Inv, step = "stopped" PROVE StopLeavesNone
      BY DEF Inv, StopsItsOwn, StopLeavesNone
    <2>1. Of("master") = {}
      BY DEF Inv, StepFits, MastersWatched, Watched, Stopping
    <2>2. Of("worker") = DOMAIN master /\ \A w \in DOMAIN master : master[w] = 0
      BY <2>1 DEF Inv, Typed, ProcessesTyped
    <2>3. CASE Windows
      BY <2>1, <2>3 DEF Inv, StepFits, WorkersWatched, Stopping, StopLeavesNone
    <2>4. CASE ~Windows
      BY <2>1, <2>2, <2>4 DEF Inv, WorkersFollow, StopLeavesNone
    <2> QED
      BY <2>3, <2>4
  <1> QED
    BY <1>1, <1>2, <1>3, PTL DEF Spec

-----------------------------------------------------------------------------
(* LogRotation.                                                            *)

\* A log is due when it holds something, and there is at least one archive.
LogAssumption == Retention \in Nat \ {0} /\ MaxSize \in Nat \ {0}

Numbers == 1..Retention

\* What is in the files, and where a rotation may be.
LogShaped ==
  /\ log \in Seq(Nat) /\ archives \in [Numbers -> Seq(Nat)]
  /\ written \in Nat /\ faults \in Nat
  /\ Logs!TypeOK
  /\ step = "drop" => at = Retention
  /\ step = "shift" => at \in 1..(Retention - 1)

\* The archive that a rotation has emptied and not filled yet.
Gap == CASE step = "shift" -> at + 1 [] step = "copy" -> 1 [] OTHER -> 0

GapEmpty == Gap # 0 => archives[Gap] = <<>>

\* The first conjunct of EntriesKept; in the copied log there is nothing else
\* than in the copy but what came late.
AllHeld ==
  /\ 1..written \subseteq Logs!Held \cup expired \cup late
  /\ step = "truncate" => Logs!Entries(log) \subseteq Logs!Entries(archives[1]) \cup late

\* The second, with the log as the newest: what it holds or will hold begins
\* after every archive.
InOrder ==
  /\ \A i, j \in Numbers : i < j /\ archives[i] # <<>> /\ archives[j] # <<>> =>
       Head(archives[j]) <= Head(archives[i])
  /\ \A i \in Numbers : archives[i] # <<>> =>
       /\ Head(archives[i]) <= written
       /\ log # <<>> => Head(archives[i]) <= Head(log)

\* The third: without a fault only the gap stands before an archive, and nothing
\* has expired as long as another is empty.
NoOther ==
  faults = 0 =>
    /\ \A i, j \in Numbers \ {Gap} : i < j /\ archives[j] # <<>> => archives[i] # <<>>
    /\ expired # {} => \A i \in Numbers \ {Gap} : archives[i] # <<>>
    /\ step # "idle" => log # <<>>

LogInv == LogShaped /\ GapEmpty /\ AllHeld /\ InOrder /\ NoOther

\* What is in a file after it is appended to, emptied or copied in part.
LEMMA LogFiles ==
  ASSUME NEW f \in Seq(Nat), NEW n \in Nat, NEW k \in 0..Len(f)
  PROVE  /\ Logs!Entries(<<>>) = {}
         /\ Append(f, n) \in Seq(Nat) /\ Append(f, n) # <<>>
         /\ Logs!Entries(Append(f, n)) = Logs!Entries(f) \cup {n}
         /\ f # <<>> => Head(Append(f, n)) = Head(f) /\ Head(f) \in Logs!Entries(f)
         /\ f = <<>> => Head(Append(f, n)) = n
         /\ SubSeq(f, 1, k) \in Seq(Nat)
         /\ Logs!Entries(SubSeq(f, 1, k)) \subseteq Logs!Entries(f)
         /\ SubSeq(f, 1, k) # <<>> => f # <<>> /\ Head(SubSeq(f, 1, k)) = Head(f)
<1> USE DEF Logs!Entries, Logs!ToSet
<1>1. Logs!Entries(<<>>) = {}
  OBVIOUS
<1>2. Append(f, n) \in Seq(Nat) /\ Append(f, n) # <<>>
  OBVIOUS
<1>3. Logs!Entries(Append(f, n)) = Logs!Entries(f) \cup {n}
  <2>1. DOMAIN Append(f, n) = DOMAIN f \cup {Len(f) + 1} /\ Append(f, n)[Len(f) + 1] = n
    OBVIOUS
  <2>2. \A i \in DOMAIN f : Append(f, n)[i] = f[i]
    OBVIOUS
  <2> QED
    BY <2>1, <2>2
<1>4. f # <<>> => Head(Append(f, n)) = Head(f) /\ Head(f) \in Logs!Entries(f)
  OBVIOUS
<1>5. f = <<>> => Head(Append(f, n)) = n
  OBVIOUS
<1>6. SubSeq(f, 1, k) \in Seq(Nat)
  OBVIOUS
<1>7. Logs!Entries(SubSeq(f, 1, k)) \subseteq Logs!Entries(f)
  OBVIOUS
<1>8. SubSeq(f, 1, k) # <<>> => f # <<>> /\ Head(SubSeq(f, 1, k)) = Head(f)
  OBVIOUS
<1> QED
  BY <1>1, <1>2, <1>3, <1>4, <1>5, <1>6, <1>7, <1>8

\* What the archives and the log hold, now and after a step.
LEMMA LogHeld ==
  /\ Logs!Held = (UNION {Logs!Entries(archives[i]) : i \in Numbers}) \cup Logs!Entries(log)
  /\ Logs!Held' = (UNION {Logs!Entries(archives'[i]) : i \in Numbers}) \cup Logs!Entries(log')
BY DEF Logs!Held, Numbers

\* LogInv holds at the start.
LEMMA LogInit == LogAssumption /\ Logs!Init => LogInv
<1> SUFFICES ASSUME LogAssumption, Logs!Init PROVE LogInv
  OBVIOUS
<1> USE DEF LogAssumption, Logs!Init, Numbers
<1>1. Logs!Entries(<<>>) = {}
  BY DEF Logs!Entries, Logs!ToSet
<1>2. LogShaped
  BY <1>1 DEF LogShaped, Logs!TypeOK
<1>3. AllHeld
  BY DEF AllHeld
<1> QED
  BY <1>2, <1>3 DEF LogInv, GapEmpty, Gap, InOrder, NoOther

\* The service writes on, also while its log is rotated.
LEMMA LogWritten == LogAssumption /\ LogInv /\ Logs!WriteEntry => LogInv'
<1> SUFFICES ASSUME LogAssumption, LogInv, Logs!WriteEntry PROVE LogInv'
  OBVIOUS
<1> USE DEF LogAssumption, Logs!WriteEntry, Numbers
<1>1. log \in Seq(Nat) /\ written \in Nat /\ written + 1 \in Nat
  BY DEF LogInv, LogShaped
<1>2. /\ log' \in Seq(Nat) /\ log' # <<>>
      /\ Logs!Entries(log') = Logs!Entries(log) \cup {written + 1}
      /\ log # <<>> => Head(log') = Head(log) /\ Head(log) \in Logs!Entries(log)
      /\ log = <<>> => Head(log') = written + 1
  <2>1. 0 \in 0..Len(log)
    BY <1>1
  <2>2. /\ Append(log, written + 1) \in Seq(Nat) /\ Append(log, written + 1) # <<>>
        /\ Logs!Entries(Append(log, written + 1)) = Logs!Entries(log) \cup {written + 1}
        /\ log # <<>> => Head(Append(log, written + 1)) = Head(log)
                           /\ Head(log) \in Logs!Entries(log)
        /\ log = <<>> => Head(Append(log, written + 1)) = written + 1
    BY <1>1, <2>1, LogFiles
  <2>3. log' = Append(log, written + 1)
    OBVIOUS
  <2> QED
    BY <2>2, <2>3
<1>3. LogShaped'
  <2>1. Logs!TypeOK'
    BY <1>1, <1>2 DEF LogInv, LogShaped, Logs!TypeOK
  <2> QED
    BY <1>1, <1>2, <2>1 DEF LogInv, LogShaped
<1>4. GapEmpty' /\ Gap' = Gap
  BY DEF LogInv, GapEmpty, Gap
<1>5. AllHeld'
  <2>1. Logs!Held' = Logs!Held \cup {written + 1}
    BY <1>2, LogHeld
  <2>2. 1..written' = (1..written) \cup {written + 1}
    BY <1>1
  <2>3. late \subseteq late' /\ (step = "truncate" => written + 1 \in late')
    OBVIOUS
  <2> QED
    BY <1>2, <2>1, <2>2, <2>3 DEF LogInv, AllHeld
<1>6. InOrder'
  BY <1>1, <1>2 DEF LogInv, LogShaped, InOrder
<1>7. NoOther'
  BY <1>2, <1>4 DEF LogInv, NoOther
<1> QED
  BY <1>3, <1>4, <1>5, <1>6, <1>7 DEF LogInv

\* A rotation begins when the log is not empty.
LEMMA LogDue == LogAssumption /\ LogInv /\ Logs!Due => LogInv'
<1> SUFFICES ASSUME LogAssumption, LogInv, Logs!Due PROVE LogInv'
  OBVIOUS
<1> USE DEF LogAssumption, Logs!Due, Numbers
<1>1. log # <<>>
  BY DEF LogInv, LogShaped
<1>2. Gap = 0 /\ Gap' = 0
  BY DEF Gap
<1>3. LogShaped'
  BY DEF LogInv, LogShaped, Logs!TypeOK
<1>4. AllHeld'
  BY DEF LogInv, AllHeld, Logs!Held
<1> QED
  BY <1>1, <1>2, <1>3, <1>4 DEF LogInv, GapEmpty, InOrder, NoOther

\* The oldest archive expires, and without a fault only when all are there.
LEMMA LogDropped == LogAssumption /\ LogInv /\ Logs!DropOldest => LogInv'
<1> SUFFICES ASSUME LogAssumption, LogInv, Logs!DropOldest PROVE LogInv'
  OBVIOUS
<1> USE DEF LogAssumption, Logs!DropOldest, Numbers
<1>1. /\ archives \in [Numbers -> Seq(Nat)] /\ Retention \in Numbers
      /\ archives' \in [Numbers -> Seq(Nat)] /\ archives'[Retention] = <<>>
      /\ \A i \in Numbers \ {Retention} : archives'[i] = archives[i]
  BY DEF LogInv, LogShaped
<1>2. Gap = 0 /\ Gap' = Retention
  BY DEF Gap, LogInv, LogShaped
<1>3. LogShaped'
  BY <1>1 DEF LogInv, LogShaped, Logs!TypeOK
<1>4. AllHeld'
  <2>1. Logs!Held \cup expired \subseteq Logs!Held' \cup expired'
    BY <1>1 DEF Logs!Held
  <2> QED
    BY <2>1 DEF LogInv, AllHeld
<1>5. InOrder'
  BY <1>1 DEF LogInv, InOrder
<1>6. NoOther'
  <2> SUFFICES ASSUME faults = 0 PROVE NoOther'
    BY DEF NoOther
  <2>1. \A i, j \in Numbers : i < j /\ archives[j] # <<>> => archives[i] # <<>>
    BY <1>2 DEF LogInv, NoOther
  <2>2. archives[Retention] = <<>> => expired' = expired
    BY DEF Logs!Entries, Logs!ToSet
  <2>3. expired' # {} => \A i \in Numbers : archives[i] # <<>>
    BY <1>2, <2>1, <2>2 DEF LogInv, NoOther
  <2> QED
    BY <1>1, <1>2, <2>1, <2>3 DEF LogInv, NoOther
<1> QED
  BY <1>1, <1>2, <1>3, <1>4, <1>5, <1>6 DEF LogInv, GapEmpty

\* The gap goes from the oldest archive to the newest.
LEMMA LogShifted == LogAssumption /\ LogInv /\ Logs!Shift => LogInv'
<1> SUFFICES ASSUME LogAssumption, LogInv, Logs!Shift PROVE LogInv'
  OBVIOUS
<1> USE DEF LogAssumption, Logs!Shift, Logs!Source, Numbers
<1>1. /\ archives \in [Numbers -> Seq(Nat)]
      /\ at \in Numbers /\ at + 1 \in Numbers /\ Gap = at + 1 /\ archives[at + 1] = <<>>
  BY DEF LogInv, LogShaped, GapEmpty, Gap
<1>2. /\ archives' \in [Numbers -> Seq(Nat)]
      /\ archives'[at + 1] = archives[at] /\ archives'[at] = <<>>
      /\ \A i \in Numbers \ {at, at + 1} : archives'[i] = archives[i]
  <2>1. CASE archives[at] = <<>>
    BY <1>1, <2>1
  <2>2. CASE archives[at] # <<>>
    <3>1. archives' = [archives EXCEPT ![at + 1] = archives[at], ![at] = <<>>]
      BY <2>2
    <3>2. at # at + 1 /\ <<>> \in Seq(Nat)
      BY <1>1
    <3> HIDE DEF Logs!Shift
    <3> QED
      BY <1>1, <3>1, <3>2
  <2> QED
    BY <2>1, <2>2
<1>3. Gap' = at
  BY <1>1 DEF Gap
<1>4. LogShaped'
  <2>1. Logs!TypeOK'
    BY <1>1 DEF LogInv, LogShaped, Logs!TypeOK
  <2>2. at \in 1..(Retention - 1) /\ step' # "drop"
    BY DEF LogInv, LogShaped
  <2>3. step' = "shift" => at' \in 1..(Retention - 1)
    BY <2>2
  <2> QED
    BY <1>1, <1>2, <2>1, <2>2, <2>3 DEF LogInv, LogShaped
<1>5. AllHeld'
  <2>1. \A i \in Numbers : \E j \in Numbers :
          Logs!Entries(archives[i]) \subseteq Logs!Entries(archives'[j])
    <3> TAKE i \in Numbers
    <3>1. CASE i = at
      BY <1>1, <1>2, <3>1
    <3>2. CASE i = at + 1
      BY <1>1, <1>2, <3>2
    <3>3. CASE i \notin {at, at + 1}
      BY <1>2, <3>3
    <3> QED
      BY <3>1, <3>2, <3>3
  <2>2. Logs!Held \subseteq Logs!Held'
    <3>1. log' = log
      OBVIOUS
    <3> HIDE DEF Logs!Shift
    <3> QED
      BY <2>1, <3>1, LogHeld
  <2> QED
    BY <2>2 DEF LogInv, AllHeld
<1>6. InOrder'
  <2>1. \A i, j \in Numbers : i < j /\ archives'[i] # <<>> /\ archives'[j] # <<>> =>
          Head(archives'[j]) <= Head(archives'[i])
    <3> TAKE i, j \in Numbers
    <3> HAVE i < j /\ archives'[i] # <<>> /\ archives'[j] # <<>>
    <3> DEFINE Was(m) == IF m = at + 1 THEN at ELSE m
    <3>1. \A m \in Numbers : archives'[m] # <<>> =>
            Was(m) \in Numbers /\ archives'[m] = archives[Was(m)]
      BY <1>1, <1>2
    <3>2. Was(i) < Was(j)
      <4>0. i # at /\ j # at
        BY <1>2
      <4>1. i \in Nat /\ j \in Nat /\ at \in Nat /\ i < j /\ i # at /\ j # at
        BY <1>1, <4>0
      <4>2. at + 1 \in Nat /\ at < at + 1
        BY <4>1
      <4>3. CASE i = at + 1
        BY <4>1, <4>2, <4>3
      <4>4. CASE j = at + 1
        BY <4>1, <4>2, <4>4
      <4> QED
        BY <4>1, <4>3, <4>4
    <3> QED
      BY <3>1, <3>2 DEF LogInv, InOrder
  <2>2. \A i \in Numbers : archives'[i] # <<>> =>
          /\ Head(archives'[i]) <= written
          /\ log # <<>> => Head(archives'[i]) <= Head(log)
    BY <1>1, <1>2 DEF LogInv, InOrder
  <2> QED
    BY <2>1, <2>2 DEF InOrder
<1>7. NoOther'
  <2> SUFFICES ASSUME faults = 0 PROVE NoOther'
    BY DEF NoOther
  <2>1. /\ \A i, j \in Numbers \ {at + 1} : i < j /\ archives[j] # <<>> => archives[i] # <<>>
        /\ expired # {} => \A i \in Numbers \ {at + 1} : archives[i] # <<>>
        /\ log # <<>>
    BY <1>1 DEF LogInv, NoOther
  <2>2. \A i, j \in Numbers \ {at} : i < j /\ archives'[j] # <<>> => archives'[i] # <<>>
    <3> SUFFICES ASSUME NEW i \in Numbers \ {at}, NEW j \in Numbers \ {at},
                        i < j, archives'[j] # <<>>
                 PROVE  archives'[i] # <<>>
      OBVIOUS
    <3>1. CASE j = at + 1
      BY <1>1, <1>2, <2>1, <3>1
    <3>2. CASE j # at + 1 /\ i # at + 1
      BY <1>1, <1>2, <2>1, <3>2
    <3>3. CASE i = at + 1
      BY <1>1, <1>2, <2>1, <3>3
    <3> QED
      BY <3>1, <3>2, <3>3
  <2> QED
    BY <1>1, <1>2, <1>3, <2>1, <2>2 DEF NoOther
<1> QED
  BY <1>2, <1>3, <1>4, <1>5, <1>6, <1>7 DEF LogInv, GapEmpty

\* The log is copied, in whole or in part.
LEMMA LogCopied ==
  ASSUME LogAssumption, LogInv, NEW k \in 0..Len(log),
         archives' = [archives EXCEPT ![1] = SubSeq(log, 1, k)],
         step = "copy", UNCHANGED <<log, written>>
  PROVE  /\ archives' \in [Numbers -> Seq(Nat)]
         /\ Logs!Held \subseteq Logs!Held'
         /\ InOrder'
         /\ \A i \in Numbers \ {1} : archives'[i] = archives[i]
         /\ archives'[1] = SubSeq(log, 1, k)
<1> USE DEF LogAssumption, Numbers
<1>1. /\ archives \in [Numbers -> Seq(Nat)] /\ 1 \in Numbers /\ log \in Seq(Nat)
      /\ archives[1] = <<>>
  BY DEF LogInv, LogShaped, GapEmpty, Gap
<1>2. /\ SubSeq(log, 1, k) \in Seq(Nat)
      /\ SubSeq(log, 1, k) # <<>> => log # <<>> /\ Head(SubSeq(log, 1, k)) = Head(log)
                                     /\ Head(log) \in Logs!Entries(log)
      /\ Logs!Entries(<<>>) = {}
  BY <1>1, LogFiles, 0 \in Nat
<1>3. /\ archives' \in [Numbers -> Seq(Nat)]
      /\ \A i \in Numbers \ {1} : archives'[i] = archives[i]
      /\ archives'[1] = SubSeq(log, 1, k)
  BY <1>1, <1>2
<1>4. Logs!Held \subseteq Logs!Held'
  <2>1. \A i \in Numbers : Logs!Entries(archives[i]) \subseteq Logs!Entries(archives'[i])
    BY <1>1, <1>2, <1>3
  <2> QED
    BY <2>1 DEF Logs!Held
<1>5. log # <<>> => Head(log) \in 1..written
  <2>1. 0 \in 0..Len(log)
    BY <1>1
  <2>2. log # <<>> => Head(log) \in Logs!Entries(log)
    BY <1>1, <2>1, LogFiles, 0 \in Nat
  <2> QED
    BY <2>2 DEF LogInv, LogShaped, Logs!TypeOK
<1>6. InOrder'
  <2>1. \A i, j \in Numbers : i < j => j # 1
    OBVIOUS
  <2>2. /\ \A i, j \in Numbers : i < j /\ archives[i] # <<>> /\ archives[j] # <<>> =>
             Head(archives[j]) <= Head(archives[i])
        /\ \A i \in Numbers : archives[i] # <<>> =>
             /\ Head(archives[i]) <= written
             /\ log # <<>> => Head(archives[i]) <= Head(log)
    BY DEF LogInv, InOrder
  <2>3. log # <<>> => Head(log) <= written /\ Head(log) <= Head(log)
    BY <1>5 DEF LogInv, LogShaped
  <2>4. \A i, j \in Numbers : i < j /\ archives'[i] # <<>> /\ archives'[j] # <<>> =>
             Head(archives'[j]) <= Head(archives'[i])
    BY <1>2, <1>3, <2>1, <2>2
  <2>5. \A i \in Numbers : archives'[i] # <<>> =>
             /\ Head(archives'[i]) <= written
             /\ log # <<>> => Head(archives'[i]) <= Head(log)
    BY <1>2, <1>3, <2>2, <2>3
  <2> QED
    BY <2>4, <2>5 DEF InOrder
<1> QED
  BY <1>3, <1>4, <1>6

\* The copy holds the log, and what is written from now on is late.
LEMMA LogCopiedWhole == LogAssumption /\ LogInv /\ Logs!Copy => LogInv'
<1> SUFFICES ASSUME LogAssumption, LogInv, Logs!Copy PROVE LogInv'
  OBVIOUS
<1> USE DEF LogAssumption, Logs!Copy, Numbers
<1>1. log \in Seq(Nat) /\ Len(log) \in 0..Len(log) /\ log = SubSeq(log, 1, Len(log))
  BY DEF LogInv, LogShaped
<1>2. /\ archives' \in [Numbers -> Seq(Nat)] /\ Logs!Held \subseteq Logs!Held' /\ InOrder'
      /\ \A i \in Numbers \ {1} : archives'[i] = archives[i]
      /\ archives'[1] = log
  BY <1>1, LogCopied
<1>3. Gap = 1 /\ Gap' = 0
  BY DEF Gap
<1>4. LogShaped'
  BY <1>2 DEF LogInv, LogShaped, Logs!TypeOK
<1>5. AllHeld'
  BY <1>2 DEF LogInv, AllHeld
<1>6. NoOther'
  BY <1>2, <1>3 DEF LogInv, NoOther
<1> QED
  BY <1>2, <1>3, <1>4, <1>5, <1>6 DEF LogInv, GapEmpty

\* The log is emptied: what it held is in the copy or was late.
LEMMA LogTruncated == LogAssumption /\ LogInv /\ Logs!Truncate => LogInv'
<1> SUFFICES ASSUME LogAssumption, LogInv, Logs!Truncate PROVE LogInv'
  OBVIOUS
<1> USE DEF LogAssumption, Logs!Truncate, Numbers
<1>1. Logs!Entries(<<>>) = {} /\ <<>> \in Seq(Nat) /\ 1 \in Numbers
  BY DEF Logs!Entries, Logs!ToSet
<1>2. Gap = 0 /\ Gap' = 0
  BY DEF Gap
<1>3. LogShaped'
  BY <1>1 DEF LogInv, LogShaped, Logs!TypeOK
<1>4. AllHeld'
  <2>1. Logs!Entries(log) \subseteq Logs!Entries(archives[1]) \cup late
    BY DEF LogInv, AllHeld
  <2>2. Logs!Held \subseteq Logs!Held' \cup late
    <3>1. Logs!Entries(archives[1]) \subseteq UNION {Logs!Entries(archives[i]) : i \in Numbers}
      BY <1>1
    <3> QED
      BY <1>1, <2>1, <3>1, LogHeld
  <2> QED
    BY <2>2 DEF LogInv, AllHeld
<1> QED
  BY <1>1, <1>2, <1>3, <1>4 DEF LogInv, GapEmpty, InOrder, NoOther

\* A fault ends a rotation wherever it is; what was late and is still in the log
\* is late no more.
LEMMA LogFailed == LogAssumption /\ LogInv /\ Logs!Fail => LogInv'
<1> SUFFICES ASSUME LogAssumption, LogInv, Logs!Fail PROVE LogInv'
  OBVIOUS
<1> USE DEF LogAssumption, Logs!Fail, Numbers
<1>1. /\ archives' \in [Numbers -> Seq(Nat)] /\ Logs!Held \subseteq Logs!Held' /\ InOrder'
  <2>1. CASE archives' = archives
    BY <2>1 DEF LogInv, LogShaped, InOrder, Logs!Held
  <2>2. CASE step = "copy" /\ \E k \in 0..Len(log) : archives' = [archives EXCEPT ![1] = SubSeq(log, 1, k)]
    BY <2>2, LogCopied
  <2> QED
    BY <2>1, <2>2
<1>2. faults' # 0 /\ Gap' = 0
  BY DEF Gap, LogInv, LogShaped
<1>3. LogShaped'
  BY <1>1 DEF LogInv, LogShaped, Logs!TypeOK
<1>4. AllHeld'
  <2>1. late \subseteq late' \cup Logs!Entries(log)
    OBVIOUS
  <2>2. Logs!Entries(log) \subseteq Logs!Held'
    BY LogHeld
  <2> QED
    BY <1>1, <2>1, <2>2 DEF LogInv, AllHeld
<1> QED
  BY <1>1, <1>2, <1>3, <1>4 DEF LogInv, GapEmpty, NoOther

\* LogInv is an invariant of LogRotation.
LEMMA LogInvariance == LogAssumption => (Logs!Spec => []LogInv)
<1> SUFFICES ASSUME LogAssumption PROVE Logs!Spec => []LogInv
  OBVIOUS
<1>1. Logs!Init => LogInv
  BY LogInit
<1>2. LogInv /\ [Logs!Next]_Logs!vars => LogInv'
  <2> SUFFICES ASSUME LogInv, [Logs!Next]_Logs!vars PROVE LogInv'
    OBVIOUS
  <2>1. CASE Logs!Done \/ UNCHANGED Logs!vars
    <3>1. UNCHANGED Logs!vars
      BY <2>1 DEF Logs!Done
    <3>2. /\ UNCHANGED <<log, archives, step, at, written, late, expired, faults>>
          /\ Gap' = Gap /\ Logs!Held' = Logs!Held /\ Logs!TypeOK' = Logs!TypeOK
      BY <3>1 DEF Logs!vars, Gap, Logs!Held, Logs!TypeOK
    <3> QED
      BY <3>2 DEF LogInv, LogShaped, GapEmpty, AllHeld, InOrder, NoOther
  <2> QED
    BY <2>1, LogWritten, LogDue, LogDropped, LogShifted, LogCopiedWhole, LogTruncated, LogFailed
    DEF Logs!Next
<1> QED
  BY <1>1, <1>2, PTL DEF Logs!Spec

\* Wherever a rotation stops, an entry is in the log or in an archive until it
\* leaves with the oldest one, but for those written while the log was copied;
\* archives are in the order of their entries; and without a fault nothing expires
\* before there are as many archives as there may be (rotate_log_file), however
\* long the log may get, however many archives are kept and however often it fails.
THEOREM LogEntriesKept ==
  ASSUME LogAssumption
  PROVE  Logs!Spec => []Logs!EntriesKept
<1>1. LogInv => Logs!EntriesKept
  BY DEF LogInv, AllHeld, InOrder, NoOther, Gap, Logs!EntriesKept, Numbers
<1> QED
  BY <1>1, LogInvariance, PTL

-----------------------------------------------------------------------------
(* PhpSettings.                                                            *)

\* The stages of a save, and its results.
SaveSteps ==
  {"write", "generate", "validate", "stop", "ensure", "restore", "regenerate", "restop",
   "reensure"}
\* The results.
Results == {"ok", "failed", "lost", "unrestored"}

\* A save.
Saves ==
  [kind : {"ini", "setting"}, version : Versions, value : Php!Inis \cup Settings,
   step : SaveSteps \cup Results,
   ini : Php!Inis, setting : Settings \cup {None}, restart : BOOLEAN,
   running : Php!Config \cup {None}, attempted : BOOLEAN]

\* None is no save.
SaveAssumption ==
  /\ Windows \in BOOLEAN /\ None \notin Saves
  /\ MaxSaves \in Nat /\ MaxFaults \in Nat

\* What the user's files of a version say; what they said before the save.
Files(v) == [ini |-> ini[v], setting |-> Php!SettingOf(v)]
\* What they said when the save began.
OldFiles == [ini |-> save.ini,
             setting |-> IF save.setting = None THEN Default ELSE save.setting]

\* Shapes; a stray is a fault.
SaveTyped ==
  /\ Php!TypeOK
  /\ master \in [Versions -> Php!Config \cup {None}]
  /\ save \in Saves \cup {None}
  /\ last \in Saves \cup {None}
  /\ \A v \in Versions : strays[v] <= mistakes

\* What runs is expected to.
RunsExpected == \A v \in Versions : master[v] # None => v \in expected

\* A version that no save is busy with.
AtRest(v) ==
  /\ v \notin drifted => ini[v] # "blank" /\ (master[v] # None => master[v] = Files(v))
  /\ ini[v] \in Php!Valid \/ v \in suspect

\* The versions that no save is busy with are served as they should be.
OthersServed == \A v \in Versions : save = None \/ v # save.version => AtRest(v)

\* What a save finds, has written and has generated at each of its steps.
FilesOfSave(v) ==
  /\ save.ini # "blank" /\ (save.ini \in Php!Valid \/ v \in suspect)
  /\ save.kind = "setting" =>
       Php!Fill(ini[v]) = save.ini /\ (ini[v] \in Php!Valid \/ v \in suspect)
  /\ save.kind = "ini" => setting[v] = save.setting /\ save.value \in Php!Inis
  /\ save.kind = "setting" => save.value \in Settings
  /\ save.step \in {"write", "regenerate", "restop", "reensure"} =>
       Php!Fill(ini[v]) = save.ini /\ setting[v] = save.setting
  /\ save.step \in {"validate", "stop", "ensure", "restop", "reensure"} =>
       generated[v] = Files(v) /\ ini[v] # "blank"
  /\ save.step = "generate" =>
       IF save.kind = "ini" THEN ini[v] = save.value ELSE setting[v] = save.value
  /\ save.step \in {"validate", "stop", "ensure"} =>
       IF save.kind = "ini" THEN ini[v] = Php!Fill(save.value) ELSE setting[v] = save.value
  /\ save.step \in {"stop", "ensure"} /\ Php!AfterGenerate = "validate" =>
       ini[v] \in Php!Valid

\* What the server of the version does meanwhile.
ServerOfSave(v) ==
  /\ master[v] # None /\ v \notin drifted => master[v] = OldFiles
  /\ save.attempted \/ ~save.restart => master[v] = None
  /\ save.step \in {"ensure", "restop", "reensure"} => save.attempted
  /\ save.step \in {"write", "generate", "validate", "stop"} => ~save.attempted

\* What holds while a save is in progress.
SaveKnown ==
  save # None =>
    /\ last = None
    /\ save.step \in SaveSteps
    /\ FilesOfSave(save.version) /\ ServerOfSave(save.version)

\* The inductive invariant.
SaveInv == SaveTyped /\ RunsExpected /\ OthersServed /\ SaveKnown /\ Php!FailedSaveRestores

\* The next stage of a save changes nothing else about it.
LEMMA SaveStepped ==
  ASSUME save \in Saves, NEW s \in SaveSteps \cup Results
  PROVE  [save EXCEPT !.step = s] \in Saves
  BY DEF Saves

\* Nor does the attempt to restart.
LEMMA SaveAttempted ==
  ASSUME save \in Saves, NEW s \in SaveSteps \cup Results, NEW a \in BOOLEAN
  PROVE  [save EXCEPT !.step = s, !.attempted = a] \in Saves
  BY DEF Saves

\* A save begins with a php.ini that is there, and what is generated from it.
LEMMA SaveBegun ==
  ASSUME SaveAssumption, SaveInv, NEW v \in Versions, NEW k \in {"ini", "setting"},
         NEW value \in Php!Inis \cup Settings, k = "ini" => value \in Php!Inis,
         k = "setting" => value \in Settings, Php!Begin(k, v, value)
  PROVE  SaveInv'
<1> USE DEF SaveInv, SaveAssumption
<1>1. /\ save' \in Saves /\ last' = None
      /\ save'.kind = k /\ save'.version = v /\ save'.value = value /\ save'.step = "write"
      /\ save'.ini = Php!Fill(ini[v]) /\ save'.setting = setting[v]
      /\ (save'.restart <=> v \in expected) /\ save'.attempted = FALSE
  <2> DEFINE r == v \in expected
             new == [kind |-> k, version |-> v, value |-> value, step |-> "write",
                     ini |-> Php!Fill(ini[v]), setting |-> setting[v],
                     restart |-> r, running |-> master[v], attempted |-> FALSE]
  <2>1. save' = new /\ last' = None
    BY DEF Php!Begin
  <2>2. /\ r \in BOOLEAN
        /\ Php!Fill(ini[v]) \in Php!Inis /\ setting[v] \in Settings \cup {None}
        /\ master[v] \in Php!Config \cup {None}
    BY DEF SaveTyped, Php!TypeOK, Php!Inis, Php!Fill
  <2>3. r <=> v \in expected
    OBVIOUS
  <2> HIDE DEF r
  <2>4. new \in Saves
    BY <2>2 DEF Saves, SaveSteps
  <2>5. new.restart = r
    BY Zenon
  <2> QED
    BY <2>1, <2>3, <2>4, <2>5
<1>2. /\ \A w \in Versions \ {v} : ini'[w] = ini[w] /\ generated'[w] = generated[w]
      /\ ini'[v] \in {ini[v], Php!Fill(ini[v])}
      /\ ini' \in [Versions -> Php!Inis] /\ generated' \in [Versions -> Php!Config]
  BY DEF Php!Begin, Php!Generate, SaveTyped, Php!TypeOK, Php!Inis, Php!Fill, Php!Config,
     Php!SettingOf
<1>3. /\ UNCHANGED <<setting, master, strays, expected, drifted, suspect, mistakes>>
      /\ saves' \in 0..MaxSaves
  BY DEF Php!Begin, Php!servers, Php!history, SaveTyped, Php!TypeOK
<1>4. SaveTyped'
  BY <1>1, <1>2, <1>3 DEF SaveTyped, Php!TypeOK
<1>5. RunsExpected'
  BY <1>3 DEF RunsExpected
<1>6. OthersServed'
  <2>1. \A w \in Versions : AtRest(w)
    BY DEF OthersServed, Php!Begin
  <2>2. \A w \in Versions \ {v} : AtRest(w)'
    BY <1>2, <1>3, <2>1 DEF AtRest, Files, Php!SettingOf
  <2>3. AtRest(v)'
    BY <1>2, <1>3, <2>1 DEF AtRest, Files, Php!SettingOf, Php!Fill, Php!Valid
  <2> QED
    BY <2>2, <2>3 DEF OthersServed
<1>7. /\ AtRest(v) /\ (v \notin expected => master[v] = None)
      /\ Php!Fill(ini[v]) # "blank" /\ (Php!Fill(ini[v]) \in Php!Valid \/ v \in suspect)
  BY DEF OthersServed, Php!Begin, RunsExpected, Php!Fill, AtRest, Php!Valid
<1>8. FilesOfSave(v)'
  BY <1>1, <1>2, <1>3, <1>7 DEF FilesOfSave, AtRest, Php!Fill, Php!Valid
<1>9. ServerOfSave(v)'
  BY <1>1, <1>2, <1>3, <1>7 DEF ServerOfSave, AtRest, Files, OldFiles, Php!SettingOf,
     Php!Fill
<1>10. SaveKnown'
  BY <1>1, <1>8, <1>9 DEF SaveKnown, SaveSteps
<1>11. Php!FailedSaveRestores'
  BY <1>1 DEF Php!FailedSaveRestores
<1> QED
  BY <1>4, <1>5, <1>6, <1>10, <1>11

\* Both kinds of save begin so.
LEMMA SaveBegin ==
  ASSUME SaveAssumption, SaveInv, NEW v \in Versions,
         Php!BeginSavePhpIni(v) \/ Php!BeginSaveSetting(v)
  PROVE  SaveInv'
<1>1. CASE Php!BeginSavePhpIni(v)
  <2>1. PICK content \in {"good", "bad", "blank"} : Php!Begin("ini", v, content)
    BY <1>1 DEF Php!BeginSavePhpIni
  <2> QED
    BY <2>1, SaveBegun DEF Php!Inis
<1>2. CASE Php!BeginSaveSetting(v)
  <2>1. PICK value \in Settings : Php!Begin("setting", v, value)
    BY <1>2 DEF Php!BeginSaveSetting
  <2> QED
    BY <2>1, SaveBegun
<1> QED
  BY <1>1, <1>2

\* Reading a php.ini keeps what it says, and what is generated from it.
LEMMA SaveRead ==
  ASSUME SaveAssumption, SaveInv, NEW v \in Versions, Php!ReadPhpIni(v)
  PROVE  SaveInv'
<1> USE DEF SaveInv, SaveAssumption, Php!ReadPhpIni, Php!Generate, Php!Fill, Php!SettingOf,
   Php!Quiet, Php!servers, Php!history
<1>1. SaveTyped'
  BY DEF SaveTyped, Php!TypeOK, Php!Config, Php!Inis
<1>2. RunsExpected'
  BY DEF RunsExpected
<1>3. OthersServed'
  BY DEF Php!Valid, OthersServed, AtRest, Files
<1>4. SaveKnown'
  BY DEF SaveKnown
<1>5. Php!FailedSaveRestores'
  BY DEF Php!FailedSaveRestores
<1> QED
  BY <1>1, <1>2, <1>3, <1>4, <1>5

\* A file edited outside counts as changed beneath its server.
LEMMA SaveEdit ==
  ASSUME SaveAssumption, SaveInv, NEW v \in Versions, Php!EditOutside(v)
  PROVE  SaveInv'
<1> USE DEF SaveInv, SaveAssumption, Php!EditOutside, Php!Fault, Php!Quiet, Php!servers
<1>1. SaveTyped'
  BY DEF SaveTyped, Php!TypeOK
<1>2. RunsExpected'
  BY DEF RunsExpected
<1>3. OthersServed'
  BY DEF OthersServed, AtRest, Files, Php!SettingOf
<1>4. SaveKnown'
  BY DEF SaveKnown
<1>5. Php!FailedSaveRestores'
  BY DEF Php!FailedSaveRestores
<1> QED
  BY <1>1, <1>2, <1>3, <1>4, <1>5

\* A server that ends is served no more.
LEMMA SaveServerEnds ==
  ASSUME SaveAssumption, SaveInv, NEW v \in Versions, Php!ServerEnds(v)
  PROVE  SaveInv'
<1> USE DEF SaveInv, SaveAssumption, Php!ServerEnds, Php!Fault, Php!files, Php!history
<1>1. SaveTyped'
  BY DEF SaveTyped, Php!TypeOK
<1>2. RunsExpected'
  BY DEF RunsExpected
<1>3. OthersServed'
  BY DEF OthersServed, AtRest, Files, Php!SettingOf
<1>4. SaveKnown'
  BY DEF Files, SaveKnown, FilesOfSave, ServerOfSave, OldFiles, Php!SettingOf,
     Php!AfterGenerate
<1>5. Php!FailedSaveRestores'
  BY DEF Php!FailedSaveRestores
<1> QED
  BY <1>1, <1>2, <1>3, <1>4, <1>5

\* The new content is written.
LEMMA SaveWrite ==
  ASSUME SaveAssumption, SaveInv, Php!Write
  PROVE  SaveInv'
<1> USE DEF SaveInv, SaveAssumption, Php!Write, Php!Goto, Php!SetIni, Php!SetSetting,
   Php!servers, Php!history
<1>1. SaveTyped'
  <2>1. save' \in Saves \cup {None} /\ last' \in Saves \cup {None}
    BY SaveStepped, SaveAttempted DEF SaveTyped, SaveSteps, Results
  <2>2. /\ master' \in [Versions -> Php!Config \cup {None}]
        /\ generated' \in [Versions -> Php!Config]
    BY DEF SaveTyped, Php!TypeOK
  <2>3. ini' \in [Versions -> Php!Inis] /\ setting' \in [Versions -> Settings \cup {None}]
    BY DEF SaveTyped, Php!TypeOK, Saves, SaveKnown, FilesOfSave
  <2> QED
    BY <2>1, <2>2, <2>3 DEF SaveTyped, Php!TypeOK
<1>2. RunsExpected'
  BY DEF RunsExpected
<1>3. OthersServed'
  BY DEF SaveTyped, Php!TypeOK, Saves, SaveSteps, OthersServed, AtRest, Files, Php!SettingOf
<1>4. SaveKnown'
  BY DEF SaveTyped, Php!TypeOK, Saves, SaveSteps, SaveKnown, FilesOfSave, ServerOfSave,
     OldFiles
<1>5. Php!FailedSaveRestores'
  BY DEF Php!FailedSaveRestores, SaveKnown
<1> QED
  BY <1>1, <1>2, <1>3, <1>4, <1>5

\* What was not written is as it was, but for the Windows settings.
LEMMA SaveWriteFails ==
  ASSUME SaveAssumption, SaveInv, Php!WriteFails
  PROVE  SaveInv'
<1> USE DEF SaveInv, SaveAssumption, Php!WriteFails, Php!Fault, Php!Goto, Php!End,
   Php!SetSetting, Php!servers
<1>1. SaveTyped'
  BY DEF SaveTyped, Php!TypeOK, Saves, SaveSteps, Results
<1>2. RunsExpected'
  BY DEF RunsExpected
<1>3. OthersServed'
  <2>1. \A w \in Versions \ {save.version} : AtRest(w)'
    BY DEF SaveTyped, Php!TypeOK, OthersServed, AtRest, Files, Php!SettingOf
  <2>2. CASE ~(Windows /\ save.kind = "setting")
    <3>1. save' \in Saves /\ save'.version = save.version
      BY <2>2, SaveStepped DEF SaveTyped, SaveSteps, Saves
    <3> HIDE DEF SaveInv, Php!WriteFails
    <3> QED
      BY <2>1, <3>1 DEF OthersServed
  <2>3. CASE Windows /\ save.kind = "setting"
    <3>1. save.version \in drifted' /\ ini' = ini /\ suspect' = suspect
      BY <2>3 DEF SaveTyped, Saves
    <3>2. ini[save.version] \in Php!Valid \/ save.version \in suspect
      BY <2>3 DEF SaveKnown, FilesOfSave
    <3> HIDE DEF SaveInv, Php!WriteFails
    <3>3. \A w \in Versions : w = save.version => AtRest(w)'
      BY <3>1, <3>2 DEF AtRest, Php!Valid
    <3> QED
      BY <2>1, <3>3 DEF OthersServed
  <2> QED
    BY <2>2, <2>3
<1>4. SaveKnown'
  BY DEF SaveTyped, Saves, SaveSteps, SaveKnown, FilesOfSave, ServerOfSave, OldFiles
<1>5. Php!FailedSaveRestores'
  BY DEF SaveTyped, Saves, Php!FailedSaveRestores, Php!SettingOf
<1> QED
  BY <1>1, <1>2, <1>3, <1>4, <1>5

\* The generated files follow the new content.
LEMMA SaveGenerateFiles ==
  ASSUME SaveAssumption, SaveInv, Php!GenerateFiles
  PROVE  SaveInv'
<1> USE DEF SaveInv, SaveAssumption, Php!GenerateFiles, Php!Generate, Php!Fill,
   Php!SettingOf, Php!Goto, Php!AfterGenerate, Php!servers, Php!history
<1>1. SaveTyped'
  <2>1. /\ save' = [save EXCEPT !.step = Php!AfterGenerate]
        /\ save \in Saves /\ save.version \in Versions
    BY DEF SaveTyped, Saves
  <2>2. save' \in Saves
    <3>1. Php!AfterGenerate \in SaveSteps
      BY DEF SaveSteps
    <3> QED
      BY <2>1, <3>1, SaveStepped
  <2>3. /\ ini \in [Versions -> Php!Inis] /\ setting \in [Versions -> Settings \cup {None}]
        /\ generated \in [Versions -> Php!Config]
    BY DEF SaveTyped, Php!TypeOK
  <2>4. \A v \in Versions :
          Php!Fill(ini[v]) \in Php!Inis /\ Php!SettingOf(v) \in Settings \cup {Default}
    <3> HIDE DEF SaveInv, Php!GenerateFiles, Php!Generate
    <3> QED
      BY <2>3 DEF Php!Inis
  <2>5. /\ ini' \in [Versions -> Php!Inis] /\ generated' \in [Versions -> Php!Config]
    <3>1. Php!Generate({save.version})
      OBVIOUS
    <3> HIDE DEF SaveInv, Php!GenerateFiles, Php!Fill, Php!SettingOf
    <3> QED
      BY <2>3, <2>4, <3>1 DEF Php!Config
  <2> HIDE DEF Php!Generate, Php!Fill, Php!SettingOf, Php!AfterGenerate
  <2> QED
    BY <2>2, <2>5 DEF SaveTyped, Php!TypeOK
<1>2. RunsExpected'
  BY DEF RunsExpected
<1>3. OthersServed'
  BY DEF SaveTyped, Saves, SaveSteps, OthersServed, AtRest, Files
<1>4. SaveKnown'
  BY DEF SaveTyped, Saves, SaveSteps, Files, SaveKnown, FilesOfSave, ServerOfSave, OldFiles
<1>5. Php!FailedSaveRestores'
  BY DEF Php!FailedSaveRestores, SaveKnown
<1> QED
  BY <1>1, <1>2, <1>3, <1>4, <1>5

\* Only a valid php.ini goes on.
LEMMA SaveValidate ==
  ASSUME SaveAssumption, SaveInv, Php!Validate
  PROVE  SaveInv'
<1> USE DEF SaveInv, SaveAssumption, Php!Validate, Php!Goto, Php!files, Php!servers,
   Php!history
<1>1. SaveTyped'
  BY DEF SaveTyped, Php!TypeOK, Saves, SaveSteps
<1>2. RunsExpected'
  BY DEF RunsExpected
<1>3. OthersServed'
  BY DEF SaveTyped, Saves, SaveSteps, OthersServed, AtRest, Files, Php!SettingOf
<1>4. SaveKnown'
  BY DEF SaveSteps, Files, SaveKnown, FilesOfSave, ServerOfSave, OldFiles, Php!SettingOf
<1>5. Php!FailedSaveRestores'
  BY DEF Php!FailedSaveRestores, Php!SettingOf
<1> QED
  BY <1>1, <1>2, <1>3, <1>4, <1>5

\* Any other stage may fail.
LEMMA SaveStageFails ==
  ASSUME SaveAssumption, SaveInv, Php!StageFails
  PROVE  SaveInv'
<1> USE DEF SaveInv, SaveAssumption, Php!StageFails, Php!Fault, Php!Goto, Php!files,
   Php!servers, Php!history
<1>1. SaveTyped'
  BY DEF SaveTyped, Php!TypeOK, Saves, SaveSteps
<1>2. RunsExpected'
  BY DEF RunsExpected
<1>3. OthersServed'
  BY DEF SaveTyped, Saves, SaveSteps, OthersServed, AtRest, Files, Php!SettingOf
<1>4. SaveKnown'
  BY DEF SaveSteps, SaveKnown, FilesOfSave, ServerOfSave, OldFiles
<1>5. Php!FailedSaveRestores'
  BY DEF Php!FailedSaveRestores, Php!SettingOf
<1> QED
  BY <1>1, <1>2, <1>3, <1>4, <1>5

\* Without a server to restart the save ends here.
LEMMA SaveFinish ==
  ASSUME SaveAssumption, SaveInv, Php!Finish
  PROVE  SaveInv'
<1> USE DEF SaveInv, SaveAssumption, Php!Finish, Php!End, Php!AfterGenerate, Php!files,
   Php!servers
<1>1. SaveTyped'
  <2>1. save' \in Saves \cup {None} /\ last' \in Saves \cup {None}
    BY SaveStepped, SaveAttempted DEF SaveTyped, SaveSteps, Results
  <2>2. /\ master' \in [Versions -> Php!Config \cup {None}]
        /\ generated' \in [Versions -> Php!Config]
    BY DEF SaveTyped, Php!TypeOK
  <2>3. ini' \in [Versions -> Php!Inis] /\ setting' \in [Versions -> Settings \cup {None}]
    BY DEF SaveTyped, Php!TypeOK
  <2> QED
    BY <2>1, <2>2, <2>3 DEF SaveTyped, Php!TypeOK
<1>2. RunsExpected'
  BY DEF RunsExpected
<1>3. OthersServed'
  BY DEF OthersServed, AtRest, Files, SaveKnown, FilesOfSave, ServerOfSave, Php!SettingOf
<1>4. SaveKnown'
  BY DEF SaveKnown
<1>5. Php!FailedSaveRestores'
  BY DEF Php!FailedSaveRestores, SaveKnown, FilesOfSave
<1> QED
  BY <1>1, <1>2, <1>3, <1>4, <1>5

\* The server that runs with the old files is stopped.
LEMMA SaveStopServer ==
  ASSUME SaveAssumption, SaveInv, Php!StopServer
  PROVE  SaveInv'
<1> USE DEF SaveInv, SaveAssumption, Php!StopServer, Php!Stop, Php!files, Php!history
<1>1. SaveTyped'
  <2>1. save' \in Saves \cup {None} /\ last' \in Saves \cup {None}
    BY SaveStepped, SaveAttempted DEF SaveTyped, SaveSteps, Results
  <2>2. /\ master' \in [Versions -> Php!Config \cup {None}]
        /\ generated' \in [Versions -> Php!Config]
    BY DEF SaveTyped, Php!TypeOK
  <2>3. ini' \in [Versions -> Php!Inis] /\ setting' \in [Versions -> Settings \cup {None}]
    BY DEF SaveTyped, Php!TypeOK
  <2> QED
    BY <2>1, <2>2, <2>3 DEF SaveTyped, Php!TypeOK
<1>2. RunsExpected'
  BY DEF SaveTyped, RunsExpected
<1>3. OthersServed'
  BY DEF SaveTyped, OthersServed, AtRest, Files, SaveKnown, FilesOfSave, Php!SettingOf,
     Php!AfterGenerate
<1>4. SaveKnown'
  BY DEF SaveTyped, Saves, SaveSteps, Files, SaveKnown, FilesOfSave, ServerOfSave,
     Php!SettingOf, Php!AfterGenerate
<1>5. Php!FailedSaveRestores'
  BY DEF Php!FailedSaveRestores, SaveKnown
<1> QED
  BY <1>1, <1>2, <1>3, <1>4, <1>5

\* It is dropped even when it cannot be stopped.
LEMMA SaveStopServerFails ==
  ASSUME SaveAssumption, SaveInv, Php!StopServerFails
  PROVE  SaveInv'
<1> USE DEF SaveInv, SaveAssumption, Php!StopServerFails, Php!Fault, Php!Stop,
   Php!StopFails, Php!files, Php!history
<1>1. SaveTyped'
  <2>1. save' \in Saves \cup {None} /\ last' \in Saves \cup {None}
    BY SaveStepped, SaveAttempted DEF SaveTyped, SaveSteps, Results
  <2>2. /\ master' \in [Versions -> Php!Config \cup {None}]
        /\ generated' \in [Versions -> Php!Config]
    BY DEF SaveTyped, Php!TypeOK
  <2>3. ini' \in [Versions -> Php!Inis] /\ setting' \in [Versions -> Settings \cup {None}]
    BY DEF SaveTyped, Php!TypeOK
  <2> QED
    BY <2>1, <2>2, <2>3 DEF SaveTyped, Php!TypeOK
<1>2. RunsExpected'
  BY DEF SaveTyped, RunsExpected
<1>3. OthersServed'
  BY DEF SaveTyped, OthersServed, AtRest, Files, SaveKnown, FilesOfSave, Php!SettingOf,
     Php!AfterGenerate
<1>4. SaveKnown'
  BY DEF SaveTyped, Saves, SaveSteps, SaveKnown, FilesOfSave, ServerOfSave
<1>5. Php!FailedSaveRestores'
  BY DEF Php!FailedSaveRestores, SaveKnown
<1> QED
  BY <1>1, <1>2, <1>3, <1>4, <1>5

\* It comes back with the new files.
LEMMA SaveEnsureServer ==
  ASSUME SaveAssumption, SaveInv, Php!EnsureServer
  PROVE  SaveInv'
<1> USE DEF SaveInv, SaveAssumption, Php!EnsureServer, Php!Ensure, Php!ComesUp, Php!End,
   Php!files
<1>1. SaveTyped'
  <2>1. save' \in Saves \cup {None} /\ last' \in Saves \cup {None}
    BY SaveStepped, SaveAttempted DEF SaveTyped, SaveSteps, Results
  <2>2. /\ master' \in [Versions -> Php!Config \cup {None}]
        /\ generated' \in [Versions -> Php!Config]
    BY DEF SaveTyped, Php!TypeOK
  <2>3. ini' \in [Versions -> Php!Inis] /\ setting' \in [Versions -> Settings \cup {None}]
    BY DEF SaveTyped, Php!TypeOK
  <2> QED
    BY <2>1, <2>2, <2>3 DEF SaveTyped, Php!TypeOK
<1>2. RunsExpected'
  BY DEF RunsExpected
<1>3. OthersServed'
  BY DEF OthersServed, AtRest, Files, SaveKnown, FilesOfSave, ServerOfSave, Php!SettingOf
<1>4. SaveKnown'
  BY DEF SaveKnown
<1>5. Php!FailedSaveRestores'
  BY DEF SaveTyped, Saves, Php!FailedSaveRestores, SaveKnown, FilesOfSave, ServerOfSave
<1> QED
  BY <1>1, <1>2, <1>3, <1>4, <1>5

\* It does not come up.
LEMMA SaveEnsureServerFails ==
  ASSUME SaveAssumption, SaveInv, Php!EnsureServerFails
  PROVE  SaveInv'
<1> USE DEF SaveInv, SaveAssumption, Php!EnsureServerFails, Php!Fault, Php!ComesUp,
   Php!EnsureFails, Php!Goto, Php!files, Php!history
<1>1. SaveTyped'
  BY DEF SaveTyped, Php!TypeOK, Saves, SaveSteps
<1>2. RunsExpected'
  BY DEF RunsExpected, SaveKnown, ServerOfSave
<1>3. OthersServed'
  BY DEF OthersServed, AtRest, Files, SaveKnown, FilesOfSave, ServerOfSave, Php!SettingOf,
     Php!AfterGenerate
<1>4. SaveKnown'
  BY DEF SaveSteps, SaveKnown, FilesOfSave, ServerOfSave
<1>5. Php!FailedSaveRestores'
  BY DEF Php!FailedSaveRestores, Php!SettingOf
<1> QED
  BY <1>1, <1>2, <1>3, <1>4, <1>5

\* The old content is put back.
LEMMA SaveRestore ==
  ASSUME SaveAssumption, SaveInv, Php!Restore
  PROVE  SaveInv'
<1> USE DEF SaveInv, SaveAssumption, Php!Restore, Php!Goto, Php!SetIni, Php!SetSetting,
   Php!servers, Php!history
<1>1. SaveTyped'
  BY DEF SaveTyped, Php!TypeOK, Saves, SaveSteps
<1>2. RunsExpected'
  BY DEF RunsExpected
<1>3. OthersServed'
  <2>1. save' \in Saves /\ save'.version = save.version
    BY SaveStepped DEF SaveTyped, SaveSteps, Saves
  <2>2. \A w \in Versions \ {save.version} : ini'[w] = ini[w] /\ setting'[w] = setting[w]
    BY DEF SaveTyped, Php!TypeOK
  <2>3. UNCHANGED <<master, drifted, suspect>>
    OBVIOUS
  <2>4. \A w \in Versions \ {save.version} : AtRest(w)
    BY DEF OthersServed
  <2> HIDE DEF SaveInv, Php!Restore
  <2>5. \A w \in Versions \ {save.version} : AtRest(w)'
    BY <2>2, <2>3, <2>4 DEF AtRest, Files, Php!SettingOf
  <2> QED
    BY <2>1, <2>5 DEF OthersServed, SaveAssumption
<1>4. SaveKnown'
  BY DEF SaveTyped, Php!TypeOK, Saves, SaveSteps, SaveKnown, FilesOfSave, ServerOfSave,
     OldFiles, Php!Fill, Php!Valid
<1>5. Php!FailedSaveRestores'
  BY DEF Php!FailedSaveRestores, SaveKnown
<1> QED
  BY <1>1, <1>2, <1>3, <1>4, <1>5

\* The generated files follow the old content.
LEMMA SaveRegenerate ==
  ASSUME SaveAssumption, SaveInv, Php!Regenerate
  PROVE  SaveInv'
<1> USE DEF SaveInv, SaveAssumption, Php!Regenerate, Php!Generate, Php!Fill, Php!SettingOf,
   Php!Goto, Php!End, Php!AfterRegenerate, Php!servers
<1>1. SaveTyped'
  BY DEF SaveTyped, Php!TypeOK, Php!Config, Saves, SaveSteps, Results, SaveKnown,
     FilesOfSave
<1>2. RunsExpected'
  BY DEF RunsExpected
<1>3. OthersServed'
  BY DEF OthersServed, AtRest, Files, SaveKnown, FilesOfSave, ServerOfSave, OldFiles
<1>4. SaveKnown'
  BY DEF SaveTyped, Saves, SaveSteps, Files, SaveKnown, FilesOfSave, ServerOfSave
<1>5. Php!FailedSaveRestores'
  BY DEF SaveTyped, Saves, Php!FailedSaveRestores, SaveKnown, FilesOfSave
<1> QED
  BY <1>1, <1>2, <1>3, <1>4, <1>5

\* Nothing runs before the old configuration is started.
LEMMA SaveRestop ==
  ASSUME SaveAssumption, SaveInv, Php!Restop
  PROVE  SaveInv'
<1> USE DEF SaveInv, SaveAssumption, Php!Restop, Php!Stop, Php!Goto, Php!files, Php!servers,
   Php!history
<1>1. SaveTyped'
  BY DEF SaveTyped, Php!TypeOK, Saves, SaveSteps
<1>2. RunsExpected'
  BY DEF SaveTyped, RunsExpected
<1>3. OthersServed'
  BY DEF SaveTyped, OthersServed, AtRest, Files, SaveKnown, FilesOfSave, ServerOfSave,
     Php!SettingOf, Php!Fill, Php!Valid
<1>4. SaveKnown'
  BY DEF SaveTyped, SaveSteps, Files, SaveKnown, FilesOfSave, ServerOfSave, Php!SettingOf
<1>5. Php!FailedSaveRestores'
  BY DEF Php!FailedSaveRestores, SaveKnown
<1> QED
  BY <1>1, <1>2, <1>3, <1>4, <1>5

\* The server comes back with the old files.
LEMMA SaveReensure ==
  ASSUME SaveAssumption, SaveInv, Php!Reensure
  PROVE  SaveInv'
<1> USE DEF SaveInv, SaveAssumption, Php!Reensure, Php!Ensure, Php!ComesUp, Php!End,
   Php!files
<1>1. SaveTyped'
  <2>1. save' \in Saves \cup {None} /\ last' \in Saves \cup {None}
    BY SaveStepped, SaveAttempted DEF SaveTyped, SaveSteps, Results
  <2>2. /\ master' \in [Versions -> Php!Config \cup {None}]
        /\ generated' \in [Versions -> Php!Config]
    BY DEF SaveTyped, Php!TypeOK
  <2>3. ini' \in [Versions -> Php!Inis] /\ setting' \in [Versions -> Settings \cup {None}]
    BY DEF SaveTyped, Php!TypeOK
  <2> QED
    BY <2>1, <2>2, <2>3 DEF SaveTyped, Php!TypeOK
<1>2. RunsExpected'
  BY DEF RunsExpected
<1>3. OthersServed'
  BY DEF OthersServed, AtRest, Files, SaveKnown, FilesOfSave, ServerOfSave, Php!SettingOf
<1>4. SaveKnown'
  BY DEF SaveKnown
<1>5. Php!FailedSaveRestores'
  BY DEF SaveTyped, Saves, Php!FailedSaveRestores, SaveKnown, FilesOfSave, ServerOfSave,
     Files, Php!SettingOf, Php!Fill, Php!Valid
<1> QED
  BY <1>1, <1>2, <1>3, <1>4, <1>5

\* It does not come back.
LEMMA SaveReensureFails ==
  ASSUME SaveAssumption, SaveInv, Php!ReensureFails
  PROVE  SaveInv'
<1> USE DEF SaveInv, SaveAssumption, Php!ReensureFails, Php!Fault, Php!ComesUp,
   Php!EnsureFails, Php!End, Php!Unrestored, Php!files, Php!history
<1>1. SaveTyped'
  BY DEF SaveTyped, Php!TypeOK, Saves, Results
<1>2. RunsExpected'
  BY DEF RunsExpected, SaveKnown, ServerOfSave
<1>3. OthersServed'
  BY DEF OthersServed, AtRest, Files, SaveKnown, FilesOfSave, ServerOfSave, Php!SettingOf
<1>4. SaveKnown'
  BY DEF SaveKnown
<1>5. Php!FailedSaveRestores'
  BY DEF SaveTyped, Saves, Php!FailedSaveRestores, SaveKnown, FilesOfSave, Files,
     Php!SettingOf, Php!Fill, Php!Valid
<1> QED
  BY <1>1, <1>2, <1>3, <1>4, <1>5

\* Everything starts with what is generated now.
LEMMA SaveStartAll ==
  ASSUME SaveAssumption, SaveInv, Php!StartAll
  PROVE  SaveInv'
<1> USE DEF SaveInv, SaveAssumption, Php!StartAll, Php!Generate, Php!Fill, Php!SettingOf,
   Php!Quiet, Php!servers, Php!history
<1>1. SaveTyped'
  BY DEF SaveTyped, Php!TypeOK, Php!Config, Php!Inis
<1>2. RunsExpected'
  BY DEF RunsExpected
<1>3. OthersServed'
  BY DEF Php!Valid, OthersServed, AtRest, Files
<1>4. SaveKnown'
  BY DEF SaveKnown
<1>5. Php!FailedSaveRestores'
  BY DEF Php!FailedSaveRestores
<1> QED
  BY <1>1, <1>2, <1>3, <1>4, <1>5

\* Nothing runs.
LEMMA SaveStopAll ==
  ASSUME SaveAssumption, SaveInv, Php!StopAll
  PROVE  SaveInv'
<1> USE DEF SaveInv, SaveAssumption, Php!StopAll, Php!Quiet, Php!files, Php!history
<1>1. SaveTyped'
  BY DEF SaveTyped, Php!TypeOK
<1>2. RunsExpected'
  BY DEF RunsExpected
<1>3. OthersServed'
  BY DEF OthersServed, AtRest
<1>4. SaveKnown'
  BY DEF SaveKnown
<1>5. Php!FailedSaveRestores'
  BY DEF Php!FailedSaveRestores
<1> QED
  BY <1>1, <1>2, <1>3, <1>4, <1>5

\* A save that is cut short leaves a version that nobody vouches for.
LEMMA SaveAgentEnds ==
  ASSUME SaveAssumption, SaveInv, Php!AgentEnds
  PROVE  SaveInv'
<1> USE DEF SaveInv, SaveAssumption, Php!AgentEnds, Php!Fault, Php!files
<1>1. SaveTyped'
  BY DEF SaveTyped, Php!TypeOK, Saves
<1>2. RunsExpected'
  BY DEF RunsExpected
<1>3. OthersServed'
  BY DEF OthersServed, AtRest
<1>4. SaveKnown'
  BY DEF SaveKnown
<1>5. Php!FailedSaveRestores'
  BY DEF Php!FailedSaveRestores
<1> QED
  BY <1>1, <1>2, <1>3, <1>4, <1>5

\* A version whose old files cannot be put back counts as changed and suspect.
LEMMA SaveRestoreFails ==
  ASSUME SaveAssumption, SaveInv, Php!RestoreFails
  PROVE  SaveInv'
<1> DEFINE v == save.version
<1> USE DEF SaveInv, SaveAssumption
<1>1. /\ save \in Saves /\ save # None /\ v \in Versions
      /\ save' = None /\ last' = [save EXCEPT !.step = "unrestored"] /\ last' \in Saves
      /\ drifted' = drifted \cup {v} /\ suspect' = suspect \cup {v}
      /\ UNCHANGED <<ini, setting, generated, saves>>
      /\ Php!Fault
  BY SaveStepped DEF Php!RestoreFails, Php!Unrestored, Php!End, Php!files, SaveTyped, Saves,
     Results
<1>2. /\ master' \in [Versions -> Php!Config \cup {None}] /\ expected' \subseteq expected
      /\ \A w \in Versions \ {v} :
             master'[w] = master[w] /\ (w \in expected' <=> w \in expected)
      /\ master'[v] # None => v \in expected'
  BY <1>1 DEF Php!RestoreFails, Php!StopFails, Php!Stop, Php!servers, SaveTyped, Php!TypeOK,
     RunsExpected
<1>3. strays' \in [Versions -> Nat] /\ \A w \in Versions : strays'[w] <= strays[w] + 1
  BY <1>1 DEF Php!RestoreFails, Php!StopFails, Php!Stop, Php!servers, SaveTyped, Php!TypeOK
<1>4. mistakes' \in 0..MaxFaults /\ mistakes' = mistakes + 1
  BY <1>1 DEF Php!Fault, SaveTyped, Php!TypeOK
<1>5. strays' \in [Versions -> 0..MaxFaults] /\ \A w \in Versions : strays'[w] <= mistakes'
  BY <1>3, <1>4 DEF SaveTyped, Php!TypeOK
<1>6. SaveTyped'
  BY <1>1, <1>2, <1>4, <1>5 DEF SaveTyped, Php!TypeOK
<1>7. RunsExpected'
  BY <1>2 DEF RunsExpected
<1>8. OthersServed'
  BY <1>1, <1>2 DEF OthersServed, AtRest, Files, Php!SettingOf
<1>9. SaveKnown' /\ Php!FailedSaveRestores'
  BY <1>1 DEF SaveKnown, Php!FailedSaveRestores, Saves
<1> QED
  BY <1>6, <1>7, <1>8, <1>9

\* A changed connection is generated for every version, and all that runs is restarted.
LEMMA SaveRefreshConnection ==
  ASSUME SaveAssumption, SaveInv, Php!RefreshConnection
  PROVE  SaveInv'
<1> USE DEF SaveInv, SaveAssumption
<1>1. /\ save = None /\ save' = None /\ last' = None
      /\ UNCHANGED <<setting, strays, suspect, saves>>
  BY DEF Php!RefreshConnection, Php!Quiet
<1>2. /\ \A v \in Versions : ini'[v] = Php!Fill(ini[v]) /\ generated'[v] = Files(v)'
      /\ ini' \in [Versions -> Php!Inis] /\ generated' \in [Versions -> Php!Config]
  BY <1>1 DEF Php!RefreshConnection, Php!Generate, SaveTyped, Php!TypeOK, Php!Inis,
     Php!Fill, Php!Config, Php!SettingOf, Files
<1>3. \/ UNCHANGED <<master, expected, drifted, mistakes>>
      \/ /\ expected' \subseteq expected /\ (mistakes' = mistakes \/ Php!Fault)
         /\ master' = [v \in Versions |-> IF v \in expected' THEN generated'[v] ELSE None]
         /\ drifted' = drifted \ expected'
  BY DEF Php!RefreshConnection
<1>4. SaveTyped'
  <2>1. master' \in [Versions -> Php!Config \cup {None}]
    BY <1>2, <1>3 DEF SaveTyped
  <2>2. mistakes' \in 0..MaxFaults /\ mistakes <= mistakes'
    BY <1>3 DEF SaveTyped, Php!TypeOK, Php!Fault
  <2>3. expected' \subseteq Versions /\ drifted' \subseteq Versions
    BY <1>3 DEF SaveTyped, Php!TypeOK
  <2>4. \A v \in Versions : strays'[v] <= mistakes'
    BY <1>1, <2>2 DEF SaveTyped, Php!TypeOK
  <2> QED
    BY <1>1, <1>2, <2>1, <2>2, <2>3, <2>4 DEF SaveTyped, Php!TypeOK
<1>5. \A v \in Versions :
        \/ /\ master'[v] = master[v] /\ (v \in expected <=> v \in expected')
           /\ (v \in drifted <=> v \in drifted')
        \/ v \in expected' /\ master'[v] = Files(v)'
        \/ master'[v] = None /\ (v \in drifted <=> v \in drifted')
  BY <1>2, <1>3
<1>6. RunsExpected'
  BY <1>5 DEF RunsExpected
<1>7. OthersServed'
  <2> SUFFICES ASSUME NEW v \in Versions PROVE AtRest(v)'
    BY DEF OthersServed
  <2>1. AtRest(v)
    BY <1>1 DEF OthersServed
  <2>2. /\ ini'[v] # "blank"
        /\ (ini'[v] = ini[v] \/ (ini[v] = "blank" /\ ini'[v] \in Php!Valid))
    BY <1>2 DEF Php!Fill, Php!Valid
  <2>3. ini'[v] = ini[v] => Files(v)' = Files(v)
    BY <1>1 DEF Files, Php!SettingOf
  <2> QED
    BY <1>1, <1>5, <2>1, <2>2, <2>3 DEF AtRest, Php!Valid
<1>8. SaveKnown' /\ Php!FailedSaveRestores'
  BY <1>1 DEF SaveKnown, Php!FailedSaveRestores
<1> QED
  BY <1>4, <1>6, <1>7, <1>8

\* Nothing runs at first.
LEMMA SaveInit == SaveAssumption /\ Php!Init => SaveInv
<1> SUFFICES ASSUME SaveAssumption, Php!Init PROVE SaveInv
  OBVIOUS
<1> USE DEF Php!Init, SaveAssumption
<1>1. SaveTyped
  BY DEF SaveTyped, Php!TypeOK, Php!Config, Php!Inis
<1>2. RunsExpected /\ OthersServed /\ SaveKnown /\ Php!FailedSaveRestores
  BY DEF RunsExpected, OthersServed, AtRest, SaveKnown, Php!FailedSaveRestores, Php!Valid
<1> QED
  BY <1>1, <1>2 DEF SaveInv

\* SaveInv is inductive.
LEMMA SaveStep == SaveAssumption /\ SaveInv /\ [Php!Next]_Php!vars => SaveInv'
<1> SUFFICES ASSUME SaveAssumption, SaveInv, [Php!Next]_Php!vars PROVE SaveInv'
  OBVIOUS
<1>1. CASE UNCHANGED Php!vars
  <2>1. UNCHANGED <<ini, setting, generated, master, strays, expected, save, last, drifted,
                    suspect, saves, mistakes>>
    BY <1>1 DEF Php!vars, Php!files, Php!servers, Php!history
  <2>2. SaveTyped' /\ RunsExpected' /\ Php!FailedSaveRestores'
    BY <2>1 DEF SaveInv, SaveTyped, Php!TypeOK, RunsExpected, Php!FailedSaveRestores,
       Php!SettingOf
  <2>3. OthersServed' /\ SaveKnown'
    BY <2>1 DEF SaveInv, OthersServed, AtRest, Files, Php!SettingOf, SaveKnown, FilesOfSave,
                ServerOfSave, OldFiles, Php!AfterGenerate
  <2> QED
    BY <2>2, <2>3 DEF SaveInv
<1>2. ASSUME NEW v \in Versions,
             \/ Php!BeginSavePhpIni(v) \/ Php!BeginSaveSetting(v) \/ Php!ReadPhpIni(v)
             \/ Php!EditOutside(v) \/ Php!ServerEnds(v)
      PROVE  SaveInv'
  BY <1>2, SaveBegin, SaveRead, SaveEdit, SaveServerEnds
<1>3. CASE Php!Write \/ Php!WriteFails \/ Php!GenerateFiles \/ Php!Validate
           \/ Php!StageFails \/ Php!Finish
  BY <1>3, SaveWrite, SaveWriteFails, SaveGenerateFiles, SaveValidate, SaveStageFails,
     SaveFinish
<1>4. CASE Php!StopServer \/ Php!StopServerFails \/ Php!EnsureServer
           \/ Php!EnsureServerFails
  BY <1>4, SaveStopServer, SaveStopServerFails, SaveEnsureServer, SaveEnsureServerFails
<1>5. CASE Php!Restore \/ Php!Regenerate \/ Php!Restop \/ Php!Reensure
           \/ Php!ReensureFails \/ Php!RestoreFails
  BY <1>5, SaveRestore, SaveRegenerate, SaveRestop, SaveReensure, SaveReensureFails,
     SaveRestoreFails
<1>6. CASE Php!StartAll \/ Php!StopAll \/ Php!RefreshConnection \/ Php!AgentEnds
  BY <1>6, SaveStartAll, SaveStopAll, SaveRefreshConnection, SaveAgentEnds
<1> QED
  BY <1>1, <1>2, <1>3, <1>4, <1>5, <1>6 DEF Php!Next

\* SaveInv is an invariant.
LEMMA SaveInvariance ==
  ASSUME SaveAssumption
  PROVE  Php!Spec => []SaveInv
<1>1. Php!Init => SaveInv
  BY SaveInit
<1>2. SaveInv /\ [Php!Next]_Php!vars => SaveInv'
  BY SaveStep
<1> QED
  BY <1>1, <1>2, PTL DEF Php!Spec

\* Between saves a PHP that runs was started with what the user's files of its version
\* say, and its php.ini is one that was validated, but for files changed beneath it or
\* not put back (PhpSettings; the saves and restarts of the service supervisor).
THEOREM PhpServedAsSaved ==
  ASSUME SaveAssumption
  PROVE  Php!Spec => []Php!ServedAsSaved
<1>1. SaveInv => Php!ServedAsSaved
  BY DEF SaveInv, OthersServed, AtRest, Php!ServedAsSaved, Files, SaveKnown
<1> QED
  BY <1>1, SaveInvariance, PTL

\* A save that fails leaves the files as they were before it, and the server as well,
\* whatever stage failed (PhpSettings).
THEOREM FailedSavesRestore ==
  ASSUME SaveAssumption
  PROVE  Php!Spec => []Php!FailedSaveRestores
<1>1. SaveInv => Php!FailedSaveRestores
  BY DEF SaveInv
<1> QED
  BY <1>1, SaveInvariance, PTL

\* PhpSettings is type-correct.
THEOREM PhpTypeCorrect ==
  ASSUME SaveAssumption
  PROVE  Php!Spec => []Php!TypeOK
<1>1. SaveInv => Php!TypeOK
  BY DEF SaveInv, SaveTyped
<1> QED
  BY <1>1, SaveInvariance, PTL

-----------------------------------------------------------------------------
(* MariaDb.                                                                *)

\* What a server that runs was started with.
ServerSet == [port : Nat, custom : Configs \cup {Template}, path : {"current", "version"},
              ready : BOOLEAN]

\* The requests of the supervisor, and what they remember.
DbKinds == {"none", "start", "restore", "confirm", "stop", "shutdown", "settings", "undo",
            "runtime"}

\* A request; a start whose refresh has failed is "refreshed".
Tasks == [kind : DbKinds, before : BOOLEAN \cup Db!Setting \cup {None},
          new : Db!Setting \cup {None, "refreshed"}]

\* The default settings are managed and in the default directory; None and the marks
\* are apart from settings, directories, contents and servers.
DbAssumption ==
  /\ Windows \in BOOLEAN /\ MaxFaults \in Nat
  /\ DefaultDir \in Dirs /\ None \notin Dirs
  /\ DefaultSettings \in Db!Setting
  /\ DefaultSettings.dir = DefaultDir /\ DefaultSettings.mode = "managed"
  /\ Choices \subseteq Db!Setting /\ None \notin Db!Setting /\ None \notin Db!Modes
  /\ None \notin Configs \cup {Template} /\ None \notin ServerSet
  /\ "refreshed" \notin Db!Setting /\ "refreshed" # None /\ "off" # None

\* A server runs on a data directory.
Runs(d) == servers[d] # None
\* No server was left behind by a fault.
Straight == "stray" \notin excused

\* Shapes.
DbTyped == Db!TypeOK /\ servers \in [Dirs -> ServerSet \cup {None}] /\ task \in Tasks

\* Which requests pass which steps.
KindsAt == [idle |-> {"none"},
  preparing |-> {"start", "restore"}, initialising |-> {"start", "restore"},
  launching |-> {"start", "restore"}, waiting |-> {"start", "restore"},
  stopping |-> {"start", "restore", "stop", "shutdown"},
  refreshing |-> {"start", "restore", "confirm", "stop", "settings", "runtime"},
  resetting |-> {"start", "undo"},
  writing |-> {"settings", "undo"}, linking |-> {"settings", "undo"}]

\* What a request at a step remembers, and what it has prepared.
DbStepFits ==
  /\ step \in DOMAIN KindsAt /\ task.kind \in KindsAt[step]
  /\ step # "idle" => up
  /\ IF task.kind \in {"settings", "undo"}
       THEN task.before \in Db!Setting /\ task.new \in Db!Setting
     ELSE task.new = "refreshed" =>
            task.kind = "start" /\ step \in {"stopping", "resetting"}
  /\ task.kind \in {"start", "stop"} => task.before \in BOOLEAN
  /\ step \in {"initialising", "launching"} => installed /\ custom # None
  /\ step = "initialising" => data[Db!Saved.dir] # "database"
  /\ step = "launching" => data[Db!Saved.dir] = "database"

\* The stored wish is that of the last success, or of the request at work.
DesiredFits ==
  /\ task.kind \in {"start", "restore", "confirm"} => desired = TRUE
  /\ task.kind = "stop" => desired = FALSE
  /\ "desired" \notin excused =>
       IF task.kind \in {"start", "stop"} THEN task.before = lastGood
       ELSE task.kind # "confirm" => desired = lastGood

\* How far the two files have come.
Halfway ==
  /\ step = "linking" => settings = Db!Target
  /\ task.kind = "settings" /\ step = "refreshing" =>
       settings = task.new /\ connection = task.new.mode
  /\ step = "resetting" /\ task.kind = "undo" =>
       settings = task.before /\ connection = task.before.mode
  /\ "settings" \notin excused =>
       IF task.kind \in {"settings", "undo"} THEN task.before = accepted
       ELSE Db!Saved = accepted

\* Every server, but for strays.
DataHeld == \A d \in Dirs : Runs(d) => data[d] = "database"

\* The supervisor knows of the server.
Known(d) == child = d \/ (child = None /\ (Windows \/ recovered = d))

\* A server that is no stray runs on the saved directory with what is saved, and the
\* supervisor knows of it; that it is not ready is a matter of a start. Requests that
\* replace settings or the Runtime find none.
ServersKnown ==
  /\ child # None => recovered = None
  /\ Straight => \A d \in Dirs : Runs(d) =>
       /\ Db!Saved.dir = d /\ Db!Saved.port = servers[d].port
       /\ custom = servers[d].custom
       /\ installed
       /\ up => Known(d)
       /\ step \notin {"preparing", "initialising", "launching", "writing", "linking"}
       /\ task.kind \notin {"settings", "undo", "runtime"}
       /\ IF servers[d].ready THEN pidFile = d ELSE step \in {"waiting", "stopping"}

\* PHP connects to what there is, but for a failed refresh; while a server is on its
\* way, as if there were none.
PhpFits ==
  /\ step = "resetting" \/ task.kind = "undo"
     \/ (step = "stopping" /\ task.new = "refreshed") =>
       "php" \in excused
  /\ excused \cap {"php", "stray"} = {} =>
       /\ ~Db!Stale
       /\ up /\ step \in {"idle", "preparing", "initialising", "launching", "writing",
                         "linking"} => php \in {"off", Db!Effective}
       /\ step = "waiting" \/ (step = "stopping" /\ task.kind \in {"start", "restore"}) =>
            php \in {"off", "system"}

\* The inductive invariant.
DbInv ==
  /\ DbTyped /\ DbStepFits /\ DesiredFits /\ Halfway
  /\ DataHeld /\ ServersKnown /\ PhpFits /\ Db!StopEndsAll

\* The two settings files together are settings.
LEMMA MergedTyped ==
  ASSUME NEW file \in Db!Setting \cup {None}, NEW link \in Db!Modes \cup {None},
         DefaultSettings \in Db!Setting, None \notin Db!Setting
  PROVE  Db!Merged(file, link) \in Db!Setting
<1> DEFINE base == IF file = None THEN DefaultSettings ELSE file
<1>1. base \in Db!Setting
  OBVIOUS
<1> HIDE DEF base
<1>2. [base EXCEPT !.mode = link] \in Db!Setting \/ link = None
  BY <1>1 DEF Db!Setting
<1> QED
  BY <1>1, <1>2 DEF Db!Merged, base

\* Merging a setting's own mode changes nothing.
LEMMA MergedOwn ==
  ASSUME NEW s \in Db!Setting, None \notin Db!Setting, None \notin Db!Modes
  PROVE  Db!Merged(s, s.mode) = s
<1>1. s.mode # None /\ s # None
  BY DEF Db!Setting
<1>2. [s EXCEPT !.mode = s.mode] = s
  BY DEF Db!Setting
<1> QED
  BY <1>1, <1>2 DEF Db!Merged

\* What a request begins with.
LEMMA TaskMade ==
  ASSUME NEW k \in DbKinds, NEW b \in BOOLEAN \cup Db!Setting \cup {None},
         NEW n \in Db!Setting \cup {None, "refreshed"}
  PROVE  [kind |-> k, before |-> b, new |-> n] \in Tasks
BY DEF Tasks

\* What becomes of it on its way.
LEMMA TaskAltered ==
  ASSUME task \in Tasks
  PROVE  /\ [task EXCEPT !.new = "refreshed"] \in Tasks
         /\ [task EXCEPT !.kind = "undo"] \in Tasks
BY DEF Tasks, DbKinds

\* What is saved is settings.
LEMMA SavedTyped ==
  ASSUME DbAssumption, DbTyped
  PROVE  Db!Saved \in Db!Setting
BY MergedTyped DEF DbAssumption, DbTyped, Db!TypeOK, Db!Saved

\* Repairing a data directory neither makes nor loses a database.
LEMMA RepairedKeeps ==
  ASSUME DbAssumption, DbInv
  PROVE  /\ Db!Repaired \in [Dirs -> Db!Holds]
         /\ \A d \in Dirs : data[d] = "database" <=> Db!Repaired[d] = "database"
BY DEF DbAssumption, DbInv, DbTyped, Db!TypeOK, Db!Repaired, Db!Repairs, Db!Holds

\* Without a known process the status is stopped.
LEMMA UntrackedStopped == Db!Untracked => ~Db!StatusRunning
BY DEF Db!Untracked, Db!StatusRunning, Db!ChildAlive

\* What PHP follows is a mode, and only its excuse ends with it.
LEMMA FollowedTyped ==
  /\ Db!Followed \in Db!Modes \cup {"off"} /\ Db!Effective \in Db!Modes
  /\ Db!Renewed \subseteq {"php"}
BY DEF Db!Followed, Db!Effective, Db!Modes, Db!Renewed

\* The settings of a server that runs can be loaded.
LEMMA RunningLoads ==
  ASSUME DbAssumption, DbInv, Straight, NEW d \in Dirs, Runs(d)
  PROVE  Db!Loads
<1>1. Db!Saved.dir = d /\ data[d] = "database"
  BY DEF DbInv, ServersKnown, DataHeld
<1>2. Db!Repaired[d] = "database"
  BY <1>1, RepairedKeeps
<1> QED
  BY <1>1, <1>2 DEF Db!Loads, Db!Usable

\* The process taken over runs.
LEMMA RecoveredTyped ==
  ASSUME DbAssumption, DbInv
  PROVE  /\ Db!RecoveredNow \in Dirs \cup {None}
         /\ Db!RecoveredNow # None => Runs(Db!RecoveredNow)
         /\ Db!RecoveredPid(TRUE) \in Dirs \cup {None}
         /\ Db!RecoveredPid(installed) \in Dirs \cup {None}
BY DEF DbAssumption, DbInv, DbTyped, Db!TypeOK, Db!RecoveredNow, Db!RecoveredPid, Runs

\* When the status is stopped, nothing runs.
LEMMA NothingRuns ==
  ASSUME DbAssumption, DbInv
  PROVE  Straight /\ step = "idle" /\ up /\ ~Db!StatusRunning => \A d \in Dirs : ~Runs(d)
<1> SUFFICES ASSUME Straight, step = "idle", up, ~Db!StatusRunning, NEW d \in Dirs, Runs(d)
             PROVE  FALSE
  OBVIOUS
<1>1. /\ Db!Loads
      /\ installed /\ pidFile = d /\ servers[d].ready /\ servers[d].port = Db!Saved.port
      /\ Known(d)
  BY RunningLoads DEF DbInv, ServersKnown
<1>2. Db!Listens(Db!Saved.port)
  BY <1>1 DEF Db!Listens, Runs
<1>3. d # None
  BY DEF DbAssumption
<1>4. CASE child = d
  BY <1>4, <1>3 DEF Db!StatusRunning, Db!ChildAlive, Runs
<1>5. CASE child = None
  BY <1>1, <1>2, <1>3, <1>5 DEF Db!StatusRunning, Db!RecoveredNow, Db!RecoveredPid, Known,
     Runs, DbInv, DbTyped, Db!TypeOK
<1> QED
  BY <1>1, <1>4, <1>5 DEF Known

\* What polling leaves of the supervisor.
LEMMA PolledKnown ==
  ASSUME DbAssumption, DbInv, Db!Polled, UNCHANGED servers
  PROVE  /\ {child', recovered'} \subseteq Dirs \cup {None}
         /\ child' # None => recovered' = None
         /\ \A d \in Dirs : Runs(d) /\ Known(d) => Known(d)'
<1>1. /\ {child', recovered'} \subseteq Dirs \cup {None}
      /\ (child' # None => recovered' = None)
  BY RecoveredTyped DEF Db!Polled, DbInv, DbTyped, Db!TypeOK, ServersKnown
<1>2. ASSUME NEW d \in Dirs, Runs(d), Known(d)
      PROVE  Known(d)'
  BY <1>2 DEF Db!Polled, Known, Runs, Db!ChildAlive, Db!RecoveredNow, DbAssumption
<1> QED
  BY <1>1, <1>2

\* A start, a restoration and a confirmation begin so.
LEMMA DbBegin ==
  ASSUME DbAssumption, DbInv, Db!Idle, Db!Polled, desired' = TRUE,
         NEW k \in {"start", "restore", "confirm"}, NEW s \in {"refreshing", "preparing"},
         Db!Begin(k, s, None), k = "restore" => desired = TRUE,
         IF k = "confirm" THEN s = "refreshing" ELSE s = "preparing" /\ ~Db!StatusRunning,
         UNCHANGED <<settings, connection, custom, data, servers, pidFile, php,
                     installed, path, up, Db!history, faults>>
  PROVE  DbInv'
<1> USE DEF DbInv, DbAssumption
<1>1. /\ step = "idle" /\ step' = s /\ up /\ task.kind = "none" /\ Db!Saved' = Db!Saved
      /\ UNCHANGED <<settings, connection, custom, data, servers, pidFile, php,
                     installed, path, up, accepted, lastGood, excused, faults>>
  BY DEF Db!Idle, Db!Begin, Db!Saved, Db!history, DbStepFits, KindsAt
<1>2. task' \in Tasks
  BY TaskMade DEF Db!Begin, DbTyped, Db!TypeOK, DbKinds
<1>3. task'.kind = k /\ task'.before = desired /\ task'.new = None
  BY DEF Db!Begin
<1>4. desired \in BOOLEAN
  BY DEF DbTyped, Db!TypeOK
<1>5. DbTyped'
  BY <1>1, <1>2, PolledKnown DEF DbTyped, Db!TypeOK
<1>6. DbStepFits'
  BY <1>1, <1>3, <1>4 DEF DbStepFits, KindsAt
<1>7. DesiredFits'
  <2>1. "desired" \notin excused => desired = lastGood
    BY <1>1 DEF DesiredFits
  <2>2. (k = "start" => task'.before = desired) /\ (k = "restore" => desired = TRUE)
    BY <1>3
  <2> QED
    BY <1>1, <1>3, <2>1, <2>2, Zenon DEF DesiredFits
<1>8. Halfway'
  BY <1>1, <1>3 DEF Halfway
<1>9. DataHeld'
  BY <1>1 DEF DataHeld, Runs
<1>10. ServersKnown'
  <2>1. k # "confirm" /\ Straight => \A d \in Dirs : ~Runs(d)
    BY <1>1, NothingRuns
  <2> QED
    BY <1>1, <1>3, <2>1, PolledKnown DEF ServersKnown, Straight, Runs
<1>11. PhpFits'
  BY <1>1, <1>3 DEF PhpFits, Db!Stale, Db!Effective, Db!Available, Db!Listens
<1>12. Db!StopEndsAll'
  BY <1>1, <1>3 DEF Db!StopEndsAll
<1> QED
  BY <1>5, <1>6, <1>7, <1>8, <1>9, <1>10, <1>11, <1>12

\* A start begins, or confirms that the server runs.
LEMMA DbStart ==
  ASSUME DbAssumption, DbInv, Db!Start
  PROVE  DbInv'
<1>1. CASE Db!StatusRunning
  <2>1. Db!Begin("confirm", "refreshing", None)
    BY <1>1 DEF Db!Start
  <2> QED
    BY <2>1, DbBegin DEF Db!Start
<1>2. CASE ~Db!StatusRunning
  <2>1. Db!Begin("start", "preparing", None)
    BY <1>2 DEF Db!Start
  <2> QED
    BY <1>2, <2>1, DbBegin DEF Db!Start
<1> QED
  BY <1>1, <1>2

\* So does the restoration at the Agent's start.
LEMMA DbRestore ==
  ASSUME DbAssumption, DbInv, Db!Restore
  PROVE  DbInv'
<1>1. /\ desired = TRUE /\ desired' = TRUE
      /\ UNCHANGED <<settings, connection, custom, data, servers, pidFile, php,
                     installed, path, up, Db!history, faults>>
  BY DEF Db!Restore, Db!files
<1>2. CASE Db!StatusRunning
  <2>1. Db!Begin("confirm", "refreshing", None)
    BY <1>2 DEF Db!Restore
  <2> QED
    BY <1>1, <2>1, DbBegin DEF Db!Restore
<1>3. CASE ~Db!StatusRunning
  <2>1. Db!Begin("restore", "preparing", None)
    BY <1>3 DEF Db!Restore
  <2> QED
    BY <1>1, <1>3, <2>1, DbBegin DEF Db!Restore
<1> QED
  BY <1>2, <1>3

\* The files a start needs are there; the first of its steps.
LEMMA DbPrepare ==
  ASSUME DbAssumption, DbInv, Db!Prepare
  PROVE  DbInv'
<1> USE DEF DbInv, DbAssumption, Db!Prepare, Db!Goto, Db!supervisor, Db!history
<1>1. Db!Saved \in Db!Setting /\ Db!Saved' = Db!Saved
  BY SavedTyped DEF Db!Saved
<1>2. /\ Db!Repaired \in [Dirs -> Db!Holds]
      /\ \A x \in Dirs : data[x] = "database" <=> Db!Repaired[x] = "database"
  BY RepairedKeeps
<1>3. DbTyped'
  BY <1>1, <1>2 DEF DbTyped, Db!TypeOK, Db!Holds, Db!Setting
<1>4. DbStepFits'
  BY <1>1, <1>2 DEF DbStepFits, KindsAt, Db!Setting
<1>5. DesiredFits'
  BY DEF DesiredFits
<1>6. Halfway'
  BY <1>1 DEF Halfway
<1>7. DataHeld'
  BY <1>2 DEF DataHeld, Runs
<1>8. ServersKnown'
  BY DEF ServersKnown, Straight, Runs
<1>9. PhpFits'
  BY DEF PhpFits, Db!Stale, Db!Effective, Db!Available, Db!Listens, ServersKnown, Straight,
     Runs
<1>10. Db!StopEndsAll'
  BY DEF Db!StopEndsAll
<1> QED
  BY <1>3, <1>4, <1>5, <1>6, <1>7, <1>8, <1>9, <1>10

\* Refused settings take the wish back.
LEMMA DbPrepareFails ==
  ASSUME DbAssumption, DbInv, Db!PrepareFails
  PROVE  DbInv'
<1> USE DEF DbInv, DbAssumption, Db!PrepareFails, Db!TakeBack, Db!Finish, Db!supervisor,
   Db!history, Db!NoTask
<1>1. Db!Saved \in Db!Setting /\ Db!Saved' = Db!Saved
  BY SavedTyped DEF Db!Saved
<1>2. /\ Db!Repaired \in [Dirs -> Db!Holds]
      /\ \A x \in Dirs : data[x] = "database" <=> Db!Repaired[x] = "database"
  BY RepairedKeeps
<1>3. DbTyped'
  BY <1>2 DEF DbTyped, Db!TypeOK, Tasks, DbKinds, DbStepFits
<1>4. DbStepFits'
  BY DEF DbStepFits, KindsAt
<1>5. DesiredFits'
  BY DEF DesiredFits, DbStepFits, KindsAt
<1>6. Halfway'
  BY <1>1 DEF Halfway, DbStepFits, KindsAt
<1>7. DataHeld'
  BY <1>2 DEF DataHeld, Runs
<1>8. ServersKnown'
  BY DEF ServersKnown, Straight, Runs
<1>9. PhpFits'
  BY DEF PhpFits, Db!Stale, Db!Effective, Db!Available, Db!Listens, ServersKnown, Straight,
     Runs
<1>10. Db!StopEndsAll'
  BY DEF Db!StopEndsAll
<1> QED
  BY <1>3, <1>4, <1>5, <1>6, <1>7, <1>8, <1>9, <1>10

\* A new data directory gets its database.
LEMMA DbInitialise ==
  ASSUME DbAssumption, DbInv, Db!Initialise
  PROVE  DbInv'
<1> USE DEF DbInv, DbAssumption, Db!Initialise, Db!Goto, Db!TakeBack, Db!Finish,
   Db!supervisor, Db!history, Db!NoTask
<1>1. Db!Saved \in Db!Setting /\ Db!Saved' = Db!Saved
  BY SavedTyped DEF Db!Saved
<1>2. DbTyped'
  BY DEF DbTyped, Db!TypeOK, Tasks, DbKinds, Db!Holds, DbStepFits
<1>3. DbStepFits'
  <2>1. Db!Saved.dir \in Dirs
    BY <1>1 DEF Db!Setting
  <2> QED
    BY <1>1, <2>1, SMTT(10) DEF DbStepFits, KindsAt, DbTyped, Db!TypeOK
<1>4. DesiredFits'
  BY DEF DesiredFits, DbStepFits, KindsAt
<1>5. Halfway'
  BY <1>1 DEF Halfway, DbStepFits, KindsAt
<1>6. DataHeld'
  BY DEF DbTyped, Db!TypeOK, DataHeld, Runs, DbStepFits
<1>7. ServersKnown'
  BY DEF ServersKnown, Straight, Runs
<1>8. PhpFits'
  BY DEF PhpFits, Db!Stale, Db!Effective, Db!Available, Db!Listens, ServersKnown, Straight,
     Runs
<1>9. Db!StopEndsAll'
  BY DEF Db!StopEndsAll
<1> QED
  BY <1>2, <1>3, <1>4, <1>5, <1>6, <1>7, <1>8, <1>9

\* The server is launched.
LEMMA DbLaunch ==
  ASSUME DbAssumption, DbInv, Db!Launch
  PROVE  DbInv'
<1> USE DEF DbInv, DbAssumption, Db!Launch, Db!Goto, Db!files, Db!history
<1>1. Db!Saved \in Db!Setting /\ Db!Saved' = Db!Saved
  BY SavedTyped DEF Db!Saved
<1>2. DbTyped'
  <2>1. task' \in Tasks
    BY <1>1, TaskMade, TaskAltered DEF DbTyped, Db!TypeOK, DbKinds, Db!NoTask
  <2>2. servers' \in [Dirs -> ServerSet \cup {None}] /\ data' \in [Dirs -> Db!Holds]
    <3> DEFINE launched == [port |-> Db!Saved.port, custom |-> custom, path |-> path,
                            ready |-> FALSE]
    <3>1. launched \in ServerSet
      BY <1>1 DEF ServerSet, Db!Setting, DbTyped, Db!TypeOK, DbStepFits
    <3>2. servers' = servers
          \/ servers' = [servers EXCEPT ![Db!Saved.dir] = launched]
      OBVIOUS
    <3>3. servers' \in [Dirs -> ServerSet \cup {None}]
      BY <3>1, <3>2 DEF DbTyped
    <3> QED
      BY <3>3 DEF DbTyped, Db!TypeOK
  <2>3. /\ excused' \subseteq Db!Excuses /\ faults' \in 0..MaxFaults
        /\ {pidFile', child', recovered'} \subseteq Dirs \cup {None}
        /\ up' \in BOOLEAN /\ installed' \in BOOLEAN /\ lastGood' \in BOOLEAN
        /\ desired' \in BOOLEAN
        /\ settings' \in Db!Setting \cup {None} /\ connection' \in Db!Modes \cup {None}
        /\ custom' \in Configs \cup {Template, None}
        /\ php' \in Db!Modes \cup {"off"} /\ path' \in {"current", "version"}
    BY <1>1 DEF DbTyped, Db!TypeOK, Db!Setting, DbStepFits
  <2> QED
    BY <2>1, <2>2, <2>3 DEF DbTyped, Db!TypeOK, ServerSet
<1>3. DbStepFits'
  BY DEF DbStepFits, KindsAt
<1>4. DesiredFits'
  BY DEF DesiredFits
<1>5. Halfway'
  BY <1>1 DEF Halfway
<1>6. DataHeld'
  BY DEF DbTyped, DataHeld, Runs, DbStepFits
<1>7. ServersKnown'
  BY <1>1 DEF DbTyped, ServersKnown, Straight, Runs, Known, DbStepFits, KindsAt
<1>8. PhpFits'
  BY DEF DbTyped, Db!TypeOK, PhpFits, Db!Stale, Db!Effective, Db!Available, ServersKnown,
     Straight, Runs, DbStepFits
<1>9. Db!StopEndsAll'
  BY DEF Db!StopEndsAll
<1> QED
  BY <1>2, <1>3, <1>4, <1>5, <1>6, <1>7, <1>8, <1>9

\* Nothing is launched.
LEMMA DbLaunchFails ==
  ASSUME DbAssumption, DbInv, Db!LaunchFails
  PROVE  DbInv'
<1> USE DEF DbInv, DbAssumption, Db!LaunchFails, Db!TakeBack, Db!Finish, Db!history,
   Db!NoTask
<1>1. Db!Saved \in Db!Setting /\ Db!Saved' = Db!Saved
  BY SavedTyped DEF Db!Saved
<1>2. DbTyped'
  BY DEF DbTyped, Db!TypeOK, Tasks, DbKinds, DbStepFits
<1>3. DbStepFits'
  BY DEF DbStepFits, KindsAt
<1>4. DesiredFits'
  BY DEF DesiredFits, DbStepFits, KindsAt
<1>5. Halfway'
  BY <1>1 DEF Halfway, DbStepFits, KindsAt
<1>6. DataHeld'
  BY DEF DataHeld, Runs
<1>7. ServersKnown'
  BY DEF ServersKnown, Straight, Runs
<1>8. PhpFits'
  BY DEF DbTyped, Db!TypeOK, PhpFits, Db!Stale, Db!Effective, Db!Available, ServersKnown,
     Straight, Runs
<1>9. Db!StopEndsAll'
  BY DEF Db!StopEndsAll
<1> QED
  BY <1>2, <1>3, <1>4, <1>5, <1>6, <1>7, <1>8, <1>9

\* The server is awaited.
LEMMA DbAwait ==
  ASSUME DbAssumption, DbInv, Db!Await
  PROVE  DbInv'
<1> USE DEF DbInv, DbAssumption, Db!Await, Db!Goto, Db!files, Db!supervisor, Db!history
<1>1. Db!Saved \in Db!Setting /\ Db!Saved' = Db!Saved
  BY SavedTyped DEF Db!Saved
<1>2. DbTyped'
  BY DEF DbTyped, Db!TypeOK
<1>3. DbStepFits'
  BY DEF DbStepFits, KindsAt
<1>4. DesiredFits'
  BY DEF DesiredFits
<1>5. Halfway'
  BY <1>1 DEF Halfway, DbStepFits, KindsAt
<1>6. DataHeld'
  BY DEF DataHeld, Runs
<1>7. ServersKnown'
  <2>1. PICK e \in Dirs :
            servers[e] # None /\ servers[e].ready /\ servers[e].port = Db!Saved.port
    BY DEF Db!Listens
  <2>2. Straight => \A d \in Dirs : Runs(d) => d = e
    BY <2>1 DEF ServersKnown, Runs
  <2> QED
    BY <1>1, <2>1, <2>2 DEF ServersKnown, DbStepFits, KindsAt, Straight, Runs, Known
<1>8. PhpFits'
  BY DEF PhpFits, Db!Stale
<1>9. Db!StopEndsAll'
  BY DEF Db!StopEndsAll, DbStepFits, KindsAt
<1> QED
  BY <1>2, <1>3, <1>4, <1>5, <1>6, <1>7, <1>8, <1>9

\* A server that is not ready in time is stopped.
LEMMA DbAwaitFails ==
  ASSUME DbAssumption, DbInv, Db!AwaitFails
  PROVE  DbInv'
<1> USE DEF DbInv, DbAssumption, Db!AwaitFails, Db!Goto, Db!files, Db!supervisor, Db!history
<1>1. Db!Saved \in Db!Setting /\ Db!Saved' = Db!Saved
  BY SavedTyped DEF Db!Saved
<1>2. DbTyped'
  BY DEF DbTyped, Db!TypeOK
<1>3. DbStepFits'
  BY DEF DbStepFits, KindsAt
<1>4. DesiredFits'
  BY DEF DesiredFits
<1>5. Halfway'
  BY <1>1 DEF Halfway
<1>6. DataHeld'
  BY DEF DataHeld, Runs
<1>7. ServersKnown'
  BY <1>1 DEF ServersKnown, Straight, Runs, Known
<1>8. PhpFits'
  BY DEF PhpFits, Db!Stale, DbStepFits
<1>9. Db!StopEndsAll'
  BY DEF Db!StopEndsAll
<1> QED
  BY <1>2, <1>3, <1>4, <1>5, <1>6, <1>7, <1>8, <1>9

\* A stop begins.
LEMMA DbStop ==
  ASSUME DbAssumption, DbInv, Db!Stop
  PROVE  DbInv'
<1> USE DEF DbInv, DbAssumption, Db!Stop, Db!Idle, Db!Begin, Db!supervisor, Db!history
<1>1. Db!Saved \in Db!Setting /\ Db!Saved' = Db!Saved
  BY SavedTyped DEF Db!Saved
<1>2. DbTyped'
  <2>1. task' \in Tasks
    BY <1>1, TaskMade, TaskAltered DEF DbTyped, Db!TypeOK, DbKinds, Db!NoTask
  <2>2. servers' \in [Dirs -> ServerSet \cup {None}] /\ data' \in [Dirs -> Db!Holds]
    BY DEF DbTyped, Db!TypeOK
  <2>3. /\ excused' \subseteq Db!Excuses /\ faults' \in 0..MaxFaults
        /\ {pidFile', child', recovered'} \subseteq Dirs \cup {None}
        /\ up' \in BOOLEAN /\ installed' \in BOOLEAN /\ lastGood' \in BOOLEAN
        /\ settings' \in Db!Setting \cup {None} /\ connection' \in Db!Modes \cup {None}
        /\ custom' \in Configs \cup {Template, None}
        /\ php' \in Db!Modes \cup {"off"} /\ path' \in {"current", "version"}
    BY DEF DbTyped, Db!TypeOK
  <2>4. desired' \in BOOLEAN
    BY Zenon DEF Db!Stop
  <2> QED
    BY <2>1, <2>2, <2>3, <2>4 DEF DbTyped, Db!TypeOK, ServerSet
<1>3. DbStepFits'
  BY DEF DbTyped, Db!TypeOK, DbStepFits, KindsAt
<1>4. DesiredFits'
  BY DEF DesiredFits, DbStepFits, KindsAt
<1>5. Halfway'
  BY <1>1 DEF Halfway, DbStepFits, KindsAt
<1>6. DataHeld'
  BY DEF DataHeld, Runs
<1>7. ServersKnown'
  BY <1>1 DEF ServersKnown, Straight, Runs, Known
<1>8. PhpFits'
  BY DEF PhpFits, Db!Stale
<1>9. Db!StopEndsAll'
  BY DEF Db!StopEndsAll
<1> QED
  BY <1>2, <1>3, <1>4, <1>5, <1>6, <1>7, <1>8, <1>9

\* So does the end of the Agent.
LEMMA DbShutdown ==
  ASSUME DbAssumption, DbInv, Db!Shutdown
  PROVE  DbInv'
<1> USE DEF DbInv, DbAssumption, Db!Shutdown, Db!Idle, Db!Begin, Db!files, Db!supervisor,
   Db!history
<1>1. Db!Saved \in Db!Setting /\ Db!Saved' = Db!Saved
  BY SavedTyped DEF Db!Saved
<1>2. DbTyped'
  BY DEF DbTyped, Db!TypeOK, Tasks, DbKinds
<1>3. DbStepFits'
  BY DEF DbStepFits, KindsAt
<1>4. DesiredFits'
  BY DEF DesiredFits, DbStepFits, KindsAt
<1>5. Halfway'
  BY <1>1 DEF Halfway, DbStepFits, KindsAt
<1>6. DataHeld'
  BY DEF DataHeld, Runs
<1>7. ServersKnown'
  BY <1>1 DEF ServersKnown, Straight, Runs, Known
<1>8. PhpFits'
  BY DEF PhpFits, Db!Stale
<1>9. Db!StopEndsAll'
  BY DEF Db!StopEndsAll
<1> QED
  BY <1>2, <1>3, <1>4, <1>5, <1>6, <1>7, <1>8, <1>9

\* Stopping ends every server the supervisor knows or recognises, or a fault leaves strays.
LEMMA DbStopServers ==
  ASSUME DbAssumption, DbInv, Db!StopServers
  PROVE  DbInv'
<1> USE DEF DbInv, DbAssumption
<1>1. PICK killed \in SUBSET Db!Stoppable :
         /\ servers' = Db!Without(killed)
         /\ IF killed = Db!Stoppable
              THEN pidFile' = None /\ excused' = Db!Forgiven /\ UNCHANGED faults
              ELSE /\ pidFile' \in {pidFile, None}
                   /\ Db!Fault /\ Db!MarkedWith({"stray", "php"})
         /\ up' = ~(task.kind = "shutdown" /\ killed = Db!Stoppable)
         /\ IF task.kind = "stop" /\ killed = Db!Stoppable
              THEN Db!Goto("refreshing") /\ UNCHANGED desired
            ELSE IF task.new = "refreshed"
              THEN Db!Goto("resetting") /\ UNCHANGED desired
            ELSE /\ Db!Finish
                 /\ desired' = IF task.kind \in {"start", "stop"} THEN task.before
                               ELSE desired
  BY DEF Db!StopServers
<1>2. /\ step = "stopping" /\ up /\ task.kind \in {"start", "restore", "stop", "shutdown"}
      /\ child' = None /\ recovered' = None /\ Db!Saved' = Db!Saved
      /\ UNCHANGED <<settings, connection, custom, data, php, installed, path,
                     accepted, lastGood>>
  BY DEF Db!StopServers, Db!Saved, DbStepFits, KindsAt
<1>3. \/ /\ task.kind = "stop" /\ killed = Db!Stoppable
         /\ step' = "refreshing" /\ task' = task /\ up' /\ desired' = desired
      \/ /\ task.kind = "start" /\ task.new = "refreshed"
         /\ step' = "resetting" /\ task' = task /\ up' /\ desired' = desired
      \/ /\ step' = "idle" /\ task' = Db!NoTask
         /\ desired' = IF task.kind \in {"start", "stop"} THEN task.before ELSE desired
         /\ task.kind = "stop" => killed # Db!Stoppable
         /\ up' = ~(task.kind = "shutdown" /\ killed = Db!Stoppable)
  BY <1>1, <1>2 DEF Db!Goto, Db!Finish, DbStepFits
<1>4. /\ \A e \in {"php", "desired", "settings"} : e \in excused => e \in excused'
      /\ excused' \subseteq Db!Excuses /\ faults' \in 0..MaxFaults
  <2>1. CASE killed = Db!Stoppable
    BY <1>1, <2>1 DEF Db!Forgiven, DbTyped, Db!TypeOK, Db!Excuses
  <2>2. CASE killed # Db!Stoppable
    <3>1. /\ excused' = excused \cup {"stray", "php"}
          /\ faults < MaxFaults /\ faults' = faults + 1
      BY <1>1, <2>2 DEF Db!MarkedWith, Db!Fault
    <3> QED
      BY <3>1 DEF DbTyped, Db!TypeOK, Db!Excuses
  <2> QED
    BY <2>1, <2>2
<1>5. Straight' => \A d \in Dirs : servers'[d] = None
  <2>1. ASSUME Straight, NEW d \in Dirs, Runs(d)
        PROVE  d \in Db!Stoppable
    BY <1>2, <2>1 DEF ServersKnown, Known, Db!Stoppable, Db!Recognised, Runs
  <2>2. CASE killed # Db!Stoppable
    BY <1>1, <2>2 DEF Db!MarkedWith, Straight
  <2>3. CASE killed = Db!Stoppable /\ Straight
    BY <1>1, <2>1, <2>3 DEF Db!Without, Runs
  <2>4. CASE killed = Db!Stoppable /\ ~Straight
    BY <1>1, <2>4 DEF Db!Forgiven, Straight, Db!Nobody
  <2> QED
    BY <2>2, <2>3, <2>4
<1>6. DbTyped'
  <2>1. task' \in Tasks
    BY <1>3, TaskMade DEF Db!NoTask, DbKinds, DbTyped
  <2>2. servers' \in [Dirs -> ServerSet \cup {None}]
    BY <1>1 DEF Db!Without, DbTyped
  <2>3. desired' \in BOOLEAN
    BY <1>3 DEF DbTyped, Db!TypeOK, DbStepFits
  <2>4. pidFile' \in Dirs \cup {None} /\ up' \in BOOLEAN
    BY <1>1 DEF DbTyped, Db!TypeOK
  <2> QED
    BY <1>2, <1>4, <2>1, <2>2, <2>3, <2>4 DEF DbTyped, Db!TypeOK, ServerSet
<1>7. DbStepFits'
  BY <1>2, <1>3 DEF DbStepFits, KindsAt, Db!NoTask
<1>8. DesiredFits'
  <2>1. CASE task' = task /\ desired' = desired
    <3>1. "desired" \notin excused' => "desired" \notin excused
      BY <1>4
    <3> QED
      BY <1>2, <2>1, <3>1, Zenon DEF DesiredFits
  <2>2. CASE task' = Db!NoTask
    <3>1. desired' = IF task.kind \in {"start", "stop"} THEN task.before ELSE desired
      BY <1>2, <1>3, <2>2 DEF Db!NoTask
    <3>2. "desired" \notin excused' => desired' = lastGood
      BY <1>2, <1>4, <3>1 DEF DesiredFits
    <3> QED
      BY <1>2, <2>2, <3>2 DEF DesiredFits, Db!NoTask
  <2> QED
    BY <1>3, <2>1, <2>2
<1>9. Halfway'
  BY <1>2, <1>3, <1>4 DEF Halfway, Db!NoTask
<1>10. DataHeld'
  BY <1>1, <1>2 DEF DataHeld, Runs, Db!Without
<1>11. ServersKnown'
  BY <1>2, <1>5 DEF ServersKnown, Runs
<1>12. PhpFits'
  <2>1. /\ (step' = "resetting" => "php" \in excused')
        /\ task'.kind # "undo" /\ step' # "stopping"
    BY <1>2, <1>3, <1>4 DEF PhpFits, Db!NoTask
  <2>2. ASSUME excused' \cap {"php", "stray"} = {}
        PROVE  /\ killed = Db!Stoppable /\ pidFile' = None
               /\ excused \cap {"php", "stray"} = {}
               /\ ~Db!Stale' /\ Db!Effective' = "system"
    BY <1>1, <2>2 DEF Db!MarkedWith, Db!Forgiven, Db!Stale, Db!Effective, Db!Available
  <2>3. ASSUME excused' \cap {"php", "stray"} = {}, up', step' = "idle"
        PROVE  php' \in {"off", "system"}
    BY <1>2, <1>3, <2>2, <2>3 DEF PhpFits
  <2> QED
    BY <1>3, <2>1, <2>2, <2>3, <1>2 DEF PhpFits
<1>13. Db!StopEndsAll'
  BY <1>1, <1>2, <1>3 DEF Db!StopEndsAll, Db!Without, Db!Stoppable, Db!Recognised, Db!NoTask
<1> QED
  BY <1>6, <1>7, <1>8, <1>9, <1>10, <1>11, <1>12, <1>13

\* PHP follows, and the request succeeds.
LEMMA DbRefresh ==
  ASSUME DbAssumption, DbInv, Db!Refresh
  PROVE  DbInv'
<1> USE DEF DbInv, DbAssumption
<1>1. /\ step = "refreshing" /\ up /\ task.kind \in KindsAt.refreshing
      /\ step' = "idle" /\ task' = Db!NoTask /\ task'.kind = "none"
      /\ php' = Db!Followed /\ data' = Db!Repaired /\ Db!Saved' = Db!Saved
      /\ UNCHANGED <<settings, connection, custom, desired, servers, pidFile,
                     installed, child, recovered, path, up, faults>>
  BY DEF Db!Refresh, Db!Finish, Db!files, Db!supervisor, Db!Saved, DbStepFits, KindsAt,
     Db!NoTask
<1>2. /\ excused' = excused \ (Db!Renewed \cup
                       IF task.kind = "settings" THEN {"settings"}
                       ELSE IF task.kind = "runtime" THEN {} ELSE {"desired"})
      /\ Db!Renewed \subseteq {"php"} /\ (Straight' <=> Straight)
  BY FollowedTyped DEF Db!Refresh, Straight
<1>3. /\ task.kind = "stop" => lastGood' = FALSE
      /\ task.kind \in {"start", "confirm", "restore"} => lastGood' = TRUE
      /\ task.kind \in {"settings", "runtime"} => lastGood' = lastGood
  BY DEF Db!Refresh, Db!Achieved
<1>4. Db!Saved \in Db!Setting
  BY SavedTyped
<1>5. DbTyped'
  <2>1. task' \in Tasks
    BY <1>1, TaskMade DEF Db!NoTask, DbKinds
  <2>2. lastGood' \in BOOLEAN
    BY <1>1, <1>3 DEF KindsAt, DbTyped, Db!TypeOK
  <2>3. accepted' = IF task.kind = "settings" THEN task.new ELSE accepted
    BY DEF Db!Refresh
  <2>4. php' \in Db!Modes \cup {"off"} /\ data' \in [Dirs -> Db!Holds]
    BY <1>1, FollowedTyped, RepairedKeeps
  <2> QED
    BY <1>1, <1>2, <2>1, <2>2, <2>4 DEF DbTyped, Db!TypeOK
<1>6. DbStepFits'
  BY <1>1 DEF DbStepFits, KindsAt, Db!NoTask
<1>7. DesiredFits'
  <2>1. task.kind \in {"start", "confirm", "restore"} => desired' = lastGood'
    BY <1>1, <1>3 DEF DesiredFits
  <2>2. task.kind = "stop" => desired' = lastGood'
    BY <1>1, <1>3 DEF DesiredFits
  <2>3. task.kind \in {"settings", "runtime"} /\ "desired" \notin excused' =>
          desired' = lastGood'
    BY <1>1, <1>2, <1>3 DEF DesiredFits
  <2> QED
    BY <1>1, <2>1, <2>2, <2>3 DEF DesiredFits, KindsAt
<1>8. Halfway'
  <2>1. CASE task.kind = "settings"
    <3>1. settings = task.new /\ connection = task.new.mode /\ task.new \in Db!Setting
      BY <1>1, <2>1 DEF Halfway, DbStepFits
    <3>2. Db!Saved = task.new
      BY <3>1, MergedOwn DEF Db!Saved
    <3> QED
      BY <1>1, <2>1, <3>2 DEF Halfway, Db!Refresh
  <2>2. CASE task.kind # "settings"
    <3>1. accepted' = accepted
      BY <2>2 DEF Db!Refresh
    <3>2. "settings" \notin excused' => "settings" \notin excused
      BY <1>2, <2>2
    <3> QED
      BY <1>1, <2>2, <3>1, <3>2 DEF Halfway, KindsAt
  <2> QED
    BY <2>1, <2>2
<1>9. DataHeld'
  BY <1>1, RepairedKeeps DEF DataHeld, Runs
<1>10. ServersKnown'
  BY <1>1, <1>2 DEF ServersKnown, Runs, Known
<1>11. PhpFits'
  <2>1. ASSUME excused' \cap {"php", "stray"} = {} PROVE ~Db!Stale'
    BY <1>1, <1>2, <2>1 DEF PhpFits, Db!Stale, Db!Renewed
  <2>2. php' \in {"off", Db!Effective'}
    BY <1>1 DEF Db!Followed, Db!Effective, Db!Available, Db!Listens
  <2> QED
    BY <1>1, <2>1, <2>2 DEF PhpFits
<1>12. Db!StopEndsAll'
  BY <1>1 DEF Db!StopEndsAll
<1> QED
  BY <1>5, <1>6, <1>7, <1>8, <1>9, <1>10, <1>11, <1>12

\* A start and new settings are taken back; others end.
LEMMA DbRefreshFails ==
  ASSUME DbAssumption, DbInv, Db!RefreshFails
  PROVE  DbInv'
<1> USE DEF DbInv, DbAssumption
<1>1. /\ step = "refreshing" /\ up /\ task.kind \in KindsAt.refreshing
      /\ php' \in {php, Db!Followed} /\ data' = Db!Repaired
      /\ excused' = excused \cup {"php"}
      /\ Db!Saved' = Db!Saved
      /\ UNCHANGED <<settings, connection, custom, desired, servers, pidFile,
                     installed, child, recovered, path, up, accepted, faults>>
  BY DEF Db!RefreshFails, Db!MarkedWith, Db!files, Db!supervisor, Db!Saved, DbStepFits,
     KindsAt
<1>2. \/ /\ task.kind = "start" /\ step' = "stopping"
         /\ task' = [task EXCEPT !.new = "refreshed"]
         /\ lastGood' = lastGood
      \/ /\ task.kind = "settings" /\ step' = "writing"
         /\ task' = [task EXCEPT !.kind = "undo"]
         /\ lastGood' = lastGood
      \/ /\ task.kind \in {"restore", "confirm", "stop", "runtime"} /\ step' = "idle"
         /\ task' = Db!NoTask
         /\ task.kind = "stop" => lastGood' = FALSE
         /\ task.kind \in {"restore", "confirm"} => lastGood' = TRUE
         /\ task.kind = "runtime" => lastGood' = lastGood
  BY <1>1 DEF Db!RefreshFails, Db!Finish, Db!Achieved, KindsAt
<1>3. /\ \/ /\ step' = "stopping" /\ task.kind = "start" /\ task'.kind = "start"
            /\ task'.before = task.before
         \/ /\ step' = "writing" /\ task.kind = "settings" /\ task'.kind = "undo"
            /\ task'.before = task.before /\ task'.new = task.new
         \/ /\ step' = "idle" /\ task'.kind = "none" /\ task'.new = None
            /\ task.kind \in {"restore", "confirm", "stop", "runtime"}
      /\ task' \in Tasks
  <2>1. task \in [kind : DbKinds, before : BOOLEAN \cup Db!Setting \cup {None},
                  new : Db!Setting \cup {None, "refreshed"}]
    BY DEF DbTyped, Tasks
  <2>2. Db!NoTask \in Tasks /\ Db!NoTask.kind = "none" /\ Db!NoTask.new = None
    BY TaskMade DEF Db!NoTask, DbKinds
  <2> QED
    BY <1>2, <2>1, <2>2, TaskAltered DEF DbTyped
<1>4. Straight' <=> Straight
  BY <1>1 DEF Straight
<1>5. DbTyped'
  <2>1. lastGood' \in BOOLEAN
    BY <1>2 DEF DbTyped, Db!TypeOK
  <2>2. php' \in Db!Modes \cup {"off"} /\ data' \in [Dirs -> Db!Holds]
    BY <1>1, FollowedTyped, RepairedKeeps DEF DbTyped, Db!TypeOK
  <2> QED
    BY <1>1, <1>3, <2>1, <2>2 DEF DbTyped, Db!TypeOK, Db!Excuses
<1>6. DbStepFits'
  BY <1>1, <1>3 DEF DbStepFits, KindsAt
<1>7. DesiredFits'
  <2>1. CASE step' = "idle"
    <3>1. task.kind \in {"restore", "confirm"} => desired' = lastGood'
      BY <1>1, <1>2 DEF DesiredFits
    <3>2. task.kind = "stop" => desired' = lastGood'
      BY <1>1, <1>2, <2>1 DEF DesiredFits
    <3>3. task.kind = "runtime" /\ "desired" \notin excused' => desired' = lastGood'
      BY <1>1, <1>2 DEF DesiredFits
    <3> QED
      BY <1>3, <2>1, <3>1, <3>2, <3>3 DEF DesiredFits
  <2>2. CASE step' = "stopping"
    BY <1>1, <1>2, <1>3, <2>2, Zenon DEF DesiredFits
  <2>3. CASE step' = "writing"
    BY <1>1, <1>2, <1>3, <2>3, Zenon DEF DesiredFits
  <2> QED
    BY <1>3, <2>1, <2>2, <2>3
<1>8. Halfway'
  BY <1>1, <1>3 DEF Halfway
<1>9. DataHeld'
  BY <1>1, RepairedKeeps DEF DataHeld, Runs
<1>10. ServersKnown'
  <2>1. task.kind \in {"settings", "runtime"} /\ Straight => \A d \in Dirs : ~Runs(d)
    BY DEF ServersKnown
  <2> QED
    BY <1>1, <1>3, <1>4, <2>1 DEF ServersKnown, Runs, Known
<1>11. PhpFits'
  BY <1>1 DEF PhpFits
<1>12. Db!StopEndsAll'
  BY <1>3 DEF Db!StopEndsAll
<1> QED
  BY <1>5, <1>6, <1>7, <1>8, <1>9, <1>10, <1>11, <1>12

\* PHP follows what was taken back.
LEMMA DbReset ==
  ASSUME DbAssumption, DbInv, Db!Reset
  PROVE  DbInv'
<1> USE DEF DbInv, DbAssumption
<1>1. /\ step = "resetting" /\ up /\ task.kind \in {"start", "undo"}
      /\ step' = "idle" /\ task' = Db!NoTask /\ task'.kind = "none" /\ data' = Db!Repaired
      /\ Db!Saved' = Db!Saved
      /\ UNCHANGED <<settings, connection, custom, servers, pidFile, installed, child,
                     recovered, path, up, accepted, lastGood, faults>>
  BY DEF Db!Reset, Db!Finish, Db!supervisor, Db!Saved, DbStepFits, KindsAt, Db!NoTask
<1>2. /\ excused' \subseteq excused /\ \A e \in excused : e # "php" => e \in excused'
      /\ php' \in {php, Db!Followed}
      /\ "php" \notin excused' => php' = Db!Followed /\ ~Db!Stale
  BY FollowedTyped DEF Db!Reset, Db!Renewed, PhpFits
<1>3. desired' = IF task.kind = "start" THEN task.before ELSE desired
  BY DEF Db!Reset, Db!TakeBack
<1>4. Straight' <=> Straight
  BY <1>2 DEF Straight
<1>5. DbTyped'
  <2>1. task' \in Tasks
    BY <1>1, TaskMade DEF Db!NoTask, DbKinds
  <2>2. desired' \in BOOLEAN
    BY <1>1, <1>3 DEF DbTyped, Db!TypeOK, DbStepFits
  <2>3. php' \in Db!Modes \cup {"off"} /\ data' \in [Dirs -> Db!Holds]
    BY <1>1, <1>2, FollowedTyped, RepairedKeeps DEF DbTyped, Db!TypeOK
  <2> QED
    BY <1>1, <1>2, <2>1, <2>2, <2>3 DEF DbTyped, Db!TypeOK
<1>6. DbStepFits'
  BY <1>1 DEF DbStepFits, KindsAt, Db!NoTask
<1>7. DesiredFits'
  <2>1. "desired" \notin excused' => "desired" \notin excused
    BY <1>2
  <2>2. "desired" \notin excused' => desired' = lastGood
    BY <1>1, <1>3, <2>1 DEF DesiredFits
  <2> QED
    BY <1>1, <2>2 DEF DesiredFits
<1>8. Halfway'
  <2>1. CASE task.kind = "undo"
    <3>1. /\ settings = task.before
          /\ connection = task.before.mode /\ task.before \in Db!Setting
      BY <1>1, <2>1 DEF Halfway, DbStepFits
    <3>2. Db!Saved = task.before
      BY <3>1, MergedOwn DEF Db!Saved
    <3> QED
      BY <1>1, <1>2, <2>1, <3>2 DEF Halfway
  <2>2. CASE task.kind = "start"
    BY <1>1, <1>2, <2>2 DEF Halfway
  <2> QED
    BY <1>1, <2>1, <2>2
<1>9. DataHeld'
  BY <1>1, RepairedKeeps DEF DataHeld, Runs
<1>10. ServersKnown'
  BY <1>1, <1>4 DEF ServersKnown, Runs, Known
<1>11. PhpFits'
  <2>1. "php" \notin excused' => php' \in {"off", Db!Effective'} /\ ~Db!Stale'
    BY <1>1, <1>2 DEF Db!Followed, Db!Effective, Db!Available, Db!Listens, Db!Stale
  <2> QED
    BY <1>1, <2>1 DEF PhpFits
<1>12. Db!StopEndsAll'
  BY <1>1 DEF Db!StopEndsAll
<1> QED
  BY <1>5, <1>6, <1>7, <1>8, <1>9, <1>10, <1>11, <1>12

\* The first of the two settings files is written, forth or back.
LEMMA DbWriteSettings ==
  ASSUME DbAssumption, DbInv, Db!WriteSettings
  PROVE  DbInv'
<1> USE DEF DbInv, DbAssumption, Db!WriteSettings, Db!Target, Db!Goto, Db!supervisor,
   Db!history
<1>1. DbTyped'
  BY DEF DbTyped, Db!TypeOK, Tasks, DbStepFits
<1>2. DbStepFits'
  BY DEF DbStepFits, KindsAt
<1>3. DesiredFits'
  BY DEF DesiredFits
<1>4. Halfway'
  BY DEF Halfway, DbStepFits, KindsAt
<1>5. DataHeld'
  BY DEF DataHeld, Runs
<1>6. ServersKnown'
  BY DEF ServersKnown, Straight, Runs
<1>7. PhpFits'
  BY DEF PhpFits, Db!Stale, Db!Effective, Db!Available, Db!Listens, ServersKnown, Straight,
     Runs
<1>8. Db!StopEndsAll'
  BY DEF Db!StopEndsAll
<1> QED
  BY <1>1, <1>2, <1>3, <1>4, <1>5, <1>6, <1>7, <1>8

\* The second one makes them agree.
LEMMA DbWriteConnection ==
  ASSUME DbAssumption, DbInv, Db!WriteConnection
  PROVE  DbInv'
<1> USE DEF DbInv, DbAssumption, Db!WriteConnection, Db!Target, Db!Goto, Db!supervisor,
   Db!history
<1>1. DbTyped'
  BY DEF DbTyped, Db!TypeOK, DbStepFits, KindsAt, Db!Setting
<1>2. DbStepFits'
  BY DEF DbStepFits, KindsAt
<1>3. DesiredFits'
  BY DEF DesiredFits
<1>4. Halfway'
  BY DEF Halfway, DbStepFits, KindsAt
<1>5. DataHeld'
  BY DEF DataHeld, Runs
<1>6. ServersKnown'
  BY DEF ServersKnown, Straight, Runs
<1>7. PhpFits'
  BY DEF PhpFits, Db!Stale
<1>8. Db!StopEndsAll'
  BY DEF Db!StopEndsAll, DbStepFits, KindsAt
<1> QED
  BY <1>1, <1>2, <1>3, <1>4, <1>5, <1>6, <1>7, <1>8

\* A failed write leaves the files as they are.
LEMMA DbWriteFails ==
  ASSUME DbAssumption, DbInv, Db!WriteFails
  PROVE  DbInv'
<1> USE DEF DbInv, DbAssumption, Db!WriteFails, Db!Fault, Db!Interrupted, Db!MarkedWith,
   Db!Finish, Db!supervisor, Db!NoTask
<1>1. DbTyped'
  BY DEF DbTyped, Db!TypeOK, Tasks, DbKinds, Db!Excuses
<1>2. DbStepFits'
  BY DEF DbStepFits, KindsAt
<1>3. DesiredFits'
  BY DEF DesiredFits, DbStepFits, KindsAt
<1>4. Halfway'
  BY DEF Halfway
<1>5. DataHeld'
  BY DEF DataHeld, Runs
<1>6. ServersKnown'
  BY DEF ServersKnown, Straight, Runs
<1>7. PhpFits'
  BY DEF PhpFits, Db!Stale, Db!Effective, Db!Available, Db!Listens, ServersKnown, Straight,
     Runs
<1>8. Db!StopEndsAll'
  BY DEF Db!StopEndsAll
<1> QED
  BY <1>1, <1>2, <1>3, <1>4, <1>5, <1>6, <1>7, <1>8

\* PHP starts with the connection there is.
LEMMA DbStartWeb ==
  ASSUME DbAssumption, DbInv, Db!StartWeb
  PROVE  DbInv'
<1> USE DEF DbInv, DbAssumption, Db!StartWeb, Db!Idle, Db!files, Db!supervisor
<1>1. Db!Saved \in Db!Setting /\ Db!Saved' = Db!Saved
  BY SavedTyped DEF Db!Saved
<1>2. /\ Db!Repaired \in [Dirs -> Db!Holds]
      /\ \A x \in Dirs : data[x] = "database" <=> Db!Repaired[x] = "database"
  BY RepairedKeeps
<1>3. /\ Db!Followed \in Db!Modes \cup {"off"}
      /\ Db!Effective \in Db!Modes /\ Db!Renewed \subseteq {"php"}
  BY FollowedTyped
<1>4. DbTyped'
  BY <1>2, <1>3 DEF DbTyped, Db!TypeOK
<1>5. DbStepFits'
  BY DEF DbStepFits
<1>6. DesiredFits'
  BY <1>3 DEF DesiredFits
<1>7. Halfway'
  BY <1>1, <1>3 DEF Halfway
<1>8. DataHeld'
  BY <1>2 DEF DataHeld, Runs
<1>9. ServersKnown'
  BY <1>1, <1>3 DEF ServersKnown, Straight, Runs, Known
<1>10. PhpFits'
  BY <1>1 DEF PhpFits, Db!Stale, Db!Effective, Db!Available, Db!Listens, Db!Renewed,
     DbStepFits, KindsAt
<1>11. Db!StopEndsAll'
  BY DEF Db!StopEndsAll
<1> QED
  BY <1>4, <1>5, <1>6, <1>7, <1>8, <1>9, <1>10, <1>11

\* PHP stops.
LEMMA DbStopWeb ==
  ASSUME DbAssumption, DbInv, Db!StopWeb
  PROVE  DbInv'
<1> USE DEF DbInv, DbAssumption, Db!StopWeb, Db!Idle, Db!files, Db!supervisor, Db!history
<1>1. Db!Saved \in Db!Setting /\ Db!Saved' = Db!Saved
  BY SavedTyped DEF Db!Saved
<1>2. DbTyped'
  BY DEF DbTyped, Db!TypeOK
<1>3. DbStepFits'
  BY DEF DbStepFits
<1>4. DesiredFits'
  BY DEF DesiredFits
<1>5. Halfway'
  BY <1>1 DEF Halfway
<1>6. DataHeld'
  BY DEF DataHeld, Runs
<1>7. ServersKnown'
  BY <1>1 DEF ServersKnown, Straight, Runs, Known
<1>8. PhpFits'
  BY DEF PhpFits, Db!Stale
<1>9. Db!StopEndsAll'
  BY DEF Db!StopEndsAll
<1> QED
  BY <1>2, <1>3, <1>4, <1>5, <1>6, <1>7, <1>8, <1>9

\* A new Runtime needs a stopped server.
LEMMA DbInstallRuntime ==
  ASSUME DbAssumption, DbInv, Db!InstallRuntime
  PROVE  DbInv'
<1> USE DEF DbInv, DbAssumption, Db!InstallRuntime, Db!Idle, Db!Begin, Db!files, Db!history
<1>1. Db!Saved \in Db!Setting /\ Db!Saved' = Db!Saved
  BY SavedTyped DEF Db!Saved
<1>2. Straight /\ step = "idle" /\ up /\ ~Db!StatusRunning => \A x \in Dirs : ~Runs(x)
  BY NothingRuns
<1>3. /\ Db!RecoveredNow \in Dirs \cup {None}
      /\ (Db!RecoveredNow # None => Runs(Db!RecoveredNow))
      /\ Db!RecoveredPid(TRUE) \in Dirs \cup {None}
      /\ Db!RecoveredPid(installed) \in Dirs \cup {None}
  BY RecoveredTyped
<1>4. DbTyped'
  <2>1. task' \in Tasks
    BY <1>1, TaskMade, TaskAltered DEF DbTyped, Db!TypeOK, DbKinds, Db!NoTask
  <2>2. servers' \in [Dirs -> ServerSet \cup {None}] /\ data' \in [Dirs -> Db!Holds]
    BY DEF DbTyped, Db!TypeOK
  <2>3. /\ excused' \subseteq Db!Excuses /\ faults' \in 0..MaxFaults
        /\ up' \in BOOLEAN /\ installed' \in BOOLEAN /\ lastGood' \in BOOLEAN
        /\ desired' \in BOOLEAN
        /\ settings' \in Db!Setting \cup {None} /\ connection' \in Db!Modes \cup {None}
        /\ custom' \in Configs \cup {Template, None}
        /\ php' \in Db!Modes \cup {"off"} /\ path' \in {"current", "version"}
    BY DEF DbTyped, Db!TypeOK
  <2>4. {pidFile', child', recovered'} \subseteq Dirs \cup {None}
    <3>1. recovered' = Db!RecoveredPid(TRUE) /\ child' = None /\ pidFile' = pidFile
      BY Zenon DEF Db!InstallRuntime
    <3> QED
      BY <1>3, <3>1 DEF DbTyped, Db!TypeOK
  <2> QED
    BY <2>1, <2>2, <2>3, <2>4 DEF DbTyped, Db!TypeOK, ServerSet
<1>5. DbStepFits'
  BY DEF DbStepFits, KindsAt
<1>6. DesiredFits'
  BY DEF DesiredFits, DbStepFits, KindsAt
<1>7. Halfway'
  BY <1>1 DEF Halfway, DbStepFits, KindsAt
<1>8. DataHeld'
  BY DEF DataHeld, Runs
<1>9. ServersKnown'
  BY <1>2 DEF ServersKnown, Straight, Runs
<1>10. PhpFits'
  BY DEF PhpFits, Db!Stale
<1>11. Db!StopEndsAll'
  BY DEF Db!StopEndsAll
<1> QED
  BY <1>4, <1>5, <1>6, <1>7, <1>8, <1>9, <1>10, <1>11

\* So does its removal.
LEMMA DbRemoveRuntime ==
  ASSUME DbAssumption, DbInv, Db!RemoveRuntime
  PROVE  DbInv'
<1> USE DEF DbInv, DbAssumption
<1>1. /\ step = "idle" /\ up /\ task.kind = "none" /\ ~Db!StatusRunning
      /\ child' = None /\ Db!Saved' = Db!Saved
      /\ UNCHANGED <<settings, connection, custom, data, servers, pidFile, php, up,
                     accepted, excused, faults>>
  BY DEF Db!RemoveRuntime, Db!Idle, Db!Saved, DbStepFits, KindsAt
<1>2. desired' = FALSE /\ lastGood' = FALSE
  BY DEF Db!RemoveRuntime
<1>3. \/ /\ installed' = FALSE /\ path' = "current" /\ recovered' = None
         /\ step' = "refreshing"
         /\ task' = [kind |-> "runtime", before |-> desired, new |-> None]
         /\ task'.kind = "runtime" /\ task'.new = None
      \/ UNCHANGED <<installed, path, recovered, step, task>>
  BY DEF Db!RemoveRuntime, Db!Begin
<1>4. Straight => \A d \in Dirs : ~Runs(d)
  BY <1>1, NothingRuns
<1>5. DbTyped'
  <2>1. task' \in Tasks
    BY <1>3, TaskMade DEF DbKinds, DbTyped, Db!TypeOK
  <2>2. /\ installed' \in BOOLEAN
        /\ path' \in {"current", "version"} /\ recovered' \in Dirs \cup {None}
    BY <1>3 DEF DbTyped, Db!TypeOK
  <2>3. desired' \in BOOLEAN /\ lastGood' \in BOOLEAN
    BY <1>2
  <2> QED
    BY <1>1, <2>1, <2>2, <2>3 DEF DbTyped, Db!TypeOK
<1>6. DbStepFits'
  BY <1>1, <1>3 DEF DbStepFits, KindsAt
<1>7. DesiredFits'
  <2>1. task'.kind \in {"runtime", "none"} /\ desired' = lastGood'
    BY <1>1, <1>2, <1>3
  <2> QED
    BY <2>1 DEF DesiredFits
<1>8. Halfway'
  BY <1>1, <1>3 DEF Halfway
<1>9. DataHeld'
  BY <1>1 DEF DataHeld, Runs
<1>10. ServersKnown'
  BY <1>1, <1>4 DEF ServersKnown, Runs, Straight
<1>11. PhpFits'
  BY <1>1, <1>3 DEF PhpFits, Db!Stale, Db!Effective, Db!Available, Db!Listens
<1>12. Db!StopEndsAll'
  BY <1>1, <1>3 DEF Db!StopEndsAll
<1> QED
  BY <1>5, <1>6, <1>7, <1>8, <1>9, <1>10, <1>11, <1>12

\* The Agent ends in the middle of anything; servers live on.
LEMMA DbCrash ==
  ASSUME DbAssumption, DbInv, Db!Crash
  PROVE  DbInv'
<1> USE DEF DbInv, DbAssumption
<1>1. /\ step' = "idle" /\ task' = Db!NoTask /\ task'.kind = "none" /\ up' = FALSE
      /\ settings' \in {settings, None} /\ connection' \in {connection, None}
      /\ faults' \in 0..MaxFaults
      /\ UNCHANGED <<custom, desired, servers, pidFile, php, installed, child,
                     recovered, path, accepted, lastGood>>
  BY DEF Db!Crash, Db!Finish, Db!NoTask, Db!Interrupted, Db!supervisor, Db!Fault, DbTyped,
     Db!TypeOK
<1>2. /\ excused \subseteq excused' /\ excused' \subseteq Db!Excuses
      /\ step # "idle" => {"desired", "php"} \subseteq excused'
      /\ task.kind \in {"settings", "undo"} => "settings" \in excused'
      /\ Straight' => Straight /\ \A d \in Dirs : Runs(d) => servers[d].ready
  BY DEF Db!Crash, Db!MarkedWith, DbTyped, Db!TypeOK, Db!Excuses, Straight, Runs
<1>3. task.kind \notin {"settings", "undo"} =>
        UNCHANGED <<settings, connection>> /\ Db!Saved' = Db!Saved
  BY DEF Db!Crash, DbStepFits, KindsAt, Db!Saved
<1>4. /\ data' \in [Dirs -> Db!Holds]
      /\ \A d \in Dirs : data[d] = "database" => data'[d] = "database"
  <2>1. Db!Saved.dir \in Dirs
    BY SavedTyped DEF Db!Setting
  <2>2. step = "initialising" => data[Db!Saved.dir] # "database"
    BY DEF DbStepFits
  <2> QED
    BY <2>1, <2>2 DEF Db!Crash, DbTyped, Db!TypeOK, Db!Holds
<1>5. DbTyped'
  <2>1. task' \in Tasks
    BY <1>1, TaskMade DEF Db!NoTask, DbKinds
  <2>2. up' \in BOOLEAN
    BY <1>1
  <2> QED
    BY <1>1, <1>2, <1>4, <2>1, <2>2 DEF DbTyped, Db!TypeOK
<1>6. DbStepFits'
  BY <1>1 DEF DbStepFits, KindsAt, Db!NoTask
<1>7. DesiredFits'
  <2>1. "desired" \notin excused' => step = "idle" /\ "desired" \notin excused
    BY <1>2
  <2>2. "desired" \notin excused' => desired' = lastGood'
    BY <1>1, <2>1 DEF DesiredFits, DbStepFits, KindsAt
  <2> QED
    BY <1>1, <2>2 DEF DesiredFits
<1>8. Halfway'
  BY <1>1, <1>2, <1>3 DEF Halfway
<1>9. DataHeld'
  BY <1>1, <1>4 DEF DataHeld, Runs
<1>10. ServersKnown'
  BY <1>1, <1>2, <1>3 DEF ServersKnown, Runs
<1>11. PhpFits'
  BY <1>1, <1>2 DEF PhpFits, Db!Stale
<1>12. Db!StopEndsAll'
  BY <1>1 DEF Db!StopEndsAll
<1> QED
  BY <1>5, <1>6, <1>7, <1>8, <1>9, <1>10, <1>11, <1>12

\* A new Agent takes over what the pid file leads to.
LEMMA DbBoot ==
  ASSUME DbAssumption, DbInv, Db!Boot
  PROVE  DbInv'
<1> USE DEF DbInv, DbAssumption, Db!Boot, Db!files
<1>1. Db!Saved \in Db!Setting /\ Db!Saved' = Db!Saved
  BY SavedTyped DEF Db!Saved
<1>2. /\ Db!RecoveredNow \in Dirs \cup {None}
      /\ (Db!RecoveredNow # None => Runs(Db!RecoveredNow))
      /\ Db!RecoveredPid(TRUE) \in Dirs \cup {None}
      /\ Db!RecoveredPid(installed) \in Dirs \cup {None}
  BY RecoveredTyped
<1>3. /\ Db!Followed \in Db!Modes \cup {"off"}
      /\ Db!Effective \in Db!Modes /\ Db!Renewed \subseteq {"php"}
  BY FollowedTyped
<1>4. DbTyped'
  BY <1>2 DEF DbTyped, Db!TypeOK
<1>5. DbStepFits'
  BY DEF DbStepFits
<1>6. DesiredFits'
  BY <1>3 DEF DesiredFits
<1>7. Halfway'
  BY <1>1, <1>3 DEF Halfway, DbStepFits
<1>8. DataHeld'
  BY DEF DataHeld, Runs
<1>9. ServersKnown'
  <2>1. /\ child' = None /\ recovered' = Db!RecoveredPid(installed)
        /\ step = "idle" /\ step' = "idle"
        /\ task' = task /\ (Straight' <=> Straight)
        /\ UNCHANGED <<settings, connection, custom, servers, pidFile, installed>>
    BY <1>3 DEF DbStepFits, Straight
  <2>2. ASSUME Straight, NEW d \in Dirs, Runs(d)
        PROVE  Windows \/ recovered' = d
    BY <2>1, <2>2 DEF ServersKnown, Db!RecoveredPid, Runs
  <2> QED
    BY <1>1, <2>1, <2>2 DEF ServersKnown, Runs, Known, Straight
<1>10. PhpFits'
  BY DEF PhpFits, Db!Stale, Db!Renewed, DbStepFits, KindsAt
<1>11. Db!StopEndsAll'
  BY DEF Db!StopEndsAll, DbStepFits
<1> QED
  BY <1>4, <1>5, <1>6, <1>7, <1>8, <1>9, <1>10, <1>11

\* New settings are accepted while nothing runs.
LEMMA DbSaveSettings ==
  ASSUME DbAssumption, DbInv, NEW new \in Choices, Db!SaveSettings(new)
  PROVE  DbInv'
<1> USE DEF DbInv, DbAssumption, Db!SaveSettings, Db!Idle, Db!files, Db!history
<1>1. Db!Saved \in Db!Setting /\ Db!Saved' = Db!Saved
  BY SavedTyped DEF Db!Saved
<1>2. /\ Db!Repaired \in [Dirs -> Db!Holds]
      /\ \A x \in Dirs : data[x] = "database" <=> Db!Repaired[x] = "database"
  BY RepairedKeeps
<1>3. Straight /\ step = "idle" /\ up /\ ~Db!StatusRunning => \A x \in Dirs : ~Runs(x)
  BY NothingRuns
<1>4. Db!Untracked => ~Db!StatusRunning
  BY UntrackedStopped
<1>5. DbTyped'
  BY <1>1, <1>2 DEF DbTyped, Db!TypeOK, Tasks, DbKinds
<1>6. DbStepFits'
  BY <1>1 DEF DbStepFits, KindsAt
<1>7. DesiredFits'
  BY DEF DesiredFits, DbStepFits, KindsAt
<1>8. Halfway'
  BY DEF Halfway, DbStepFits, KindsAt
<1>9. DataHeld'
  BY <1>2 DEF DataHeld, Runs
<1>10. ServersKnown'
  BY <1>3, <1>4 DEF ServersKnown, Straight, Runs
<1>11. PhpFits'
  BY <1>1 DEF PhpFits, Db!Stale, Db!Effective, Db!Available, Db!Listens
<1>12. Db!StopEndsAll'
  BY DEF Db!StopEndsAll
<1> QED
  BY <1>5, <1>6, <1>7, <1>8, <1>9, <1>10, <1>11, <1>12

\* The same goes for the user's my.cnf.
LEMMA DbSaveConfig ==
  ASSUME DbAssumption, DbInv, NEW c \in Configs, Db!SaveConfig(c)
  PROVE  DbInv'
<1> USE DEF DbInv, DbAssumption, Db!SaveConfig, Db!Idle, Db!Interrupted, Db!Fault,
   Db!history
<1>1. Db!Saved \in Db!Setting /\ Db!Saved' = Db!Saved
  BY SavedTyped DEF Db!Saved
<1>2. /\ Db!Repaired \in [Dirs -> Db!Holds]
      /\ \A x \in Dirs : data[x] = "database" <=> Db!Repaired[x] = "database"
  BY RepairedKeeps
<1>3. Straight /\ step = "idle" /\ up /\ ~Db!StatusRunning => \A x \in Dirs : ~Runs(x)
  BY NothingRuns
<1>4. Db!Untracked => ~Db!StatusRunning
  BY UntrackedStopped
<1>5. DbTyped'
  BY <1>2 DEF DbTyped, Db!TypeOK
<1>6. DbStepFits'
  BY DEF DbStepFits
<1>7. DesiredFits'
  BY DEF DesiredFits
<1>8. Halfway'
  BY <1>1 DEF Halfway
<1>9. DataHeld'
  BY <1>2 DEF DataHeld, Runs
<1>10. ServersKnown'
  BY <1>3, <1>4 DEF ServersKnown, Straight, Runs
<1>11. PhpFits'
  BY <1>1 DEF PhpFits, Db!Stale, Db!Effective, Db!Available, Db!Listens
<1>12. Db!StopEndsAll'
  BY DEF Db!StopEndsAll
<1> QED
  BY <1>5, <1>6, <1>7, <1>8, <1>9, <1>10, <1>11, <1>12

\* A server becomes ready.
LEMMA DbReady ==
  ASSUME DbAssumption, DbInv, NEW d \in Dirs, Db!Ready(d)
  PROVE  DbInv'
<1> USE DEF DbInv, DbAssumption, Db!Ready, Db!files, Db!supervisor
<1>1. Db!Saved \in Db!Setting /\ Db!Saved' = Db!Saved
  BY SavedTyped DEF Db!Saved
<1>2. DbTyped'
  <2>1. task' \in Tasks
    BY <1>1, TaskMade, TaskAltered DEF DbTyped, Db!TypeOK, DbKinds, Db!NoTask
  <2>2. servers' \in [Dirs -> ServerSet \cup {None}] /\ data' \in [Dirs -> Db!Holds]
    <3>1. [servers[d] EXCEPT !.ready = TRUE] \in ServerSet
      BY DEF DbTyped, ServerSet
    <3> QED
      BY <3>1 DEF DbTyped, Db!TypeOK
  <2>3. /\ excused' \subseteq Db!Excuses /\ faults' \in 0..MaxFaults
        /\ {pidFile', child', recovered'} \subseteq Dirs \cup {None}
        /\ up' \in BOOLEAN /\ installed' \in BOOLEAN /\ lastGood' \in BOOLEAN
        /\ settings' \in Db!Setting \cup {None} /\ connection' \in Db!Modes \cup {None}
        /\ custom' \in Configs \cup {Template, None}
        /\ php' \in Db!Modes \cup {"off"} /\ path' \in {"current", "version"}
        /\ desired' \in BOOLEAN
    BY DEF DbTyped, Db!TypeOK, Db!Excuses
  <2> QED
    BY <2>1, <2>2, <2>3 DEF DbTyped, Db!TypeOK, ServerSet
<1>3. DbStepFits'
  BY <1>1 DEF DbStepFits
<1>4. DesiredFits'
  BY DEF DesiredFits
<1>5. Halfway'
  BY <1>1 DEF Halfway, Db!Target
<1>6. DataHeld'
  BY DEF DataHeld, Runs
<1>7. ServersKnown'
  BY <1>1 DEF ServersKnown, Straight, Runs, Known
<1>8. PhpFits'
  <2>1. /\ pidFile' = d /\ servers'[d] # None /\ UNCHANGED <<php, step, task, up>>
        /\ excused' = IF step = "waiting" THEN excused ELSE excused \cup {"php"}
    BY DEF DbTyped, ServerSet
  <2> QED
    BY <2>1 DEF PhpFits, Db!Stale
<1>9. Db!StopEndsAll'
  BY DEF Db!StopEndsAll
<1> QED
  BY <1>2, <1>3, <1>4, <1>5, <1>6, <1>7, <1>8, <1>9

\* A server ends by itself.
LEMMA DbEnds ==
  ASSUME DbAssumption, DbInv, NEW d \in Dirs, Db!Ends(d)
  PROVE  DbInv'
<1> USE DEF DbInv, DbAssumption, Db!Ends, Db!Fault, Db!Forgiven, Db!files, Db!supervisor,
   Db!Nobody
<1>1. Db!Saved \in Db!Setting /\ Db!Saved' = Db!Saved
  BY SavedTyped DEF Db!Saved
<1>2. DbTyped'
  BY DEF DbTyped, Db!TypeOK, Db!Excuses
<1>3. DbStepFits'
  BY <1>1 DEF DbStepFits
<1>4. DesiredFits'
  BY DEF DesiredFits
<1>5. Halfway'
  BY <1>1 DEF Halfway, Db!Target
<1>6. DataHeld'
  BY DEF DataHeld, Runs
<1>7. ServersKnown'
  BY DEF DbTyped, ServersKnown, Straight, Runs
<1>8. PhpFits'
  BY DEF PhpFits
<1>9. Db!StopEndsAll'
  BY DEF Db!StopEndsAll
<1> QED
  BY <1>2, <1>3, <1>4, <1>5, <1>6, <1>7, <1>8, <1>9

\* Nothing runs at first.
LEMMA DbInit == DbAssumption /\ Db!Init => DbInv
<1> SUFFICES ASSUME DbAssumption, Db!Init PROVE DbInv
  OBVIOUS
<1>1. Db!Saved = DefaultSettings
  BY DEF Db!Init, Db!Saved, Db!Merged
<1>2. DbTyped
  <2>1. task \in Tasks
    BY TaskMade DEF Db!Init, Db!NoTask, DbKinds
  <2>2. servers \in [Dirs -> ServerSet \cup {None}] /\ data \in [Dirs -> Db!Holds]
    BY DEF Db!Init, Db!Nobody, Db!Holds
  <2>3. /\ desired \in BOOLEAN
        /\ up \in BOOLEAN /\ installed \in BOOLEAN /\ lastGood \in BOOLEAN
    BY DEF Db!Init
  <2>4. /\ settings \in Db!Setting \cup {None} /\ connection \in Db!Modes \cup {None}
        /\ custom \in Configs \cup {Template, None} /\ php \in Db!Modes \cup {"off"}
        /\ {pidFile, child, recovered} \subseteq Dirs \cup {None}
        /\ path \in {"current", "version"}
        /\ excused \subseteq Db!Excuses /\ faults \in 0..MaxFaults
    BY DEF Db!Init, DbAssumption
  <2>5. \A d \in Dirs : servers[d] \in {None} \cup
          [port : Nat, custom : Configs \cup {Template}, path : {"current", "version"},
           ready : BOOLEAN]
    BY DEF Db!Init, Db!Nobody
  <2>6. {up, installed, lastGood} \subseteq BOOLEAN
    BY <2>3
  <2>7. Db!TypeOK
    BY <2>2, <2>3, <2>4, <2>5, <2>6, Zenon DEF Db!TypeOK
  <2> QED
    BY <2>1, <2>2, <2>7, Zenon DEF DbTyped
<1>3. DbStepFits /\ DesiredFits /\ Halfway
  <2>1. task.kind = "none" /\ task.new # "refreshed" /\ step = "idle"
    BY DEF Db!Init, Db!NoTask, DbAssumption
  <2>2. DbStepFits
    BY <2>1 DEF DbStepFits, KindsAt
  <2>3. DesiredFits
    BY <2>1 DEF Db!Init, DesiredFits
  <2>4. Halfway
    BY <1>1, <2>1 DEF Db!Init, Halfway
  <2> QED
    BY <2>2, <2>3, <2>4
<1>4. DataHeld /\ ServersKnown /\ PhpFits /\ Db!StopEndsAll
  BY DEF Db!Init, DataHeld, ServersKnown, Runs, Db!Nobody, PhpFits, Db!Stale,
     Db!StopEndsAll, Db!NoTask
<1> QED
  BY <1>2, <1>3, <1>4 DEF DbInv

\* DbInv is inductive.
LEMMA DbStep == DbAssumption /\ DbInv /\ [Db!Next]_Db!vars => DbInv'
<1> SUFFICES ASSUME DbAssumption, DbInv, [Db!Next]_Db!vars PROVE DbInv'
  OBVIOUS
<1>1. CASE UNCHANGED Db!vars
  <2>1. UNCHANGED <<settings, connection, custom, desired, data, servers, pidFile,
                    php, installed, child, recovered, path, up, step, task, accepted,
                    lastGood, excused, faults>>
    BY <1>1 DEF Db!vars, Db!files, Db!supervisor, Db!history
  <2>2. DbTyped' /\ DbStepFits' /\ DesiredFits' /\ Halfway'
    BY <2>1 DEF DbInv, DbTyped, Db!TypeOK, DbStepFits, DesiredFits, Halfway, Db!Saved,
       Db!Target
  <2>3. DataHeld' /\ ServersKnown' /\ PhpFits' /\ Db!StopEndsAll'
    BY <2>1 DEF DbInv, DataHeld, ServersKnown, Runs, Straight, Known, Db!Saved, PhpFits,
       Db!Stale,
                Db!Effective, Db!Available, Db!Listens, Db!StopEndsAll
  <2> QED
    BY <2>2, <2>3 DEF DbInv
<1>2. CASE Db!Start \/ Db!Restore \/ Db!Prepare \/ Db!PrepareFails \/ Db!Initialise
           \/ Db!Launch \/ Db!LaunchFails
           \/ Db!Await \/ Db!AwaitFails
  BY <1>2, DbStart, DbRestore, DbPrepare, DbPrepareFails, DbInitialise, DbLaunch,
     DbLaunchFails,
     DbAwait, DbAwaitFails
<1>3. CASE Db!Stop \/ Db!Shutdown \/ Db!StopServers \/ Db!Refresh \/ Db!RefreshFails
           \/ Db!Reset
  BY <1>3, DbStop, DbShutdown, DbStopServers, DbRefresh, DbRefreshFails, DbReset
<1>4. ASSUME NEW new \in Choices, Db!SaveSettings(new) PROVE DbInv'
  BY <1>4, DbSaveSettings
<1>5. CASE Db!WriteSettings \/ Db!WriteConnection \/ Db!WriteFails
  BY <1>5, DbWriteSettings, DbWriteConnection, DbWriteFails
<1>6. ASSUME NEW c \in Configs, Db!SaveConfig(c) PROVE DbInv'
  BY <1>6, DbSaveConfig
<1>7. CASE Db!StartWeb \/ Db!StopWeb \/ Db!InstallRuntime \/ Db!RemoveRuntime
           \/ Db!Crash \/ Db!Boot
  BY <1>7, DbStartWeb, DbStopWeb, DbInstallRuntime, DbRemoveRuntime, DbCrash, DbBoot
<1>8. ASSUME NEW d \in Dirs, Db!Ready(d) \/ Db!Ends(d) PROVE DbInv'
  BY <1>8, DbReady, DbEnds
<1> QED
  BY <1>1, <1>2, <1>3, <1>4, <1>5, <1>6, <1>7, <1>8 DEF Db!Next

\* DbInv is an invariant.
LEMMA DbInvariance ==
  ASSUME DbAssumption
  PROVE  Db!Spec => []DbInv
<1>1. Db!Init => DbInv
  BY DbInit
<1>2. DbInv /\ [Db!Next]_Db!vars => DbInv'
  BY DbStep
<1> QED
  BY <1>1, <1>2, PTL DEF Db!Spec

\* Cardinality means the same in the instance.
LEMMA Counted == \A S : Db!Cardinality(S) = Cardinality(S)
BY DEF Db!Cardinality, Cardinality

\* What DbInv says of the checked properties.
LEMMA DbInvMeans ==
  ASSUME DbAssumption, DbInv
  PROVE  Db!RunsAsSaved /\ Db!StopEndsAll
<1>1. Db!DesiredRemembers
  BY DEF DbInv, Db!DesiredRemembers, DesiredFits, DbStepFits, KindsAt
<1>2. Db!RunsWhatIsSaved
  BY DEF DbInv, DbTyped, Db!TypeOK, Db!RunsWhatIsSaved, ServersKnown, Straight, Runs
<1>3. Db!SettingsAreAccepted
  BY DEF DbInv, Db!SettingsAreAccepted, Halfway, DbStepFits, KindsAt
<1>4. Db!OneServer
  <2>1. SUFFICES ASSUME Straight
                 PROVE  Cardinality({d \in Dirs : servers[d] # None}) <= 1
    BY Counted DEF Db!OneServer, Straight
  <2> DEFINE running == {d \in Dirs : servers[d] # None}
  <2>2. running = {} \/ running = {Db!Saved.dir}
    BY <2>1 DEF DbInv, ServersKnown, Runs
  <2>3. Cardinality(running) <= 1
    <3>1. CASE running = {}
      BY <3>1, FS_EmptySet
    <3>2. CASE running = {Db!Saved.dir}
      <4>1. Cardinality({Db!Saved.dir}) = 1
        BY FS_Singleton
      <4> QED
        BY <3>2, <4>1
    <3> QED
      BY <2>2, <3>1, <3>2
  <2> QED
    BY <2>3
<1>5. Db!PhpFollows
  BY DEF DbInv, Db!PhpFollows, PhpFits
<1> QED
  BY <1>1, <1>2, <1>3, <1>4, <1>5 DEF Db!RunsAsSaved, DbInv

\* The wish is that of the last success; a server that runs was started with what is saved,
\* and is the only one; the settings files hold what was accepted last; PHP connects to
\* what there is: each but for what a fault has left apart (MariaDb; the requests of the
\* service supervisor).
THEOREM DatabaseRunsAsSaved ==
  ASSUME DbAssumption
  PROVE  Db!Spec => []Db!RunsAsSaved
<1>1. DbInv => Db!RunsAsSaved
  BY DbInvMeans
<1> QED
  BY <1>1, DbInvariance, PTL

\* A stop that succeeds leaves no server; on Unix one launched from another Runtime path
\* is missed (MariaDb).
THEOREM DatabaseStopEndsAll ==
  ASSUME DbAssumption
  PROVE  Db!Spec => []Db!StopEndsAll
<1>1. DbInv => Db!StopEndsAll
  BY DbInvMeans
<1> QED
  BY <1>1, DbInvariance, PTL

\* MariaDb is type-correct.
THEOREM DatabaseTypeCorrect ==
  ASSUME DbAssumption
  PROVE  Db!Spec => []Db!TypeOK
<1>1. DbInv => Db!TypeOK
  BY DEF DbInv, DbTyped
<1> QED
  BY <1>1, DbInvariance, PTL
=============================================================================
