---------------------------- MODULE AgentLifecycle ----------------------------
(***************************************************************************)
(* The Agent processes, the endpoint they listen at, and those who talk to *)
(* them: requests of the Desktop (its windows and its tray), which start   *)
(* and upgrade the Agent on the way, the CLI, which only connects, and the *)
(* Desktop's Quit.                                                         *)
(*                                                                         *)
(* On Unix the endpoint is a socket file that anyone may unlink; on        *)
(* Windows it is a pipe that lives as long as its process.  An Agent takes *)
(* lifecycle requests one at a time, in the order they arrive.             *)
(***************************************************************************)
EXTENDS Naturals, Sequences, FiniteSets

CONSTANTS
  Windows,
  Tasks,        \* requests of the Desktop that may be under way together
  Kinds,        \* what they ask: GetStatus, StartAll, StopAll, StartMariaDb, StopMariaDb
  MaxAgents, MaxRequests, MaxFaults,   \* bounds
  None

VARIABLES
  agents,      \* agents[a]: phase, protocol and queue of the a-th Agent process
  endpoint,    \* the Agent whose socket or pipe is at the path, or None
  web, mariadb,   \* the Agent that started the running services, or None
  desktop,     \* "running" or "exited"
  startLock,   \* AGENT_START_LOCK
  callers,     \* callers[c]: where a task, the CLI or Quit stands
  tray,        \* the toggles: what they show, and whether they can be used
  displaced,   \* history: Agents that listened when their socket was unlinked, or
               \* when Quit got no answer to its Ping
  halted,      \* history: what requests have stopped since the last upgrade began
  requests,    \* requests made so far
  troubles     \* faults so far

services == <<web, mariadb>>
bounds == <<requests, troubles>>
vars == <<agents, endpoint, services, desktop, startLock, callers, tray, displaced, halted,
          bounds>>

Agents == 1..MaxAgents
Callers == Tasks \cup {"cli", "quit"}

NoCall == [step |-> "idle", kind |-> "none", agent |-> None, answer |-> None,
           restart |-> {}, action |-> FALSE, found |-> None]

Idle(c) == callers[c].step = "idle"

Usable == [web |-> "Mixed", mariadb |-> "NotInstalled", webOn |-> TRUE, mariadbOn |-> FALSE]

\* Nothing runs, a current Agent does, or one that an older fabDev left.
Init ==
  /\ \E first \in {"none", "serving"}, old \in BOOLEAN :
       /\ agents = [a \in Agents |-> [phase |-> IF a = 1 THEN first ELSE "none",
                                      old |-> old /\ a = 1, queue |-> <<>>]]
       /\ endpoint = IF first = "none" THEN None ELSE 1
       /\ web \in (IF first = "none" THEN {None} ELSE {None, 1})
       /\ mariadb \in (IF first = "none" THEN {None} ELSE {None, 1})
  /\ desktop = "running" /\ startLock = None
  /\ callers = [c \in Callers |-> NoCall]
  /\ tray = Usable
  /\ displaced = {} /\ halted = {} /\ requests = 0 /\ troubles = 0

Trouble == troubles < MaxFaults /\ troubles' = troubles + 1

Listening(a) == agents[a].phase \in {"serving", "closing"}

\* The Agent that a connection reaches, and that answers a Ping.
Reached == IF endpoint # None /\ Listening(endpoint) THEN endpoint ELSE None

Displace == displaced' = displaced \cup ({Reached} \ {None})

\* remove_stale_agent_socket; a pipe has nothing to remove.
Unlink == endpoint' = IF Windows THEN endpoint ELSE None

\* A Ping (or a status request) fails when nothing listens, and when the Agent
\* that listens does not answer in time.
NoReply == \/ Reached = None /\ UNCHANGED troubles
           \/ Reached # None /\ Trouble

-----------------------------------------------------------------------------
(* An Agent process.                                                       *)

Phase(a, phase) == agents' = [agents EXCEPT ![a].phase = phase]

\* What is waiting for an answer of a gets none.
Cut(a) ==
  LET waiting == {agents[a].queue[i].from : i \in DOMAIN agents[a].queue}
  IN callers' = [c \in Callers |->
       IF c \in waiting THEN [callers[c] EXCEPT !.answer = "lost"] ELSE callers[c]]

\* Clean-up, the database and the proxies come first; then whoever listens
\* already makes the newcomer give up.
Probe(a) ==
  /\ agents[a].phase = "preparing"
  /\ Phase(a, IF Reached # None THEN "gone" ELSE IF endpoint = None THEN "free" ELSE "stale")
  /\ UNCHANGED <<endpoint, services, desktop, startLock, callers, tray, displaced, halted, bounds>>

\* A socket found stale is removed, whose ever it is by now.
Bind(a) ==
  /\ agents[a].phase \in {"free", "stale"}
  /\ IF (agents[a].phase = "free" \/ Windows) <=> (endpoint = None)
       THEN Phase(a, "serving") /\ endpoint' = a /\ Displace
       ELSE Phase(a, "gone") /\ UNCHANGED <<endpoint, displaced>>
  /\ UNCHANGED <<services, desktop, startLock, callers, tray, halted, bounds>>

StartFails(a) ==
  /\ agents[a].phase = "preparing" /\ Trouble
  /\ Phase(a, "gone")
  /\ UNCHANGED <<endpoint, services, desktop, startLock, callers, tray, displaced, halted, requests>>

\* Once a shutdown has succeeded, what is queued behind it is refused.
Refuses(a) == agents[a].phase = "closing"

Stopped(kind) == CASE kind = "StopAll" -> {"web"} [] kind = "StopMariaDb" -> {"mariadb"}
                   [] kind = "Shutdown" -> {"web", "mariadb"} [] OTHER -> {}

Without(old, stopped) == IF stopped THEN None ELSE old

\* The effect of the request at the head of the queue.
Outcome(a, kind, answer) ==
  CASE Refuses(a) ->
         /\ answer = IF kind = "Shutdown" THEN "ok" ELSE "error"
         /\ UNCHANGED <<services, halted, troubles>>
    [] ~Refuses(a) /\ answer = "ok" ->
         /\ web' = IF kind = "StartAll" THEN a ELSE Without(web, "web" \in Stopped(kind))
         /\ mariadb' = IF kind = "StartMariaDb" /\ mariadb = None THEN a
                       ELSE Without(mariadb, "mariadb" \in Stopped(kind))
         /\ halted' = halted \cup Stopped(kind)
         /\ UNCHANGED troubles
    [] OTHER ->   \* a stop that fails may still have stopped
         /\ answer = "error" /\ Trouble
         /\ kind = "StartAll" => web # a
         /\ halted' = halted \cup Stopped(kind)
         /\ \E s \in SUBSET Stopped(kind) :
              web' = Without(web, "web" \in s) /\ mariadb' = Without(mariadb, "mariadb" \in s)

\* handle_request under the lifecycle lock.
Serve(a) ==
  /\ Listening(a) /\ agents[a].queue # <<>>
  /\ LET request == Head(agents[a].queue)
     IN \E answer \in {"ok", "error"} :
          /\ Outcome(a, request.kind, answer)
          /\ agents' = [agents EXCEPT ![a].queue = Tail(@),
               ![a].phase = IF request.kind = "Shutdown" /\ answer = "ok" THEN "closing" ELSE @]
          /\ callers' = IF request.from = None THEN callers
                        ELSE [callers EXCEPT ![request.from].answer = answer]
  /\ UNCHANGED <<endpoint, desktop, startLock, tray, displaced, requests>>

\* 50 ms after the shutdown: the socket's guard unlinks the path.
Exit(a) ==
  /\ agents[a].phase = "closing"
  /\ agents' = [agents EXCEPT ![a].phase = "gone", ![a].queue = <<>>]
  /\ Cut(a)
  /\ endpoint' = IF Windows /\ endpoint # a THEN endpoint ELSE None
  /\ displaced' = displaced \cup (IF Windows THEN {} ELSE {Reached} \ {None, a})
  /\ UNCHANGED <<services, desktop, startLock, tray, halted, bounds>>

\* Its services run on, and its socket file stays.
Crash(a) ==
  /\ agents[a].phase \notin {"none", "gone"} /\ Trouble
  /\ agents' = [agents EXCEPT ![a].phase = "gone", ![a].queue = <<>>]
  /\ Cut(a)
  /\ endpoint' = IF Windows /\ endpoint = a THEN None ELSE endpoint
  /\ UNCHANGED <<services, desktop, startLock, tray, displaced, halted, requests>>

AgentSteps == \E a \in Agents :
  Probe(a) \/ Bind(a) \/ StartFails(a) \/ Serve(a) \/ Exit(a) \/ Crash(a)

-----------------------------------------------------------------------------
(* Sending a request and waiting for its answer.                           *)

Move(c, step) == callers' = [callers EXCEPT ![c].step = step, ![c].agent = None, ![c].answer = None]

Unsent(c) == callers[c].agent = None /\ callers[c].answer = None

\* A fresh connection for every request; without one the request is lost.
Send(c, kind) ==
  /\ Unsent(c)
  /\ callers' = [callers EXCEPT ![c].agent = Reached,
                                ![c].answer = IF Reached = None THEN "lost" ELSE None]
  /\ agents' = IF Reached = None THEN agents
               ELSE [agents EXCEPT ![Reached].queue = Append(@, [from |-> c, kind |-> kind])]
  /\ UNCHANGED <<endpoint, services, desktop, startLock, tray, displaced, halted, bounds>>

\* After 30 seconds nobody waits any more; the Agent still serves the request.
AnswerLate(c) ==
  /\ callers[c].agent # None /\ callers[c].answer = None /\ Trouble
  /\ callers' = [callers EXCEPT ![c].answer = "lost"]
  /\ agents' = [agents EXCEPT ![callers[c].agent].queue =
       [i \in DOMAIN @ |-> IF @[i].from = c THEN [@[i] EXCEPT !.from = None] ELSE @[i]]]
  /\ UNCHANGED <<endpoint, services, desktop, startLock, tray, displaced, halted, requests>>

-----------------------------------------------------------------------------
(* ensure_agent_running, then the request.                                 *)

\* A tray action disables its toggle until it is answered.
Ask(t, kind, action) ==
  /\ desktop = "running" /\ Idle(t) /\ requests < MaxRequests
  /\ requests' = requests + 1
  /\ action => IF kind = "StartAll" THEN tray.webOn /\ tray.web # "Running"
               ELSE IF kind = "StopAll" THEN tray.webOn /\ tray.web = "Running"
               ELSE IF kind = "StartMariaDb" THEN tray.mariadbOn /\ tray.mariadb # "Running"
               ELSE kind = "StopMariaDb" /\ tray.mariadbOn /\ tray.mariadb = "Running"
  /\ callers' = [callers EXCEPT ![t] =
       [NoCall EXCEPT !.step = "lock", !.kind = kind, !.action = action]]
  /\ tray' = IF ~action THEN tray
             ELSE IF kind \in {"StartAll", "StopAll"} THEN [tray EXCEPT !.webOn = FALSE]
             ELSE [tray EXCEPT !.mariadb = "Busy", !.mariadbOn = FALSE]
  /\ UNCHANGED <<agents, endpoint, services, desktop, startLock, displaced, halted, troubles>>

\* AGENT_START_LOCK, then the Ping; a current Agent lets the request pass, and one
\* that does not answer is taken for none.  A status that cannot be had stands
\* for nothing to restart.
Ping(t) ==
  /\ callers[t].step = "lock" /\ startLock = None
  /\ \/ NoReply /\ Move(t, "spawn") /\ startLock' = t
     \/ /\ Reached # None /\ ~agents[Reached].old
        /\ Move(t, "send") /\ UNCHANGED <<startLock, troubles>>
     \/ /\ Reached # None /\ agents[Reached].old
        /\ \/ callers' = [callers EXCEPT ![t].step = "stopOld", ![t].restart =
                {s \in {"web", "mariadb"} : (s = "web" /\ web = Reached)
                                            \/ (s = "mariadb" /\ mariadb # None)}]
              /\ UNCHANGED troubles
           \/ Move(t, "stopOld") /\ Trouble
        /\ startLock' = t
  /\ UNCHANGED <<agents, endpoint, services, desktop, tray, displaced, halted, requests>>

\* refresh_tray_service_state asks for the status, as any request does.
Refresh(t) == [NoCall EXCEPT !.step = "lock", !.kind = "GetStatus", !.action = TRUE]

\* A tray action that fails refreshes the tray; a refresh that fails tells it
\* that nothing is known; other requests leave it as it is.
Fail(t) ==
  IF callers[t].action /\ callers[t].kind # "GetStatus"
    THEN callers' = [callers EXCEPT ![t] = Refresh(t)] /\ UNCHANGED tray
    ELSE /\ callers' = [callers EXCEPT ![t] = NoCall]
         /\ tray' = IF callers[t].action THEN Usable ELSE tray

\* Every way out of ensure_agent_running gives the lock back.
GiveUp(t) ==
  /\ startLock' = IF startLock = t THEN None ELSE startLock
  /\ Fail(t)
  /\ UNCHANGED <<agents, endpoint, services, desktop, displaced, halted, requests>>

StopOld(t) == callers[t].step = "stopOld" /\ Send(t, "Shutdown")

OldAnswers(t) ==
  /\ callers[t].step = "stopOld" /\ callers[t].answer # None
  /\ IF callers[t].answer = "ok"
       THEN Move(t, "oldDown") /\ halted' = {} /\ UNCHANGED <<agents, endpoint, services, desktop,
              startLock, tray, displaced, bounds>>
       ELSE GiveUp(t) /\ UNCHANGED troubles

OldDown(t) ==
  /\ callers[t].step = "oldDown" /\ NoReply
  /\ Move(t, "spawn")
  /\ UNCHANGED <<agents, endpoint, services, desktop, startLock, tray, displaced, halted, requests>>

\* Whatever is at the path by now is unlinked.
Spawn(t) ==
  /\ callers[t].step = "spawn"
  /\ \E a \in Agents :
       /\ agents[a].phase = "none" /\ \A b \in 1..(a - 1) : agents[b].phase # "none"
       /\ Phase(a, "preparing")
  /\ Unlink
  /\ IF Windows THEN UNCHANGED displaced ELSE Displace
  /\ Move(t, "ready")
  /\ UNCHANGED <<services, desktop, startLock, tray, halted, bounds>>

\* Fault: only the Web services are started again.
WebOnly(t, started) == IF "web" \in callers[t].restart \ started THEN "startWeb" ELSE "send"

NextStart(t, started) ==
  LET left == callers[t].restart \ started
  IN IF "web" \in left THEN "startWeb" ELSE IF "mariadb" \in left THEN "startMariaDb" ELSE "send"

Proceed(t, started) ==
  /\ Move(t, NextStart(t, started))
  /\ startLock' = IF NextStart(t, started) = "send" THEN None ELSE t
  /\ UNCHANGED <<agents, endpoint, services, desktop, tray, displaced, halted, bounds>>

Ready(t) ==
  callers[t].step = "ready" /\ Reached # None /\ ~agents[Reached].old /\ Proceed(t, {})

Restart(t) == \/ callers[t].step = "startWeb" /\ Send(t, "StartAll")
              \/ callers[t].step = "startMariaDb" /\ Send(t, "StartMariaDb")

Restarted(t) ==
  /\ callers[t].step \in {"startWeb", "startMariaDb"} /\ callers[t].answer # None
  /\ IF callers[t].answer = "ok"
       THEN Proceed(t, IF callers[t].step = "startWeb" THEN {"web"} ELSE {"web", "mariadb"})
       ELSE GiveUp(t) /\ UNCHANGED troubles

\* The five seconds are over, or there is no executable to start.
EnsureFails(t) ==
  /\ callers[t].step \in {"oldDown", "spawn", "ready"}
  /\ GiveUp(t) /\ UNCHANGED troubles

\* GetStatus does not take part in the queue.
Request(t) ==
  /\ callers[t].step = "send"
  /\ IF callers[t].kind # "GetStatus" THEN Send(t, callers[t].kind)
     ELSE /\ Unsent(t)
          /\ \/ NoReply /\ callers' = [callers EXCEPT ![t].answer = "lost"]
             \/ /\ Reached # None /\ UNCHANGED troubles
                /\ callers' = [callers EXCEPT ![t].answer = "ok"]
          /\ UNCHANGED <<agents, endpoint, services, desktop, startLock, tray, displaced, halted,
                         requests>>

\* What the answer tells the tray.
Shown(kind) ==
  CASE kind = "GetStatus" ->
         [tray EXCEPT !.web = IF web # None THEN "Running" ELSE "Stopped", !.webOn = TRUE,
            !.mariadb = IF mariadb # None THEN "Running" ELSE "Stopped", !.mariadbOn = TRUE]
    [] kind = "StartAll" -> [tray EXCEPT !.web = "Running", !.webOn = TRUE]
    [] kind = "StopAll" -> [tray EXCEPT !.web = "Stopped", !.webOn = TRUE]
    [] kind = "StartMariaDb" -> [tray EXCEPT !.mariadb = "Running", !.mariadbOn = TRUE]
    [] kind = "StopMariaDb" -> [tray EXCEPT !.mariadb = "Stopped", !.mariadbOn = TRUE]

Answered(t) ==
  /\ callers[t].step = "send" /\ callers[t].answer # None
  /\ IF callers[t].answer = "ok"
       THEN /\ tray' = Shown(callers[t].kind)
            /\ callers' = [callers EXCEPT ![t] = NoCall]
       ELSE Fail(t)
  /\ UNCHANGED <<agents, endpoint, services, desktop, startLock, displaced, halted, bounds>>

TaskSteps == \E t \in Tasks :
  \/ \E kind \in Kinds, action \in BOOLEAN : Ask(t, kind, action)
  \/ Ping(t) \/ StopOld(t) \/ OldAnswers(t) \/ OldDown(t) \/ Spawn(t)
  \/ Ready(t) \/ Restart(t) \/ Restarted(t) \/ EnsureFails(t) \/ Request(t) \/ Answered(t)
  \/ AnswerLate(t)

\* The CLI connects, asks and prints; it starts no Agent.
Cli ==
  \/ /\ Idle("cli") /\ requests < MaxRequests
     /\ requests' = requests + 1
     /\ \E kind \in Kinds \ {"GetStatus"} :
          callers' = [callers EXCEPT !["cli"] = [NoCall EXCEPT !.step = "send", !.kind = kind]]
     /\ UNCHANGED <<agents, endpoint, services, desktop, startLock, tray, displaced, halted, troubles>>
  \/ callers["cli"].step = "send" /\ Send("cli", callers["cli"].kind)
  \/ /\ callers["cli"].answer # None
     /\ callers' = [callers EXCEPT !["cli"] = NoCall]
     /\ UNCHANGED <<agents, endpoint, services, desktop, startLock, tray, displaced, halted, bounds>>

-----------------------------------------------------------------------------
(* Quit.                                                                   *)

Quit == callers["quit"]

\* QUIT_IN_PROGRESS; the tray hides.  found keeps the Agent that Quit talks to.
QuitAsked ==
  /\ desktop = "running" /\ Idle("quit") /\ requests < MaxRequests
  /\ requests' = requests + 1
  /\ callers' = [callers EXCEPT !["quit"] = [NoCall EXCEPT !.step = "ping"]]
  /\ tray' = [tray EXCEPT !.webOn = FALSE, !.mariadbOn = FALSE, !.mariadb = "Busy"]
  /\ UNCHANGED <<agents, endpoint, services, desktop, startLock, displaced, halted, troubles>>

QuitPing ==
  /\ Quit.step = "ping"
  /\ \/ NoReply /\ Move("quit", "leave") /\ Unlink /\ Displace
     \/ /\ Reached # None
        /\ callers' = [callers EXCEPT !["quit"].step = "stop", !["quit"].found = Reached]
        /\ UNCHANGED <<endpoint, displaced, troubles>>
  /\ UNCHANGED <<agents, services, desktop, startLock, tray, halted, requests>>

QuitSends == \/ Quit.step = "stop" /\ Send("quit", "StopAll")
             \/ Quit.step = "shutdown" /\ Send("quit", "Shutdown")

\* QUIT_IN_PROGRESS is over; a task refreshes the tray.
QuitFails == \E t \in Tasks :
  /\ Idle(t)
  /\ callers' = [callers EXCEPT !["quit"] = NoCall, ![t] = Refresh(t)]
  /\ UNCHANGED tray

\* Whether the Web services could be stopped does not matter here: the shutdown
\* tries again.
QuitAnswered ==
  /\ Quit.answer # None
  /\ CASE Quit.step = "stop" /\ Quit.answer # "lost" -> Move("quit", "shutdown") /\ UNCHANGED tray
       [] Quit.step = "shutdown" /\ Quit.answer = "ok" -> Move("quit", "down") /\ UNCHANGED tray
       [] Quit.step = "shutdown" /\ Quit.answer = "lost" -> Reached # None /\ QuitFails
       [] OTHER -> QuitFails
  /\ UNCHANGED <<agents, endpoint, services, desktop, startLock, displaced, halted, bounds>>

\* A shutdown whose answer is lost has gone through if nothing answers a Ping.
QuitUnheard ==
  /\ Quit.step = "shutdown" /\ Quit.answer = "lost"
  /\ NoReply /\ Move("quit", "leave") /\ Displace
  /\ UNCHANGED <<agents, endpoint, services, desktop, startLock, tray, halted, requests>>

\* Until a Ping fails.
QuitDown ==
  /\ Quit.step = "down" /\ NoReply
  /\ Move("quit", "leave") /\ Unlink /\ Displace
  /\ UNCHANGED <<agents, services, desktop, startLock, tray, halted, requests>>

\* After five seconds, or when the installer of an update cannot be opened.
QuitGivesUp ==
  /\ \/ Quit.step = "down" /\ UNCHANGED troubles
     \/ Quit.step = "leave" /\ Trouble
  /\ QuitFails
  /\ UNCHANGED <<agents, endpoint, services, desktop, startLock, displaced, halted, requests>>

\* The process ends, and its tasks with it.
Leave ==
  /\ Quit.step = "leave"
  /\ desktop' = "exited" /\ startLock' = None
  /\ callers' = [c \in Callers |->
       IF c = "cli" THEN callers[c] ELSE [NoCall EXCEPT !.found = callers[c].found]]
  /\ agents' = [a \in Agents |-> [agents[a] EXCEPT !.queue =
       [i \in DOMAIN @ |-> IF @[i].from = "cli" THEN @[i] ELSE [@[i] EXCEPT !.from = None]]]]
  /\ UNCHANGED <<endpoint, services, tray, displaced, halted, bounds>>

QuitSteps == QuitAsked \/ QuitPing \/ QuitSends \/ QuitAnswered \/ QuitUnheard \/ QuitDown \/ QuitGivesUp
             \/ Leave \/ AnswerLate("quit")

\* The bound on requests is reached, or nobody is left to make one.
Done ==
  /\ desktop = "exited" \/ (requests = MaxRequests /\ \A c \in Callers : Idle(c))
  /\ UNCHANGED vars

Next == AgentSteps \/ TaskSteps \/ Cli \/ QuitSteps \/ Done
Spec == Init /\ [][Next]_vars

-----------------------------------------------------------------------------
Calls == [step : {"idle", "lock", "ping", "stopOld", "oldDown", "spawn", "ready", "startWeb",
                  "startMariaDb", "send", "stop", "shutdown", "down", "leave"},
          kind : Kinds \cup {"GetStatus"} \cup {"none"}, agent : Agents \cup {None},
          answer : {"ok", "error", "lost", None},
          restart : SUBSET {"web", "mariadb"}, action : BOOLEAN, found : Agents \cup {None}]

TypeOK ==
  /\ \A a \in Agents : agents[a].phase \in
       {"none", "preparing", "free", "stale", "serving", "closing", "gone"}
  /\ endpoint \in Agents \cup {None}
  /\ {web, mariadb} \subseteq Agents \cup {None}
  /\ startLock \in Tasks \cup {None}
  /\ callers \in [Callers -> Calls]

\* An Agent that has shut down leaves no service of its own behind, whatever
\* was queued behind the shutdown (agent 936-950, 2121-2135).
ShutdownLeavesNothing ==
  \A a \in Agents : agents[a].phase = "closing" => web # a /\ mariadb # a

\* When the Desktop has exited, the Agent that Quit found has ended, unless its
\* socket was unlinked beneath it or it left a Ping unanswered (desktop 1004-1042).
QuitStopsWhatItFound ==
  desktop = "exited" =>
    (Quit.found # None => agents[Quit.found].phase = "gone" \/ Quit.found \in displaced)

\* An upgrade of the Agent that is reported as done has restarted what the old
\* Agent ran, but for what another request has stopped (desktop 926-950).
UpgradeRestarts ==
  \A t \in Tasks :
    /\ callers[t].step \in {"ready", "startWeb", "startMariaDb"}
    /\ callers'[t].step = "send"
    => \A s \in callers[t].restart : (s = "web" /\ web' # None) \/ (s = "mariadb" /\ mariadb' # None)
                                     \/ s \in halted'
UpgradesRestart == [][UpgradeRestarts]_vars

\* When nothing is under way the tray can start or stop the Web services: no
\* failure leaves its toggle disabled (desktop 1882-1911, 1069-1098).
TrayRecovers ==
  desktop = "running" /\ (\A c \in Callers \ {"cli"} : Idle(c)) => tray.webOn

StopsAsked == ShutdownLeavesNothing /\ QuitStopsWhatItFound /\ TrayRecovers
=============================================================================
