------------------------- MODULE RuntimeOperations -------------------------
(***************************************************************************)
(* What a client of the Agent may rely on when it polls Runtime update     *)
(* operations (GetRuntimeUpdateOperation): the published status of every   *)
(* operation, and nothing of the locks, workers and waiting callers that   *)
(* produce it.  RuntimeDownloads implements this specification.            *)
(***************************************************************************)

CONSTANTS
  Ops,        \* operation ids; start() draws a fresh one per call
  Identity    \* Identity[op]: the Runtime (name, version, platform,
              \* architecture) operation op is about

VARIABLES
  status,     \* status[op]: RuntimeUpdateOperationStatus, "None" before op is listed
  closed      \* TRUE once the Agent has stopped accepting downloads

avars == <<status, closed>>

Active == {"Queued", "Downloading"}

Init ==
  /\ status = [op \in Ops |-> "None"]
  /\ closed = FALSE

Move(op, from, to) ==
  /\ status[op] = from
  /\ status' = [status EXCEPT ![op] = to]
  /\ UNCHANGED closed

\* One Runtime is downloaded by one operation at a time, and none starts
\* after the Agent began to shut down.
Enlist(op) ==
  /\ ~closed
  /\ \A other \in Ops :
       Identity[other] = Identity[op] => status[other] \notin Active
  /\ Move(op, "None", "Queued")

Download(op) == ~closed /\ Move(op, "Queued", "Downloading")

Settle(op) ==
  \E outcome \in {"Verified", "Failed"} : Move(op, "Downloading", outcome)

Cancel(op) ==
  \E from \in Active : Move(op, from, "Cancelled")

\* Installations are serialised over all Runtimes.
Install(op) ==
  /\ \A other \in Ops : status[other] # "Installing"
  /\ Move(op, "Verified", "Installing")

Conclude(op) ==
  \E outcome \in {"Completed", "Failed"} : Move(op, "Installing", outcome)

\* Closing cancels whatever is still downloading, in one visible step.
Close ==
  /\ ~closed
  /\ closed' = TRUE
  /\ status' = [op \in Ops |->
                  IF status[op] \in Active THEN "Cancelled" ELSE status[op]]

Next ==
  \/ Close
  \/ \E op \in Ops :
       \/ Enlist(op) \/ Download(op) \/ Settle(op) \/ Cancel(op)
       \/ Install(op) \/ Conclude(op)

Spec == Init /\ [][Next]_avars
=============================================================================
