---------------------------- MODULE JobLifecycle ----------------------------
(***************************************************************************)
(* What the service promises of a job, with no workers, messages or        *)
(* transactions: files go from queued to running to a terminal status and  *)
(* stay there; the job is queued until a file starts, then running, and    *)
(* takes the roll-up of its files as its final status once, when every     *)
(* file is terminal: with the last file, or a little later.                *)
(***************************************************************************)
EXTENDS JobStatus

CONSTANT Files

VARIABLES jobStatus, status

vars == <<jobStatus, status>>

Init == jobStatus = "absent" /\ status = [f \in Files |-> "queued"]

Submit ==
  /\ jobStatus = "absent"
  /\ jobStatus' = "queued"
  /\ UNCHANGED status

Start(f) ==
  /\ jobStatus \in {"queued", "running"} /\ status[f] = "queued"
  /\ status' = [status EXCEPT ![f] = "running"]
  /\ jobStatus' = "running"

\* The last file's result may or may not come with the job's final status.
Finish(f, s) ==
  /\ jobStatus = "running" /\ status[f] = "running"
  /\ status' = [status EXCEPT ![f] = s]
  /\ \/ UNCHANGED jobStatus
     \/ AllTerminal(status') /\ jobStatus' = ComputeJobStatus(status')

Settle ==
  /\ jobStatus = "running" /\ AllTerminal(status)
  /\ jobStatus' = ComputeJobStatus(status)
  /\ UNCHANGED status

Next ==
  \/ Submit \/ Settle
  \/ \E f \in Files : Start(f) \/ \E s \in TerminalFileStatuses : Finish(f, s)

Spec == Init /\ [][Next]_vars
=============================================================================
