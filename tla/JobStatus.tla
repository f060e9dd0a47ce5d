----------------------------- MODULE JobStatus -----------------------------
(***************************************************************************)
(* The status vocabulary of service/models.py and the pure roll-up of      *)
(* service/progress.py.  A job's file statuses are a function from its     *)
(* files to FileStatus: the code only folds them with all(), any() and a   *)
(* sum, so their order is immaterial.                                      *)
(***************************************************************************)
EXTENDS Integers, FiniteSets

TerminalFileStatuses == {"done", "partial", "failed"}
FileStatus           == {"queued", "running"} \cup TerminalFileStatuses
TerminalJobStatuses  == {"done", "partial", "failed"}
JobStatuses          == {"queued", "running"} \cup TerminalJobStatuses

\* FILE_PROGRESS: the coarse per-file checkpoint.
FileProgress(status) ==
  IF status = "queued" THEN 0 ELSE IF status = "running" THEN 50 ELSE 100

AllTerminal(st) == \A f \in DOMAIN st : st[f] \in TerminalFileStatuses

MutComputeJobStatus(st) ==  \* a bug: files not yet started are forgotten
  IF \E f \in DOMAIN st : st[f] = "running" THEN "running"
  ELSE IF \A f \in DOMAIN st : st[f] = "queued" THEN "queued"
  ELSE IF \A f \in DOMAIN st : st[f] = "failed" THEN "failed"
  ELSE IF \E f \in DOMAIN st : st[f] \in {"failed", "partial"} THEN "partial"
  ELSE "done"

\* compute_job_status: the job's status as a function of its files' statuses.
ComputeJobStatus(st) ==
  IF ~AllTerminal(st)
  THEN IF \E f \in DOMAIN st : st[f] # "queued" THEN "running" ELSE "queued"
  ELSE IF DOMAIN st = {}                                       THEN "queued"
  ELSE IF \A f \in DOMAIN st : st[f] = "failed"                THEN "failed"
  ELSE IF \E f \in DOMAIN st : st[f] \in {"failed", "partial"} THEN "partial"
  ELSE "done"

\* Python's round() of a / b for a >= 0 and b > 0: halves go to the even side.
Round(a, b) ==
  LET q == a \div b
      r == a % b
  IN  IF 2 * r > b \/ (2 * r = b /\ q % 2 = 1) THEN q + 1 ELSE q

\* compute_job_progress over n files, `running` of them at 50 and `terminal` at 100.
ProgressOf(running, terminal, n) ==
  IF n = 0 THEN 0 ELSE Round(50 * running + 100 * terminal, n)

MutComputeJobProgress(st) ==  \* a bug: the mean is over the files that have started
  ProgressOf(Cardinality({f \in DOMAIN st : st[f] = "running"}),
             Cardinality({f \in DOMAIN st : st[f] \in TerminalFileStatuses}),
             Cardinality({f \in DOMAIN st : st[f] # "queued"}))

ComputeJobProgress(st) ==
  ProgressOf(Cardinality({f \in DOMAIN st : st[f] = "running"}),
             Cardinality({f \in DOMAIN st : st[f] \in TerminalFileStatuses}),
             Cardinality(DOMAIN st))
=============================================================================
