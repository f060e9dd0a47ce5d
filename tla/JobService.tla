----------------------------- MODULE JobService -----------------------------
(***************************************************************************)
(* One ingestion job, end to end: the POST /jobs handler of                *)
(* service/api.py, the Celery tasks of service/tasks.py run by a pool of   *)
(* workers, the rows of service/repository.py they share through SQLite,   *)
(* the JSONL output files, and the Redis queue and chord counter between   *)
(* them.                                                                   *)
(*                                                                         *)
(* A database transaction is four steps, because SQLite sees it as four:   *)
(* SELECT the file's row, SELECT the rows of its siblings, SELECT the job, *)
(* and COMMIT.  pysqlite opens a transaction only at the first UPDATE and  *)
(* the session flushes only at commit (autoflush=False), so each SELECT    *)
(* has a snapshot of its own and nothing read is protected until the       *)
(* commit, which is atomic.                                                *)
(*                                                                         *)
(* A file stands for its row, its task message and its upload: the ids and *)
(* paths of one file are in bijection.                                     *)
(***************************************************************************)
EXTENDS JobStatus

CONSTANTS
  Files,      \* the files of the job
  Workers,    \* the pool processes of the Celery workers
  Outcomes,   \* what the ingestion pipeline may return for a file
  MaxFaults   \* how many faults of each kind the environment may inject

Finalize   == "finalize"   \* the chord callback's message
NoTask     == "none"
Messages   == Files \cup {Finalize}
FaultKinds == {"db", "pool", "redelivery"}

\* A pipeline result: a terminal status and whether there are any chunks.  A
\* failed result has none (pipeline.py builds it with chunks=[]).
PipelineResults ==
  {r \in [status : TerminalFileStatuses, chunks : BOOLEAN] :
     r.status = "failed" => ~r.chunks}

ASSUME FilesAssumption ==
  IsFiniteSet(Files) /\ Files # {} /\ Finalize \notin Files /\ NoTask \notin Files
ASSUME OutcomesAssumption == Outcomes \subseteq PipelineResults
ASSUME FaultsAssumption   == MaxFaults \in [FaultKinds -> Nat]

VARIABLES
  \* the POST /jobs handler
  api,        \* where the request stands
  uploads,    \* the files saved under upload_dir
  published,  \* the files whose task message the broker has
  \* SQLite
  job,        \* jobs.status, or "absent" before the rows are committed
  rows,       \* the job_files rows
  \* the output directory
  output,     \* the JSONL file of each file
  \* Redis: the queue and the chord
  ready,      \* how many copies of each message wait in the queue
  returned,   \* the chord's set of distinct <<file, result>> parts
  chord,      \* whether the chord still counts, has fired or has failed
  \* the workers
  task,       \* the message a worker executes
  phase,      \* where the handler stands
  step,       \* the next step of the transaction the handler is in
  loaded,     \* session: the file's row as SELECTed
  view,       \* session: the statuses of the job's files as SELECTed
  seen,       \* session: jobs.status as SELECTed
  result,     \* the result the handler is about to record or return
  held,       \* the broker still counts the delivery as unacknowledged
  \* the environment
  faults      \* the faults injected so far

apiVars     == <<api, uploads, published>>
dbVars      == <<job, rows>>
brokerVars  == <<ready, returned, chord>>
sessionVars == <<loaded, view, seen>>
workerVars  == <<task, phase, step, sessionVars, result, held>>
vars        == <<apiVars, dbVars, output, brokerVars, workerVars, faults>>

Row       == [status : FileStatus, progress : {0, 50, 100}, output : BOOLEAN]
QueuedRow == [status |-> "queued", progress |-> FileProgress("queued"), output |-> FALSE]
NoResult  == [status |-> "none", chunks |-> FALSE]
Failure   == [status |-> "failed", chunks |-> FALSE]  \* mark_file_result's defaults
Raised    == [status |-> "raised", chunks |-> FALSE]
NoView    == [f \in Files |-> "queued"]

Results   == [status : TerminalFileStatuses \cup {"none", "raised"}, chunks : BOOLEAN]

\* Phases of a handler: the transactions, and what lies between them.
TxPhases == {"running", "result", "failure", "finalize"}
Phases   == TxPhases \cup {"idle", "work", "write", "writing", "return", "ack"}

FirstStep(p) ==
  IF p = "finalize" THEN "siblings" ELSE IF p \in TxPhases THEN "load" ELSE "none"

Statuses == [f \in Files |-> rows[f].status]

TypeOK ==
  /\ api \in {"uploading", "committed", "accepted", "rejected", "failed"}
  /\ uploads \subseteq Files
  /\ published \subseteq Files
  /\ job \in JobStatuses \cup {"absent"}
  /\ rows \in [Files -> Row]
  /\ output \in [Files -> {"absent", "torn", "empty", "chunks"}]
  /\ ready \in [Messages -> Nat]
  /\ returned \subseteq Files \X (TerminalFileStatuses \cup {"raised"})
  /\ chord \in {"counting", "fired", "error"}
  /\ task \in [Workers -> Messages \cup {NoTask}]
  /\ phase \in [Workers -> Phases]
  /\ step \in [Workers -> {"none", "load", "siblings", "job", "commit"}]
  /\ loaded \in [Workers -> Row]
  /\ view \in [Workers -> [Files -> FileStatus]]
  /\ seen \in [Workers -> JobStatuses \cup {"absent"}]
  /\ result \in [Workers -> Results]
  /\ held \in [Workers -> BOOLEAN]
  /\ faults \in [FaultKinds -> Nat]

Init ==
  /\ api = "uploading" /\ uploads = {} /\ published = {}
  /\ job = "absent" /\ rows = [f \in Files |-> QueuedRow]
  /\ output = [f \in Files |-> "absent"]
  /\ ready = [m \in Messages |-> 0] /\ returned = {} /\ chord = "counting"
  /\ task = [w \in Workers |-> NoTask] /\ phase = [w \in Workers |-> "idle"]
  /\ step = [w \in Workers |-> "none"]
  /\ loaded = [w \in Workers |-> QueuedRow] /\ view = [w \in Workers |-> NoView]
  /\ seen = [w \in Workers |-> "absent"] /\ result = [w \in Workers |-> NoResult]
  /\ held = [w \in Workers |-> FALSE]
  /\ faults = [k \in FaultKinds |-> 0]

----------------------------------------------------------------------------
\* The POST /jobs handler.

\* One turn of the upload loop: the extension and the size pass, the bytes are saved.
SaveUpload(f) ==
  /\ api = "uploading" /\ f \notin uploads
  /\ uploads' = uploads \cup {f}
  /\ UNCHANGED <<api, published, dbVars, output, brokerVars, workerVars, faults>>

\* 415 or 413 on a later file, or an error before the commit: the request ends,
\* what was saved stays on disk and no row exists.
RefuseRequest ==
  /\ api = "uploading"
  /\ api' = "rejected"
  /\ UNCHANGED <<uploads, published, dbVars, output, brokerVars, workerVars, faults>>

\* create_job of repository.py and the commit: the job and its rows, all queued.
CreateJob ==
  /\ api = "uploading" /\ uploads = Files
  /\ api' = "committed"
  /\ job' = "queued" /\ rows' = [f \in Files |-> QueuedRow]
  /\ UNCHANGED <<uploads, published, output, brokerVars, workerVars, faults>>

\* enqueue_job: the chord publishes the header's messages one by one.
MutPublishTask(f) ==  \* a bug: the messages go out before the rows are committed
  /\ api \in {"uploading", "committed"} /\ f \notin published
  /\ published' = published \cup {f}
  /\ ready' = [ready EXCEPT ![f] = @ + 1]
  /\ UNCHANGED <<api, uploads, dbVars, output, returned, chord, workerVars, faults>>

PublishTask(f) ==
  /\ api = "committed" /\ f \notin published
  /\ published' = published \cup {f}
  /\ ready' = [ready EXCEPT ![f] = @ + 1]
  /\ UNCHANGED <<api, uploads, dbVars, output, returned, chord, workerVars, faults>>

\* The broker or the API process fails while publishing: the rows stay committed.
EnqueueFails ==
  /\ api = "committed" /\ published # Files
  /\ api' = "failed"
  /\ UNCHANGED <<uploads, published, dbVars, output, brokerVars, workerVars, faults>>

\* The 202 response.
Respond ==
  /\ api = "committed" /\ published = Files
  /\ api' = "accepted"
  /\ UNCHANGED <<uploads, published, dbVars, output, brokerVars, workerVars, faults>>

ApiNext ==
  \/ \E f \in Files : SaveUpload(f) \/ PublishTask(f)
  \/ RefuseRequest \/ CreateJob \/ EnqueueFails \/ Respond

----------------------------------------------------------------------------
\* The worker: delivery and the transactions of session_scope.

Enter(w, p) ==
  /\ phase' = [phase EXCEPT ![w] = p]
  /\ step'  = [step EXCEPT ![w] = FirstStep(p)]

\* The session closes: nothing it read outlives it.
CloseSession(w) ==
  /\ loaded' = [loaded EXCEPT ![w] = QueuedRow]
  /\ view'   = [view EXCEPT ![w] = NoView]
  /\ seen'   = [seen EXCEPT ![w] = "absent"]

\* The handler ends, whatever it was doing.
BecomeIdle(w) ==
  /\ task' = [task EXCEPT ![w] = NoTask]
  /\ Enter(w, "idle")
  /\ CloseSession(w)
  /\ result' = [result EXCEPT ![w] = NoResult]
  /\ held' = [held EXCEPT ![w] = FALSE]

\* An idle worker takes one message (acks_late: it stays unacknowledged).
MutDeliver(w, m) ==  \* a bug: acks_late is off, the message is acknowledged on delivery
  /\ task[w] = NoTask /\ ready[m] > 0
  /\ ready' = [ready EXCEPT ![m] = @ - 1]
  /\ task' = [task EXCEPT ![w] = m]
  /\ Enter(w, IF m = Finalize THEN "finalize" ELSE "running")
  /\ UNCHANGED <<apiVars, dbVars, output, returned, chord, sessionVars, result, held, faults>>

Deliver(w, m) ==
  /\ task[w] = NoTask /\ ready[m] > 0
  /\ ready' = [ready EXCEPT ![m] = @ - 1]
  /\ task' = [task EXCEPT ![w] = m]
  /\ Enter(w, IF m = Finalize THEN "finalize" ELSE "running")
  /\ held' = [held EXCEPT ![w] = TRUE]
  /\ UNCHANGED <<apiVars, dbVars, output, returned, chord, sessionVars, result, faults>>

AfterCommit(p) == IF p = "running" THEN "work" ELSE "return"

\* What mark_file_running and mark_file_result assign to the file's row.
Target(w) ==
  IF phase[w] = "running"
  THEN [status   |-> "running",
        progress |-> FileProgress("running"),
        output   |-> loaded[w].output]
  ELSE [status   |-> result[w].status,
        progress |-> FileProgress(result[w].status),
        output   |-> result[w].chunks]

\* session.get(JobFile): a missing row ends mark_file_running and mark_file_result.
Load(w) ==
  /\ step[w] = "load"
  /\ IF job = "absent"
     THEN Enter(w, AfterCommit(phase[w])) /\ UNCHANGED loaded
     ELSE /\ loaded' = [loaded EXCEPT ![w] = rows[task[w]]]
          /\ step' = [step EXCEPT ![w] = "siblings"]
          /\ UNCHANGED phase
  /\ UNCHANGED <<apiVars, dbVars, output, brokerVars, task, view, seen, result, held, faults>>

\* list_job_files: the session keeps its own row as it has just modified it, and
\* takes the other rows from the database.
MutReadSiblings(w) ==  \* a bug: the session's own row is read back before its flush
  /\ step[w] = "siblings"
  /\ view' = [view EXCEPT ![w] = Statuses]
  /\ step' = [step EXCEPT ![w] = "job"]
  /\ UNCHANGED <<apiVars, dbVars, output, brokerVars, task, phase, loaded, seen, result, held, faults>>

ReadSiblings(w) ==
  /\ step[w] = "siblings"
  /\ view' = [view EXCEPT ![w] =
                [f \in Files |-> IF f = task[w] THEN Target(w).status ELSE rows[f].status]]
  /\ step' = [step EXCEPT ![w] = "job"]
  /\ UNCHANGED <<apiVars, dbVars, output, brokerVars, task, phase, loaded, seen, result, held, faults>>

\* session.get(Job).
ReadJob(w) ==
  /\ step[w] = "job"
  /\ seen' = [seen EXCEPT ![w] = job]
  /\ step' = [step EXCEPT ![w] = "commit"]
  /\ UNCHANGED <<apiVars, dbVars, output, brokerVars, task, phase, loaded, view, result, held, faults>>

\* The flush writes a column only if it differs from what the session loaded.
Merged(now, from, to) ==
  [status   |-> IF to.status = from.status THEN now.status ELSE to.status,
   progress |-> IF to.progress = from.progress THEN now.progress ELSE to.progress,
   output   |-> IF to.output = from.output THEN now.output ELSE to.output]

MergedJob(now, from, to) == IF from = "absent" \/ to = from THEN now ELSE to

\* The job status this transaction computed.
Computed(w) == ComputeJobStatus(view[w])

Commit(w) ==
  /\ step[w] = "commit"
  /\ rows' = IF task[w] \in Files
             THEN [rows EXCEPT ![task[w]] = Merged(@, loaded[w], Target(w))]
             ELSE rows
  /\ job' = MergedJob(job, seen[w], Computed(w))
  /\ Enter(w, AfterCommit(phase[w]))
  /\ CloseSession(w)
  /\ UNCHANGED <<apiVars, output, brokerVars, task, result, held, faults>>

\* The environment injects one more fault of kind k, within its bound.
CountFault(k) ==
  /\ faults[k] < MaxFaults[k]
  /\ faults' = [faults EXCEPT ![k] = @ + 1]

\* "database is locked" after busy_timeout, or any other database error: the
\* transaction rolls back and raises.  Around mark_file_result the task catches
\* it and records a failure; elsewhere it leaves the task.
MutDbError(w) ==  \* a bug: the task swallows the error and returns its status
  /\ phase[w] \in TxPhases
  /\ CountFault("db")
  /\ CloseSession(w)
  /\ Enter(w, "return")
  /\ UNCHANGED <<apiVars, dbVars, output, brokerVars, task, result, held>>

DbError(w) ==
  /\ phase[w] \in TxPhases
  /\ CountFault("db")
  /\ CloseSession(w)
  /\ IF phase[w] = "result"
     THEN Enter(w, "failure") /\ result' = [result EXCEPT ![w] = Failure]
     ELSE Enter(w, "return")  /\ result' = [result EXCEPT ![w] = Raised]
  /\ UNCHANGED <<apiVars, dbVars, output, brokerVars, task, held>>

----------------------------------------------------------------------------
\* The worker: the pipeline and its output.

\* ingest_file returns a result; a file that is not there is a failed one.
IngestFile(w) ==
  /\ phase[w] = "work"
  /\ \E r \in IF task[w] \in uploads THEN Outcomes ELSE {Failure} :
       result' = [result EXCEPT ![w] = r]
  /\ Enter(w, "write")
  /\ UNCHANGED <<apiVars, dbVars, output, brokerVars, task, sessionVars, held, faults>>

\* Building the pipeline, or writing the output, raises.
MutHandlerRaises(w) ==  \* a bug: the error path keeps the output path
  /\ phase[w] \in {"work", "write", "writing"}
  /\ result' = [result EXCEPT ![w].status = "failed"]
  /\ Enter(w, "failure")
  /\ UNCHANGED <<apiVars, dbVars, output, brokerVars, task, sessionVars, held, faults>>

MutRaisesUnset(w) ==  \* a bug: the error path records the result it never got
  /\ phase[w] \in {"work", "write", "writing"}
  /\ Enter(w, "failure")
  /\ UNCHANGED <<apiVars, dbVars, output, brokerVars, task, sessionVars, result, held, faults>>

HandlerRaises(w) ==
  /\ phase[w] \in {"work", "write", "writing"}
  /\ result' = [result EXCEPT ![w] = Failure]
  /\ Enter(w, "failure")
  /\ UNCHANGED <<apiVars, dbVars, output, brokerVars, task, sessionVars, held, faults>>

\* _write_chunks opens with "w": what the file held is gone.
OpenOutput(w) ==
  /\ phase[w] = "write"
  /\ output' = [output EXCEPT ![task[w]] = IF result[w].chunks THEN "torn" ELSE "empty"]
  /\ Enter(w, "writing")
  /\ UNCHANGED <<apiVars, dbVars, brokerVars, task, sessionVars, result, held, faults>>

\* The chunks are written.  A second execution of the same task that has the
\* file open too may leave a mixture.
CloseOutput(w) ==
  /\ phase[w] = "writing"
  /\ IF ~result[w].chunks THEN UNCHANGED output
     ELSE \E o \in {"chunks", "torn"} :
            /\ o = "torn" => \E v \in Workers \ {w} : task[v] = task[w] /\ phase[v] = "writing"
            /\ output' = [output EXCEPT ![task[w]] = o]
  /\ Enter(w, "result")
  /\ UNCHANGED <<apiVars, dbVars, brokerVars, task, sessionVars, result, held, faults>>

----------------------------------------------------------------------------
\* Celery: the end of a task, and what Redis makes of it.

\* A header task's return adds its part.  The part that completes the count ends
\* the chord: the callback is queued, or dropped if some part is an exception.
\* The chord's size is known once every header message is out.
MutChordPart(part) ==  \* a bug: the chord's size grows with what is published
  IF chord # "counting" THEN UNCHANGED brokerVars
  ELSE LET parts == returned \cup {part}
           full  == Cardinality(parts) = Cardinality(published)
           sound == \A p \in parts : p[2] # "raised"
       IN  /\ returned' = parts
           /\ chord' = IF ~full THEN "counting" ELSE IF sound THEN "fired" ELSE "error"
           /\ ready' = IF full /\ sound THEN [ready EXCEPT ![Finalize] = @ + 1] ELSE ready

MutNoCallback(part) ==  \* a bug: a group instead of a chord, nobody finalizes
  IF chord # "counting" THEN UNCHANGED brokerVars
  ELSE /\ returned' = returned \cup {part}
       /\ UNCHANGED <<chord, ready>>

ChordPart(part) ==
  IF chord # "counting" THEN UNCHANGED brokerVars
  ELSE LET parts == returned \cup {part}
           full  == published = Files /\ Cardinality(parts) = Cardinality(Files)
           sound == \A p \in parts : p[2] # "raised"
       IN  /\ returned' = parts
           /\ chord' = IF ~full THEN "counting" ELSE IF sound THEN "fired" ELSE "error"
           /\ ready' = IF full /\ sound THEN [ready EXCEPT ![Finalize] = @ + 1] ELSE ready

Return(w) ==
  /\ phase[w] = "return"
  /\ IF task[w] \in Files
     THEN ChordPart(<<task[w], result[w].status>>)
     ELSE UNCHANGED brokerVars
  /\ Enter(w, "ack")
  /\ UNCHANGED <<apiVars, dbVars, output, task, sessionVars, result, held, faults>>

Ack(w) ==
  /\ phase[w] = "ack"
  /\ BecomeIdle(w)
  /\ UNCHANGED <<apiVars, dbVars, output, brokerVars, faults>>

\* The pool process executing a task dies (out of memory, a crash of a native
\* library).  The worker acknowledges the message all the same, since
\* task_reject_on_worker_lost is off, and fails the task in its stead.
PoolProcessLost(w) ==
  /\ phase[w] \notin {"idle", "ack"}
  /\ CountFault("pool")
  /\ IF task[w] \in Files THEN ChordPart(<<task[w], "raised">>) ELSE UNCHANGED brokerVars
  /\ BecomeIdle(w)
  /\ UNCHANGED <<apiVars, dbVars, output>>

\* The whole worker dies with its message unacknowledged: Redis hands the
\* message out again.
WorkerLost(w) ==
  /\ phase[w] # "idle"
  /\ CountFault("redelivery")
  /\ ready' = IF held[w] THEN [ready EXCEPT ![task[w]] = @ + 1] ELSE ready
  /\ BecomeIdle(w)
  /\ UNCHANGED <<apiVars, dbVars, output, returned, chord>>

\* A task runs past the broker's visibility timeout: its message is handed out
\* again while it still runs.
VisibilityTimeout(w) ==
  /\ held[w]
  /\ CountFault("redelivery")
  /\ ready' = [ready EXCEPT ![task[w]] = @ + 1]
  /\ held' = [held EXCEPT ![w] = FALSE]
  /\ UNCHANGED <<apiVars, dbVars, output, returned, chord, task, phase, step, sessionVars, result>>

----------------------------------------------------------------------------
\* The steps of an executing handler, in the order of the task's code.
HandlerNext(w) ==
  \/ Load(w) \/ ReadSiblings(w) \/ ReadJob(w) \/ Commit(w)
  \/ IngestFile(w) \/ OpenOutput(w) \/ CloseOutput(w) \/ Return(w) \/ Ack(w)

WorkerNext(w) ==
  \/ \E m \in Messages : Deliver(w, m)
  \/ HandlerNext(w) \/ HandlerRaises(w) \/ DbError(w) \/ PoolProcessLost(w)

Redelivery(w) == WorkerLost(w) \/ VisibilityTimeout(w)

\* Every message is delivered once.
OnceNext == ApiNext \/ \E w \in Workers : WorkerNext(w)
OnceSpec == Init /\ [][OnceNext]_vars

\* Messages may be delivered again.
Next == ApiNext \/ \E w \in Workers : WorkerNext(w) \/ Redelivery(w)
Spec == Init /\ [][Next]_vars
----------------------------------------------------------------------------
\* Fairness.  A worker process runs on, an idle worker polls the queue, and the
\* request handler runs to its end: nothing else is assumed of the scheduling.
Fairness ==
  /\ WF_vars(\E f \in Files : SaveUpload(f))
  /\ WF_vars(CreateJob) /\ WF_vars(\E f \in Files : PublishTask(f)) /\ WF_vars(Respond)
  /\ WF_vars(\E w \in Workers, m \in Messages : Deliver(w, m))
  /\ \A w \in Workers : WF_vars(HandlerNext(w))

OnceLiveSpec == OnceSpec /\ Fairness
LiveSpec     == Spec /\ Fairness

----------------------------------------------------------------------------
\* Properties.

Quiescent == (\A m \in Messages : ready[m] = 0) /\ (\A w \in Workers : task[w] = NoTask)

\* Jobs.status (the column a client polls) says the job is over only when every
\* file is, and then it is exactly the roll-up of the files, in spite of stale
\* reads of siblings by concurrent transactions (repository.py).
JobStatusSound ==
  job \in TerminalJobStatuses =>
    AllTerminal(Statuses) /\ job = ComputeJobStatus(Statuses)

\* Once nothing is queued or running, jobs.status is the roll-up of the files:
\* whatever update the last two files lost, finalize_job has made good
\* (tasks.py).  A transaction that failed or a process that died may leave it
\* behind, so the claim is for histories without either.
QuiescentJobIsFinal ==
  (Quiescent /\ job # "absent" /\ faults["db"] = 0 /\ faults["pool"] = 0)
    => job = ComputeJobStatus(Statuses)

\* finalize_job is queued or running only when every file is terminal (tasks.py
\* hands it to the chord, and its docstring promises "once all file tasks are done").
FinalizeSeesAll ==
  (ready[Finalize] > 0 \/ \E w \in Workers : task[w] = Finalize)
    => AllTerminal(Statuses)

\* A worker never meets a task whose row is not committed or whose upload is not
\* on disk (api.py commits before it enqueues, and saves before it commits).
DeliveredTaskHasInputs ==
  \A f \in Files :
    (ready[f] > 0 \/ \E w \in Workers : task[w] = f) => job # "absent" /\ f \in uploads

\* A row that advertises an output file has a whole one behind it: the file is
\* written before the row, and nothing reopens it after.
OutputWhole ==
  \A f \in Files :
    rows[f].output => rows[f].status \in {"done", "partial"} /\ output[f] = "chunks"

\* What a task reported to the chord is what its row says (tasks.py returns the
\* status it has just recorded).
ReturnedMeansRecorded ==
  \A p \in returned : p[2] # "raised" => rows[p[1]].status = p[2]

\* Through stale reads, failed transactions and dead processes, as long as no
\* message is delivered twice, the job and its files move only as JobLifecycle
\* allows: nothing goes back, and the final status is the roll-up.
Lifecycle == INSTANCE JobLifecycle WITH jobStatus <- job, status <- Statuses
ImplementsLifecycle == Lifecycle!Spec

\* A crash re-queues the file instead of losing it (celery_app.py): whatever
\* process dies, a published file that is not terminal is queued or in hand.
CrashRequeuesFile ==
  \A f \in published :
    rows[f].status \in TerminalFileStatuses \/ ready[f] > 0 \/ \E w \in Workers : task[w] = f

\* A transaction that fails or a pool process that dies may leave a file behind.
\* So may a second redelivery: a copy that overran the visibility timeout may
\* overwrite what the other copy recorded and then die with its worker.
MayForget == faults["db"] > 0 \/ faults["pool"] > 0 \/ faults["redelivery"] > 1

\* A file whose task was published and whose row is not terminal is still in the
\* queue or in a worker's hands (celery_app.py: "a crash re-queues the file
\* instead of losing it"), through a lost worker or a message delivered twice.
NoFileLost == MayForget \/ CrashRequeuesFile

\* One bad file cannot poison the batch, since no failure of a file raises out of
\* its task (tasks.py): the chord never drops the callback.
NoFilePoisonsBatch == chord # "error"

\* An accepted job reaches a terminal status.
AcceptedJobSettles == (api = "accepted") ~> (job \in TerminalJobStatuses)

\* Every file of an accepted job reaches a terminal status and in the end keeps
\* it, although a redelivered task may set it back to running on the way.
AcceptedFilesSettle == (api = "accepted") ~> [](MayForget \/ AllTerminal(Statuses))
=============================================================================
