-------------------------- MODULE JobServiceProofs --------------------------
(***************************************************************************)
(* Theorems about JobService for every set of files and workers, every     *)
(* choice of pipeline outcomes and every number of faults, as long as no   *)
(* message is delivered twice (OnceSpec).                                  *)
(***************************************************************************)
EXTENDS JobServiceInv, TLAPS, FiniteSetTheorems

----------------------------------------------------------------------------
\* The roll-up.

\* compute_job_status always yields a member of JobStatus (progress.py).
LEMMA ComputeType ==
  ASSUME NEW st PROVE ComputeJobStatus(st) \in JobStatuses
BY DEF ComputeJobStatus, JobStatuses, TerminalJobStatuses

----------------------------------------------------------------------------
\* Type correctness.

LEMMA EnterType ==
  ASSUME NEW w \in Workers, NEW p \in Phases, TypeOK, Enter(w, p)
  PROVE  /\ phase' \in [Workers -> Phases]
         /\ step' \in [Workers -> {"none", "load", "siblings", "job", "commit"}]
BY DEF TypeOK, Enter, FirstStep, Phases, TxPhases

LEMMA CloseSessionType ==
  ASSUME NEW w \in Workers, TypeOK, CloseSession(w)
  PROVE  /\ loaded' \in [Workers -> Row]
         /\ view' \in [Workers -> [Files -> FileStatus]]
         /\ seen' \in [Workers -> JobStatuses \cup {"absent"}]
BY DEF TypeOK, CloseSession, QueuedRow, Row, NoView, FileProgress, FileStatus

LEMMA ResultTypes ==
  /\ NoResult \in Results /\ Failure \in Results /\ Raised \in Results
  /\ Outcomes \subseteq Results
<1>1. /\ NoResult \in Results /\ Failure \in Results /\ Raised \in Results
  BY DEF NoResult, Failure, Raised, Results, TerminalFileStatuses
<1>2. ASSUME NEW r \in PipelineResults PROVE r \in Results
  <2>1. r \in [status : TerminalFileStatuses, chunks : BOOLEAN]
    BY DEF PipelineResults
  <2> QED
    BY <2>1 DEF Results
<1> QED
  BY <1>1, <1>2, OutcomesAssumption

LEMMA BecomeIdleType ==
  ASSUME NEW w \in Workers, TypeOK, BecomeIdle(w)
  PROVE  /\ task' \in [Workers -> Messages \cup {NoTask}]
         /\ phase' \in [Workers -> Phases]
         /\ step' \in [Workers -> {"none", "load", "siblings", "job", "commit"}]
         /\ loaded' \in [Workers -> Row]
         /\ view' \in [Workers -> [Files -> FileStatus]]
         /\ seen' \in [Workers -> JobStatuses \cup {"absent"}]
         /\ result' \in [Workers -> Results]
         /\ held' \in [Workers -> BOOLEAN]
<1>1. "idle" \in Phases
  BY DEF Phases
<1>2. Enter(w, "idle") /\ CloseSession(w)
  BY DEF BecomeIdle
<1> QED
  BY <1>1, <1>2, EnterType, CloseSessionType, ResultTypes DEF TypeOK, BecomeIdle

LEMMA ChordPartType ==
  ASSUME TypeOK, NEW part \in Files \X (TerminalFileStatuses \cup {"raised"}), ChordPart(part)
  PROVE  /\ ready' \in [Messages -> Nat]
         /\ returned' \subseteq Files \X (TerminalFileStatuses \cup {"raised"})
         /\ chord' \in {"counting", "fired", "error"}
<1>1. CASE chord # "counting"
  BY <1>1 DEF TypeOK, ChordPart, brokerVars
<1>2. CASE chord = "counting"
  <2> DEFINE parts == returned \cup {part}
             full  == published = Files /\ Cardinality(parts) = Cardinality(Files)
             sound == \A p \in parts : p[2] # "raised"
  <2>1. /\ returned' = parts
        /\ chord' = IF ~full THEN "counting" ELSE IF sound THEN "fired" ELSE "error"
        /\ ready' = IF full /\ sound THEN [ready EXCEPT ![Finalize] = @ + 1] ELSE ready
    BY <1>2 DEF ChordPart
  <2> HIDE DEF full, sound
  <2> QED
    BY <2>1 DEF TypeOK, Messages
<1> QED
  BY <1>1, <1>2

\* What a transaction is about to write to its file's row is a row.
LEMMA TargetType ==
  ASSUME TypeOK, ResultInv, NEW w \in Workers, phase[w] \in {"running", "result", "failure"}
  PROVE  Target(w) \in Row
<1>1. CASE phase[w] = "running"
  BY <1>1 DEF TypeOK, Target, Row, FileStatus, FileProgress
<1>2. CASE phase[w] # "running"
  <2>1. result[w].status \in TerminalFileStatuses
    BY <1>2 DEF ResultInv, ResultOK, Terminal
  <2>2. result[w].chunks \in BOOLEAN
    BY DEF TypeOK, Results
  <2> QED
    BY <1>2, <2>1, <2>2 DEF Target, Row, FileStatus, FileProgress
<1> QED
  BY <1>1, <1>2

LEMMA MergedType ==
  ASSUME NEW now \in Row, NEW from \in Row, NEW to \in Row
  PROVE  Merged(now, from, to) \in Row
BY DEF Merged, Row

LEMMA TypeStep ==
  ASSUME TypeOK, TaskInv, ResultInv, [Next]_vars PROVE TypeOK'
<1> USE FilesAssumption, OutcomesAssumption, FaultsAssumption
<1> USE DEF apiVars, dbVars, brokerVars, sessionVars, workerVars
<1>0. /\ TxPhases \subseteq Phases
      /\ {"idle", "work", "write", "writing", "return", "ack"} \subseteq Phases
  BY DEF Phases
<1>1. CASE UNCHANGED vars
  BY <1>1 DEF TypeOK, vars
<1>2. ASSUME NEW f \in Files, SaveUpload(f) PROVE TypeOK'
  BY <1>2 DEF TypeOK, SaveUpload
<1>3. CASE RefuseRequest
  BY <1>3 DEF TypeOK, RefuseRequest
<1>4. CASE CreateJob
  BY <1>4 DEF TypeOK, CreateJob, JobStatuses, Row, QueuedRow, FileStatus, FileProgress
<1>5. ASSUME NEW f \in Files, PublishTask(f) PROVE TypeOK'
  BY <1>5 DEF TypeOK, PublishTask, Messages
<1>6. CASE EnqueueFails
  BY <1>6 DEF TypeOK, EnqueueFails
<1>7. CASE Respond
  BY <1>7 DEF TypeOK, Respond
<1>8. ASSUME NEW w \in Workers, NEW m \in Messages, Deliver(w, m) PROVE TypeOK'
  <2>1. "finalize" \in Phases /\ "running" \in Phases
    BY DEF Phases, TxPhases
  <2>2. phase' \in [Workers -> Phases]
        /\ step' \in [Workers -> {"none", "load", "siblings", "job", "commit"}]
    BY <1>8, <2>1, EnterType DEF Deliver
  <2>3. ready' \in [Messages -> Nat]
    BY <1>8 DEF TypeOK, Deliver
  <2>4. task' \in [Workers -> Messages \cup {NoTask}] /\ held' \in [Workers -> BOOLEAN]
    BY <1>8 DEF TypeOK, Deliver
  <2> QED
    BY <1>8, <2>2, <2>3, <2>4 DEF TypeOK, Deliver
<1>9. ASSUME NEW w \in Workers, Load(w) PROVE TypeOK'
  <2>1. phase[w] \in {"running", "result", "failure"} /\ task[w] \in Files
    BY <1>9 DEF Load, TypeOK, TaskInv, TaskOK, TxPhases
  <2>2. CASE job = "absent"
    <3>1. AfterCommit(phase[w]) \in Phases
      BY <1>0 DEF AfterCommit
    <3>2. Enter(w, AfterCommit(phase[w])) /\ UNCHANGED loaded
      BY <1>9, <2>2 DEF Load
    <3> QED
      BY <1>9, <3>1, <3>2, EnterType DEF TypeOK, Load
  <2>3. CASE job # "absent"
    <3>1. loaded' \in [Workers -> Row]
      BY <1>9, <2>1, <2>3 DEF TypeOK, Load
    <3>2. step' \in [Workers -> {"none", "load", "siblings", "job", "commit"}] /\ UNCHANGED phase
      BY <1>9, <2>3 DEF TypeOK, Load
    <3> QED
      BY <1>9, <3>1, <3>2 DEF TypeOK, Load
  <2> QED
    BY <2>2, <2>3
<1>10. ASSUME NEW w \in Workers, ReadSiblings(w) PROVE TypeOK'
  <2>1. [f \in Files |-> IF f = task[w] THEN Target(w).status ELSE rows[f].status]
          \in [Files -> FileStatus]
    <3>1. task[w] \in Files => phase[w] \in {"running", "result", "failure"}
      BY <1>10 DEF ReadSiblings, TypeOK, TaskInv, TaskOK, TxPhases
    <3>2. task[w] \in Files => Target(w).status \in FileStatus
      BY <3>1, TargetType DEF Row
    <3> QED
      BY <3>2 DEF TypeOK, Row
  <2> QED
    BY <1>10, <2>1 DEF TypeOK, ReadSiblings
<1>11. ASSUME NEW w \in Workers, ReadJob(w) PROVE TypeOK'
  BY <1>11 DEF TypeOK, ReadJob
<1>12. ASSUME NEW w \in Workers, Commit(w) PROVE TypeOK'
  <2>1. rows' \in [Files -> Row]
    <3>1. CASE task[w] \in Files
      <4>1. phase[w] \in {"running", "result", "failure"}
        BY <1>12, <3>1 DEF Commit, TypeOK, TaskInv, TaskOK, TxPhases
      <4>2. Merged(rows[task[w]], loaded[w], Target(w)) \in Row
        BY <3>1, <4>1, TargetType, MergedType DEF TypeOK
      <4> QED
        BY <1>12, <3>1, <4>2 DEF TypeOK, Commit
    <3>2. CASE task[w] \notin Files
      BY <1>12, <3>2 DEF TypeOK, Commit
    <3> QED
      BY <3>1, <3>2
  <2>2. job' \in JobStatuses \cup {"absent"}
    BY <1>12, ComputeType DEF TypeOK, Commit, MergedJob, Computed
  <2>3. AfterCommit(phase[w]) \in Phases
    BY <1>0 DEF AfterCommit
  <2> QED
    BY <1>12, <2>1, <2>2, <2>3, EnterType, CloseSessionType DEF TypeOK, Commit
<1>13. ASSUME NEW w \in Workers, IngestFile(w) PROVE TypeOK'
  <2>1. result' \in [Workers -> Results]
    <3>1. PICK r \in Outcomes \cup {Failure} : result' = [result EXCEPT ![w] = r]
      BY <1>13 DEF IngestFile
    <3> QED
      BY <3>1, ResultTypes DEF TypeOK
  <2> QED
    BY <1>0, <1>13, <2>1, EnterType DEF TypeOK, IngestFile
<1>14. ASSUME NEW w \in Workers, OpenOutput(w) PROVE TypeOK'
  BY <1>0, <1>14, EnterType DEF TypeOK, OpenOutput
<1>15. ASSUME NEW w \in Workers, CloseOutput(w) PROVE TypeOK'
  <2>1. output' \in [Files -> {"absent", "torn", "empty", "chunks"}]
    BY <1>15 DEF TypeOK, CloseOutput
  <2>2. "result" \in Phases
    BY DEF Phases, TxPhases
  <2> QED
    BY <1>15, <2>1, <2>2, EnterType DEF TypeOK, CloseOutput
<1>16. ASSUME NEW w \in Workers, Return(w) PROVE TypeOK'
  <2>1. task[w] \in Files => result[w].status \in TerminalFileStatuses \cup {"raised"}
    BY <1>16 DEF Return, ResultInv, ResultOK, Terminal
  <2>2. /\ ready' \in [Messages -> Nat]
        /\ returned' \subseteq Files \X (TerminalFileStatuses \cup {"raised"})
        /\ chord' \in {"counting", "fired", "error"}
    BY <1>16, <2>1, ChordPartType DEF TypeOK, Return
  <2> QED
    BY <1>0, <1>16, <2>2, EnterType DEF TypeOK, Return
<1>17. ASSUME NEW w \in Workers, Ack(w) PROVE TypeOK'
  BY <1>17, BecomeIdleType DEF TypeOK, Ack
<1>18. ASSUME NEW w \in Workers, HandlerRaises(w) PROVE TypeOK'
  <2>1. "failure" \in Phases
    BY DEF Phases, TxPhases
  <2> QED
    BY <1>18, <2>1, EnterType, ResultTypes DEF TypeOK, HandlerRaises
<1>19. ASSUME NEW w \in Workers, DbError(w) PROVE TypeOK'
  <2>1. faults' \in [FaultKinds -> Nat]
    BY <1>19 DEF TypeOK, DbError, CountFault, FaultKinds
  <2>2. "failure" \in Phases /\ "return" \in Phases
    BY DEF Phases, TxPhases
  <2>3. phase' \in [Workers -> Phases]
        /\ step' \in [Workers -> {"none", "load", "siblings", "job", "commit"}]
    BY <1>19, <2>2, EnterType DEF DbError
  <2>4. result' \in [Workers -> Results]
    BY <1>19, ResultTypes DEF TypeOK, DbError
  <2>5. CloseSession(w)
    BY <1>19 DEF DbError
  <2> QED
    BY <1>19, <2>1, <2>3, <2>4, <2>5, CloseSessionType DEF TypeOK, DbError
<1>20. ASSUME NEW w \in Workers, PoolProcessLost(w) PROVE TypeOK'
  <2>1. faults' \in [FaultKinds -> Nat]
    BY <1>20 DEF TypeOK, PoolProcessLost, CountFault, FaultKinds
  <2>2. /\ ready' \in [Messages -> Nat]
        /\ returned' \subseteq Files \X (TerminalFileStatuses \cup {"raised"})
        /\ chord' \in {"counting", "fired", "error"}
    BY <1>20, ChordPartType DEF TypeOK, PoolProcessLost
  <2>3. BecomeIdle(w)
    BY <1>20 DEF PoolProcessLost
  <2> QED
    BY <1>20, <2>1, <2>2, <2>3, BecomeIdleType DEF TypeOK, PoolProcessLost
<1>21. ASSUME NEW w \in Workers, WorkerLost(w) PROVE TypeOK'
  <2>1. faults' \in [FaultKinds -> Nat]
    BY <1>21 DEF TypeOK, WorkerLost, CountFault, FaultKinds
  <2>2. ready' \in [Messages -> Nat]
    <3>1. task[w] \in Messages /\ ready \in [Messages -> Nat]
      BY <1>21 DEF TypeOK, WorkerLost, TaskInv, TaskOK
    <3>2. ready' = ready \/ ready' = [ready EXCEPT ![task[w]] = @ + 1]
      BY <1>21 DEF WorkerLost
    <3> QED
      BY <3>1, <3>2
  <2>3. BecomeIdle(w)
    BY <1>21 DEF WorkerLost
  <2> QED
    BY <1>21, <2>1, <2>2, <2>3, BecomeIdleType DEF TypeOK, WorkerLost
<1>22. ASSUME NEW w \in Workers, VisibilityTimeout(w) PROVE TypeOK'
  <2>1. faults' \in [FaultKinds -> Nat]
    BY <1>22 DEF TypeOK, VisibilityTimeout, CountFault, FaultKinds
  <2>2. ready' \in [Messages -> Nat] /\ held' \in [Workers -> BOOLEAN]
    <3>1. ready \in [Messages -> Nat] /\ held \in [Workers -> BOOLEAN]
      BY DEF TypeOK
    <3>2. CASE task[w] \in Messages
      BY <1>22, <3>1, <3>2 DEF VisibilityTimeout
    <3>3. CASE task[w] \notin Messages
      BY <1>22, <3>1, <3>3 DEF VisibilityTimeout
    <3> QED
      BY <3>2, <3>3
  <2> QED
    BY <1>22, <2>1, <2>2 DEF TypeOK, VisibilityTimeout
<1> QED
  BY <1>1, <1>2, <1>3, <1>4, <1>5, <1>6, <1>7, <1>8, <1>9, <1>10, <1>11, <1>12, <1>13,
     <1>14, <1>15, <1>16, <1>17, <1>18, <1>19, <1>20, <1>21, <1>22
     DEF Next, ApiNext, WorkerNext, HandlerNext, Redelivery

\* Redelivery only adds steps: what holds of Next holds of OnceNext.
LEMMA OnceIsNext == OnceNext => Next
BY DEF OnceNext, Next

\* Without redelivery the row vouches for what ResultInv says.
LEMMA PhaseResult == ASSUME PhaseInv PROVE ResultInv
BY DEF PhaseInv, PhaseOK, ResultInv, ResultOK

----------------------------------------------------------------------------
\* Frames: what the steps of a worker and of the request handler leave alone.

LEMMA OthersKeep ==
  ASSUME TypeOK, NEW w \in Workers, WorkerNext(w) \/ Redelivery(w), NEW v \in Workers, v # w
  PROVE  /\ task'[v] = task[v] /\ phase'[v] = phase[v] /\ step'[v] = step[v]
         /\ loaded'[v] = loaded[v] /\ view'[v] = view[v] /\ seen'[v] = seen[v]
         /\ result'[v] = result[v] /\ held'[v] = held[v]
<1> USE DEF TypeOK, Enter, CloseSession, sessionVars
<1>1. ASSUME NEW m \in Messages, Deliver(w, m)
      PROVE  /\ task'[v] = task[v] /\ phase'[v] = phase[v] /\ step'[v] = step[v]
             /\ UNCHANGED <<loaded, view, seen, result>> /\ held'[v] = held[v]
  BY <1>1 DEF Deliver
<1>2. CASE Load(w)
  BY <1>2 DEF Load
<1>3. CASE ReadSiblings(w) \/ ReadJob(w)
  BY <1>3 DEF ReadSiblings, ReadJob
<1>4. CASE Commit(w)
  BY <1>4 DEF Commit
<1>5. CASE IngestFile(w) \/ HandlerRaises(w)
  BY <1>5 DEF IngestFile, HandlerRaises
<1>6. CASE OpenOutput(w) \/ CloseOutput(w) \/ Return(w)
  BY <1>6 DEF OpenOutput, CloseOutput, Return
<1>7. CASE Ack(w) \/ PoolProcessLost(w) \/ WorkerLost(w)
  BY <1>7 DEF Ack, PoolProcessLost, WorkerLost, BecomeIdle
<1>8. CASE DbError(w)
  BY <1>8 DEF DbError
<1>9. CASE VisibilityTimeout(w)
  BY <1>9 DEF VisibilityTimeout
<1> QED
  BY <1>1, <1>2, <1>3, <1>4, <1>5, <1>6, <1>7, <1>8, <1>9 DEF WorkerNext, HandlerNext, Redelivery

\* A worker's step changes at most one row: that of its own file, by committing.
LEMMA RowsKeep ==
  ASSUME TypeOK, NEW w \in Workers, WorkerNext(w), NEW f \in Files, ~(Commit(w) /\ f = task[w])
  PROVE  rows'[f] = rows[f]
<1> USE DEF TypeOK, dbVars
<1>1. CASE Commit(w)
  BY <1>1 DEF Commit
<1>2. CASE \E m \in Messages : Deliver(w, m)
  BY <1>2 DEF Deliver
<1>3. CASE Load(w) \/ ReadSiblings(w) \/ ReadJob(w) \/ DbError(w)
  BY <1>3 DEF Load, ReadSiblings, ReadJob, DbError
<1>4. CASE IngestFile(w) \/ HandlerRaises(w) \/ OpenOutput(w) \/ CloseOutput(w)
  BY <1>4 DEF IngestFile, HandlerRaises, OpenOutput, CloseOutput
<1>5. CASE Return(w) \/ Ack(w) \/ PoolProcessLost(w)
  BY <1>5 DEF Return, Ack, PoolProcessLost
<1> QED
  BY <1>1, <1>2, <1>3, <1>4, <1>5 DEF WorkerNext, HandlerNext

LEMMA WorkerKeeps ==
  ASSUME NEW w \in Workers, WorkerNext(w)
  PROVE  UNCHANGED <<api, uploads, published>>
BY DEF WorkerNext, HandlerNext, apiVars, Deliver, Load, ReadSiblings, ReadJob, Commit, DbError,
       IngestFile, HandlerRaises, OpenOutput, CloseOutput, Return, Ack, PoolProcessLost

\* The request handler touches no worker and no chord.
LEMMA ApiLeavesWorkers ==
  ASSUME ApiNext
  PROVE  UNCHANGED <<task, phase, step, loaded, view, seen, result, held, returned, chord, faults>>
BY DEF ApiNext, SaveUpload, PublishTask, RefuseRequest, CreateJob, EnqueueFails, Respond,
       workerVars, sessionVars, brokerVars

\* Neither does it touch a status: when it
\* creates the rows there is nothing to overwrite.
LEMMA ApiKeeps ==
  ASSUME TypeOK, ApiInv, QueueInv, ApiNext
  PROVE  /\ UNCHANGED <<task, phase, step, loaded, view, seen, result, returned, chord>>
         /\ \A f \in Files : rows'[f].status = rows[f].status
         /\ published # {} => UNCHANGED rows
<1> USE DEF workerVars, sessionVars, brokerVars, dbVars
<1>1. CASE CreateJob
  <2>1. published = {}
    BY <1>1 DEF CreateJob, ApiInv
  <2>2. \A f \in Files : rows[f].status = "queued" /\ rows'[f].status = "queued"
    BY <1>1, <2>1 DEF CreateJob, QueueInv, QueuedRow
  <2> QED
    BY <1>1, <2>1, <2>2 DEF CreateJob
<1>2. CASE \E f \in Files : SaveUpload(f) \/ PublishTask(f)
  BY <1>2 DEF SaveUpload, PublishTask
<1>3. CASE RefuseRequest \/ EnqueueFails \/ Respond
  BY <1>3 DEF RefuseRequest, EnqueueFails, Respond
<1> QED
  BY <1>1, <1>2, <1>3 DEF ApiNext

\* A commit gives the row the status the handler meant it to have.
LEMMA CommitStatus ==
  ASSUME TypeOK, TaskInv, PhaseInv, LoadedInv, NEW w \in Workers, Commit(w), task[w] \in Files
  PROVE  rows'[task[w]].status = Target(w).status
<1>1. loaded[w] = rows[task[w]]
  BY DEF LoadedInv, LoadedOK, Commit
<1>2. rows'[task[w]] = Merged(rows[task[w]], loaded[w], Target(w))
  BY DEF Commit, TypeOK
<1> QED
  BY <1>1, <1>2 DEF Merged

\* Another worker's file keeps its row through a worker's step.
LEMMA OthersRowKeeps ==
  ASSUME TypeOK, OwnerInv, NEW w \in Workers, WorkerNext(w),
         NEW v \in Workers, v # w, task[v] \in Files
  PROVE  rows'[task[v]] = rows[task[v]]
BY RowsKeep DEF OwnerInv

\* Only a delivery takes a file's message from the queue, and only the request
\* handler puts one there.
LEMMA ReadyKeeps ==
  ASSUME TypeOK, NEW w \in Workers, WorkerNext(w), NEW f \in Files, ~Deliver(w, f)
  PROVE  ready'[f] = ready[f]
<1> USE FilesAssumption DEF TypeOK, brokerVars, Messages
<1>1. ASSUME NEW m \in Messages, Deliver(w, m) PROVE ready'[f] = ready[f]
  <2>1. m # f
    BY <1>1
  <2> QED
    BY <1>1, <2>1 DEF Deliver
<1>2. CASE Load(w) \/ ReadSiblings(w) \/ ReadJob(w) \/ Commit(w) \/ DbError(w)
  BY <1>2 DEF Load, ReadSiblings, ReadJob, Commit, DbError
<1>3. CASE IngestFile(w) \/ HandlerRaises(w) \/ OpenOutput(w) \/ CloseOutput(w) \/ Ack(w)
  BY <1>3 DEF IngestFile, HandlerRaises, OpenOutput, CloseOutput, Ack
<1>4. ASSUME NEW part, ChordPart(part) PROVE ready'[f] = ready[f]
  BY <1>4 DEF ChordPart
<1>5. CASE Return(w) \/ PoolProcessLost(w)
  BY <1>4, <1>5 DEF Return, PoolProcessLost
<1> QED
  BY <1>1, <1>2, <1>3, <1>5 DEF WorkerNext, HandlerNext

\* Apart from a delivery a worker keeps its message or drops it.
LEMMA TaskKeeps ==
  ASSUME TypeOK, NEW w \in Workers, WorkerNext(w), \A m \in Messages : ~Deliver(w, m)
  PROVE  task'[w] = task[w] \/ task'[w] = NoTask
BY DEF TypeOK, WorkerNext, HandlerNext, Load, ReadSiblings, ReadJob, Commit, DbError, IngestFile,
       HandlerRaises, OpenOutput, CloseOutput, Return, Ack, PoolProcessLost, BecomeIdle

\* The chord's set grows only by the part of the worker that returns or is lost.
LEMMA ReturnedKeeps ==
  ASSUME NEW w \in Workers, WorkerNext(w)
  PROVE  \/ UNCHANGED returned
         \/ /\ task[w] \in Files
            /\ Return(w)
            /\ returned' = returned \cup {<<task[w], result[w].status>>}
         \/ /\ task[w] \in Files
            /\ PoolProcessLost(w)
            /\ returned' = returned \cup {<<task[w], "raised">>}
<1>1. ASSUME NEW part, ChordPart(part) PROVE UNCHANGED returned \/ returned' = returned \cup {part}
  BY <1>1 DEF ChordPart, brokerVars
<1>2. CASE Return(w)
  BY <1>1, <1>2 DEF Return, brokerVars
<1>3. CASE PoolProcessLost(w)
  BY <1>1, <1>3 DEF PoolProcessLost, brokerVars
<1>4. CASE ~Return(w) /\ ~PoolProcessLost(w)
  BY <1>4 DEF WorkerNext, HandlerNext, brokerVars, Deliver, Load, ReadSiblings, ReadJob, Commit,
     DbError, IngestFile, HandlerRaises, OpenOutput, CloseOutput, Ack
<1> QED
  BY <1>2, <1>3, <1>4

----------------------------------------------------------------------------
\* The inductive step, one conjunct of the invariant at a time.

LEMMA ApiStep ==
  ASSUME IInv, OnceNext PROVE ApiInv'
<1> USE DEF ApiInv
<1>1. ASSUME NEW w \in Workers, WorkerNext(w) PROVE ApiInv'
  <2>1. UNCHANGED <<api, uploads, published>>
    BY <1>1, WorkerKeeps
  <2>2. job' = "absent" <=> job = "absent"
    <3>1. CASE Commit(w)
      <4>1. Computed(w) # "absent"
        BY ComputeType DEF Computed, JobStatuses, TerminalJobStatuses
      <4>2. seen[w] # "absent"
        BY <3>1 DEF IInv, SeenInv, SeenOK, Commit
      <4>3. job # "absent"
        <5>1. task[w] \in Files \/ chord = "fired"
          BY <3>1 DEF Commit, IInv, TypeOK, TaskInv, TaskOK, TxPhases, ChordInv
        <5>2. published # {}
          BY <5>1, FilesAssumption DEF IInv, ChordInv, OwnerInv, ReturnedInv
        <5> QED
          BY <5>2 DEF IInv
      <4> QED
        BY <3>1, <4>1, <4>2, <4>3 DEF Commit, MergedJob
    <3>2. CASE ~Commit(w)
      BY <1>1, <3>2 DEF WorkerNext, HandlerNext, dbVars, Deliver, Load, ReadSiblings, ReadJob, DbError,
         IngestFile, HandlerRaises, OpenOutput, CloseOutput, Return, Ack, PoolProcessLost
    <3> QED
      BY <3>1, <3>2
  <2> QED
    BY <2>1, <2>2 DEF IInv
<1>2. ASSUME NEW f \in Files, SaveUpload(f) \/ PublishTask(f) PROVE ApiInv'
  BY <1>2 DEF IInv, SaveUpload, PublishTask, dbVars
<1>3. CASE RefuseRequest \/ CreateJob \/ EnqueueFails \/ Respond
  BY <1>3 DEF IInv, RefuseRequest, CreateJob, EnqueueFails, Respond, dbVars
<1> QED
  BY <1>1, <1>2, <1>3 DEF OnceNext, ApiNext

LEMMA TaskStep ==
  ASSUME TypeOK, TaskInv, Next PROVE TaskInv'
<1> USE FilesAssumption DEF TaskOK
<1>1. CASE ApiNext
  BY <1>1, ApiLeavesWorkers DEF TaskInv
<1>2. ASSUME NEW w \in Workers, WorkerNext(w) \/ Redelivery(w), NEW v \in Workers PROVE TaskOK(v)'
  <2>1. CASE v # w
    BY <1>2, <2>1, OthersKeep DEF TaskInv
  <2>2. CASE v = w
    <3> DEFINE Functions == /\ task \in [Workers -> Messages \cup {NoTask}]
                            /\ phase \in [Workers -> Phases]
                            /\ step \in [Workers -> {"none", "load", "siblings", "job", "commit"}]
    <3> Functions /\ TaskOK(w)
      BY DEF TypeOK, TaskInv
    <3> USE <2>2 DEF Enter, FirstStep, TxPhases, sessionVars
    <3>1. ASSUME NEW m \in Messages, Deliver(w, m) PROVE TaskOK(w)'
      BY <3>1 DEF Deliver, Messages, Finalize, NoTask
    <3>2. CASE Load(w)
      BY <3>2 DEF Load, AfterCommit
    <3>3. CASE ReadSiblings(w) \/ ReadJob(w)
      BY <3>3 DEF ReadSiblings, ReadJob
    <3>4. CASE Commit(w)
      BY <3>4 DEF Commit, AfterCommit
    <3>5. CASE IngestFile(w) \/ HandlerRaises(w) \/ OpenOutput(w) \/ CloseOutput(w)
      BY <3>5 DEF IngestFile, HandlerRaises, OpenOutput, CloseOutput
    <3>6. CASE Return(w)
      BY <3>6 DEF Return
    <3>7. CASE Ack(w) \/ PoolProcessLost(w) \/ WorkerLost(w)
      BY <3>7 DEF Ack, PoolProcessLost, WorkerLost, BecomeIdle
    <3>8. CASE DbError(w)
      BY <3>8 DEF DbError
    <3>9. CASE VisibilityTimeout(w)
      BY <3>9 DEF VisibilityTimeout
    <3> QED
      BY <1>2, <2>2, <3>1, <3>2, <3>3, <3>4, <3>5, <3>6, <3>7, <3>8, <3>9
         DEF WorkerNext, HandlerNext, Redelivery
  <2> QED
    BY <2>1, <2>2
<1> QED
  BY <1>1, <1>2 DEF Next, TaskInv

LEMMA QueueStep ==
  ASSUME IInv, OnceNext PROVE QueueInv'
<1> USE FilesAssumption DEF QueueInv
<1>1. CASE ApiNext
  <2>1. \A f \in Files : rows'[f].status = rows[f].status
    BY <1>1, ApiKeeps DEF IInv
  <2>2. ASSUME NEW f \in Files, PublishTask(f) PROVE QueueInv'
    <3>1. ready' = [ready EXCEPT ![f] = @ + 1] /\ published' = published \cup {f} /\ f \notin published
      BY <2>2 DEF PublishTask
    <3>2. ready[f] = 0 /\ rows[f].status = "queued"
      BY <3>1 DEF IInv
    <3>3. ready \in [Messages -> Nat] /\ Files \subseteq Messages
      BY DEF IInv, TypeOK, Messages
    <3> QED
      BY <2>1, <3>1, <3>2, <3>3 DEF IInv
  <2>3. CASE UNCHANGED <<ready, published>>
    BY <2>1, <2>3 DEF IInv
  <2> QED
    BY <1>1, <2>2, <2>3 DEF ApiNext, SaveUpload, RefuseRequest, CreateJob, EnqueueFails, Respond,
       brokerVars
<1>2. ASSUME NEW w \in Workers, WorkerNext(w), NEW f \in Files
      PROVE  /\ f \notin published' => ready'[f] = 0 /\ rows'[f].status = "queued"
             /\ ready'[f] # 0 => ready'[f] = 1 /\ rows'[f].status = "queued"
  <2>1. UNCHANGED published
    BY <1>2, WorkerKeeps
  <2>2. CASE Deliver(w, f)
    BY <2>1, <2>2 DEF IInv, TypeOK, Deliver, Messages, dbVars
  <2>3. CASE ~Deliver(w, f) /\ ~(Commit(w) /\ f = task[w])
    BY <1>2, <2>1, <2>3, ReadyKeeps, RowsKeep DEF IInv
  <2>4. CASE ~Deliver(w, f) /\ Commit(w) /\ f = task[w]
    BY <1>2, <2>1, <2>4, ReadyKeeps DEF IInv, OwnerInv
  <2> QED
    BY <2>2, <2>3, <2>4
<1> QED
  BY <1>1, <1>2 DEF OnceNext

LEMMA OwnerStep ==
  ASSUME IInv, OnceNext PROVE OwnerInv'
<1> USE FilesAssumption
<1>1. CASE ApiNext
  <2>1. UNCHANGED task
    BY <1>1, ApiKeeps DEF IInv
  <2>2. ASSUME NEW f \in Files, PublishTask(f) PROVE OwnerInv'
    BY <2>1, <2>2 DEF IInv, TypeOK, PublishTask, Messages, OwnerInv
  <2>3. CASE UNCHANGED <<ready, published>>
    BY <2>1, <2>3 DEF IInv, OwnerInv
  <2> QED
    BY <1>1, <2>2, <2>3 DEF ApiNext, SaveUpload, RefuseRequest, CreateJob, EnqueueFails, Respond,
       brokerVars
<1>2. ASSUME NEW w \in Workers, NEW m \in Messages, Deliver(w, m) PROVE OwnerInv'
  <2>1. task' = [task EXCEPT ![w] = m] /\ ready' = [ready EXCEPT ![m] = @ - 1] /\ ready[m] > 0
    BY <1>2 DEF Deliver
  <2>2. UNCHANGED published
    BY <1>2 DEF Deliver, apiVars
  <2>3. m \in Files => m \in published /\ ready[m] = 1 /\ \A v \in Workers : task[v] # m
    BY <2>1 DEF IInv, TypeOK, QueueInv, OwnerInv
  <2> QED
    BY <2>1, <2>2, <2>3 DEF IInv, TypeOK, OwnerInv
<1>3. ASSUME NEW w \in Workers, WorkerNext(w), \A m \in Messages : ~Deliver(w, m) PROVE OwnerInv'
  <2>1. UNCHANGED published /\ \A f \in Files : ready'[f] = ready[f]
    BY <1>3, WorkerKeeps, ReadyKeeps DEF IInv, Messages
  <2>2. \A v \in Workers : task'[v] = task[v] \/ task'[v] = NoTask
    BY <1>3, TaskKeeps, OthersKeep DEF IInv
  <2> QED
    BY <2>1, <2>2 DEF IInv, OwnerInv
<1> QED
  BY <1>1, <1>2, <1>3 DEF OnceNext

LEMMA ReturnedStep ==
  ASSUME IInv, OnceNext PROVE ReturnedInv'
<1> USE FilesAssumption
<1>1. CASE ApiNext
  <2>1. UNCHANGED <<task, phase, returned>> /\ \A f \in Files : rows'[f].status = rows[f].status
    BY <1>1, ApiKeeps DEF IInv
  <2>2. \A f \in published : f \in published' /\ ready'[f] = ready[f]
    BY <1>1 DEF ApiNext, SaveUpload, PublishTask, RefuseRequest, CreateJob, EnqueueFails, Respond,
       brokerVars, IInv, TypeOK, Messages
  <2> QED
    BY <2>1, <2>2 DEF IInv, TypeOK, ReturnedInv
<1>2. ASSUME NEW w \in Workers, WorkerNext(w) PROVE ReturnedInv'
  <2>1. ASSUME NEW p \in returned
        PROVE  /\ p[1] \in published' /\ ready'[p[1]] = 0
               /\ \A v \in Workers : task'[v] = p[1] => phase'[v] = "ack"
               /\ p[2] = "raised" \/ rows'[p[1]].status = p[2]
    <3>1. /\ p[1] \in Files /\ p[1] \in published /\ ready[p[1]] = 0
          /\ \A v \in Workers : task[v] = p[1] => phase[v] = "ack"
          /\ p[2] = "raised" \/ rows[p[1]].status = p[2]
      BY DEF IInv, TypeOK, ReturnedInv
    <3>2. ~Deliver(w, p[1])
      BY <3>1 DEF Deliver
    <3>3. UNCHANGED published /\ ready'[p[1]] = ready[p[1]]
      BY <1>2, <3>1, <3>2, WorkerKeeps, ReadyKeeps DEF IInv
    <3>4. ~(Commit(w) /\ p[1] = task[w])
      BY <3>1 DEF Commit, IInv, TaskInv, TaskOK, TxPhases
    <3>5. rows'[p[1]] = rows[p[1]]
      BY <1>2, <3>1, <3>4, RowsKeep DEF IInv
    <3>6. task'[w] = p[1] => phase'[w] = "ack"
      <4>1. CASE task[w] = p[1]
        <5>1. phase[w] = "ack" /\ step[w] = "none" /\ task[w] # NoTask
          BY <3>1, <4>1 DEF IInv, TaskInv, TaskOK, TxPhases
        <5>2. Ack(w)
          BY <1>2, <5>1 DEF WorkerNext, HandlerNext, Deliver, Load, ReadSiblings, ReadJob, Commit,
             DbError, IngestFile, HandlerRaises, OpenOutput, CloseOutput, Return, PoolProcessLost,
             TxPhases
        <5>3. task'[w] = NoTask
          BY <5>2 DEF Ack, BecomeIdle, IInv, TypeOK
        <5> QED
          BY <3>1, <5>3
      <4>2. CASE task[w] # p[1]
        <5>1. ASSUME NEW m \in Messages, Deliver(w, m) PROVE task'[w] # p[1]
          BY <3>2, <5>1 DEF Deliver, IInv, TypeOK
        <5>2. CASE \A m \in Messages : ~Deliver(w, m)
          BY <1>2, <3>1, <4>2, <5>2, TaskKeeps DEF IInv
        <5> QED
          BY <5>1, <5>2
      <4> QED
        BY <4>1, <4>2
    <3>7. ASSUME NEW v \in Workers, v # w PROVE task'[v] = p[1] => phase'[v] = "ack"
      BY <1>2, <3>1, <3>7, OthersKeep DEF IInv
    <3> QED
      BY <3>1, <3>3, <3>5, <3>6, <3>7
  <2>2. CASE UNCHANGED returned
    BY <2>1, <2>2 DEF IInv, ReturnedInv
  <2>3. ASSUME NEW s, task[w] \in Files, returned' = returned \cup {<<task[w], s>>},
               phase[w] \notin {"idle", "ack"},
               task'[w] = task[w] => phase'[w] = "ack",
               s = "raised" \/ rows[task[w]].status = s,
               ~Commit(w), \A f \in Files : ~Deliver(w, f)
        PROVE  ReturnedInv'
    <3> DEFINE part == <<task[w], s>>
    <3>1. /\ part[1] \in published' /\ ready'[part[1]] = 0
          /\ part[2] = "raised" \/ rows'[part[1]].status = part[2]
      BY <1>2, <2>3, WorkerKeeps, ReadyKeeps, RowsKeep DEF IInv, OwnerInv
    <3>2. \A v \in Workers : task'[v] = part[1] => phase'[v] = "ack"
      <4>1. ASSUME NEW v \in Workers, v # w PROVE task'[v] # part[1]
        BY <1>2, <2>3, <4>1, OthersKeep DEF IInv, OwnerInv
      <4> QED
        BY <2>3, <4>1
    <3>3. \A p \in returned : p[1] # part[1]
      BY <2>3 DEF IInv, ReturnedInv
    <3>4. \A p, q \in returned : p[1] = q[1] => p = q
      BY DEF IInv, ReturnedInv
    <3> HIDE DEF part
    <3>5. returned' = returned \cup {part}
      BY <2>3 DEF part
    <3> QED
      BY <2>1, <3>1, <3>2, <3>3, <3>4, <3>5 DEF ReturnedInv
  <2>4. ASSUME NEW s, task[w] \in Files, Return(w), s = result[w].status,
               returned' = returned \cup {<<task[w], s>>}
        PROVE  ReturnedInv'
    <3>1. phase[w] = "return" /\ phase'[w] = "ack"
      BY <2>4 DEF Return, Enter, IInv, TypeOK
    <3>2. s = "raised" \/ rows[task[w]].status = s
      BY <2>4, <3>1 DEF IInv, PhaseInv, PhaseOK
    <3>3. step[w] = "none" /\ task[w] # NoTask
      BY <2>4, <3>1 DEF IInv, TaskInv, TaskOK, TxPhases
    <3> QED
      BY <2>3, <2>4, <3>1, <3>2, <3>3 DEF Commit, Deliver
  <2>5. ASSUME NEW s, task[w] \in Files, PoolProcessLost(w), s = "raised",
               returned' = returned \cup {<<task[w], s>>}
        PROVE  ReturnedInv'
    <3>1. phase[w] \notin {"idle", "ack"} /\ task'[w] = NoTask
      BY <2>5 DEF PoolProcessLost, BecomeIdle, IInv, TypeOK
    <3>2. \A f \in Files : ~Deliver(w, f)
      BY <2>5 DEF Deliver
    <3>3. ~Commit(w)
      BY <2>5, <3>1 DEF Commit
    <3> QED
      BY <2>3, <2>5, <3>1, <3>2, <3>3
  <2> QED
    BY <1>2, <2>2, <2>4, <2>5, ReturnedKeeps
<1> QED
  BY <1>1, <1>2 DEF OnceNext

\* A worker with a message implies published files and committed rows.
LEMMA Executing ==
  ASSUME IInv, NEW w \in Workers, task[w] # NoTask PROVE published # {} /\ job # "absent"
<1>1. task[w] \in Files \/ chord = "fired"
  BY DEF IInv, TypeOK, Messages, ChordInv
<1>2. published # {}
  BY <1>1, FilesAssumption DEF IInv, ChordInv, OwnerInv, ReturnedInv
<1> QED
  BY <1>2 DEF IInv, ApiInv

\* A row that is about to be committed is not terminal, so a worker's step
\* leaves every terminal row as it is.
LEMMA CommitsNonTerminal ==
  ASSUME IInv, NEW w \in Workers, Commit(w), task[w] \in Files
  PROVE  phase[w] \in {"running", "result", "failure"} /\ rows[task[w]].status \notin Terminal
<1>1. phase[w] \in {"running", "result", "failure"}
  BY FilesAssumption DEF Commit, IInv, TaskInv, TaskOK, TxPhases
<1>2. rows[task[w]].status \in {"queued", "running"}
  BY <1>1 DEF IInv, PhaseInv, PhaseOK
<1> QED
  BY <1>1, <1>2 DEF Terminal, TerminalFileStatuses

LEMMA TerminalKeeps ==
  ASSUME IInv, NEW w \in Workers, WorkerNext(w), NEW f \in Files, rows[f].status \in Terminal
  PROVE  rows'[f] = rows[f]
BY CommitsNonTerminal, RowsKeep DEF IInv

LEMMA PhaseStep ==
  ASSUME IInv, OnceNext PROVE PhaseInv'
<1> USE FilesAssumption
<1>1. CASE ApiNext
  <2>1. /\ UNCHANGED <<task, phase, result>>
        /\ \A f \in Files : rows'[f].status = rows[f].status
    BY <1>1, ApiKeeps DEF IInv
  <2> QED
    BY <2>1 DEF IInv, PhaseInv, PhaseOK, TaskInv, TaskOK
<1>2. ASSUME NEW w \in Workers, WorkerNext(w), NEW v \in Workers PROVE PhaseOK(v)'
  <2>1. CASE v # w
    <3>1. task'[v] = task[v] /\ phase'[v] = phase[v] /\ result'[v] = result[v]
      BY <1>2, <2>1, OthersKeep DEF IInv
    <3>2. task[v] \in Files => rows'[task[v]] = rows[task[v]]
      BY <1>2, <2>1, OthersRowKeeps DEF IInv
    <3> QED
      BY <3>1, <3>2 DEF IInv, PhaseInv, PhaseOK, TaskInv, TaskOK
  <2>2. CASE v = w
    <3> DEFINE Functions == /\ task \in [Workers -> Messages \cup {NoTask}]
                            /\ phase \in [Workers -> Phases]
                            /\ result \in [Workers -> Results]
    <3> Functions /\ TaskOK(w) /\ PhaseOK(w)
      BY DEF IInv, TypeOK, TaskInv, PhaseInv
    <3> USE <2>2 DEF Enter, sessionVars, dbVars, TaskOK, PhaseOK
    <3>1. ASSUME NEW m \in Messages, Deliver(w, m) PROVE PhaseOK(w)'
      <4>1. m \in Files => rows[m].status = "queued"
        BY <3>1 DEF Deliver, IInv, QueueInv, TypeOK
      <4> QED
        BY <3>1, <4>1 DEF Deliver, Messages
    <3>2. CASE Load(w)
      <4>1. job # "absent"
        BY <3>2, Executing DEF Load, TxPhases
      <4> QED
        BY <3>2, <4>1 DEF Load
    <3>3. CASE ReadSiblings(w) \/ ReadJob(w)
      BY <3>3 DEF ReadSiblings, ReadJob
    <3>4. CASE Commit(w)
      <4>1. phase'[w] = AfterCommit(phase[w]) /\ UNCHANGED <<task, result>>
        BY <3>4 DEF Commit
      <4>2. CASE task[w] \in Files
        <5>1. rows'[task[w]].status = Target(w).status
          BY <3>4, <4>2, CommitStatus DEF IInv
        <5>2. phase[w] \in {"running", "result", "failure"}
          BY <3>4, <4>2, CommitsNonTerminal
        <5> QED
          BY <4>1, <4>2, <5>1, <5>2 DEF AfterCommit, Target
      <4>3. CASE task[w] \notin Files
        BY <3>4, <4>1, <4>3 DEF AfterCommit, Commit
      <4> QED
        BY <4>2, <4>3
    <3>5. CASE IngestFile(w)
      <4>1. PICK r \in Outcomes \cup {Failure} : result' = [result EXCEPT ![w] = r]
        BY <3>5 DEF IngestFile
      <4>2. r.status \in Terminal
        BY <4>1, OutcomesAssumption DEF PipelineResults, Failure, Terminal, TerminalFileStatuses
      <4> QED
        BY <3>5, <4>1, <4>2 DEF IngestFile
    <3>6. CASE HandlerRaises(w)
      BY <3>6 DEF HandlerRaises, Failure, Terminal, TerminalFileStatuses
    <3>7. CASE OpenOutput(w) \/ CloseOutput(w)
      BY <3>7 DEF OpenOutput, CloseOutput
    <3>8. CASE Return(w)
      BY <3>8 DEF Return
    <3>9. CASE Ack(w) \/ PoolProcessLost(w)
      BY <3>9 DEF Ack, PoolProcessLost, BecomeIdle
    <3>10. CASE DbError(w)
      BY <3>10 DEF DbError, Failure, Raised, Terminal, TerminalFileStatuses
    <3> QED
      BY <1>2, <2>2, <3>1, <3>2, <3>3, <3>4, <3>5, <3>6, <3>7, <3>8, <3>9, <3>10
         DEF WorkerNext, HandlerNext
  <2> QED
    BY <2>1, <2>2
<1> QED
  BY <1>1, <1>2 DEF OnceNext, PhaseInv

\* Apart from the SELECTs of a transaction, a step leaves a worker before the
\* first of them or outside any transaction.
LEMMA StepAfter ==
  ASSUME IInv, NEW w \in Workers, WorkerNext(w), ~Load(w), ~ReadSiblings(w), ~ReadJob(w)
  PROVE  step'[w] \in {"none", "load"} \/ (step'[w] = "siblings" /\ task'[w] = Finalize)
<1> USE FilesAssumption DEF Enter, FirstStep, TxPhases
<1>1. /\ task \in [Workers -> Messages \cup {NoTask}]
      /\ step \in [Workers -> {"none", "load", "siblings", "job", "commit"}]
  BY DEF IInv, TypeOK
<1>2. ASSUME NEW m \in Messages, Deliver(w, m)
      PROVE  step'[w] \in {"none", "load"} \/ (step'[w] = "siblings" /\ task'[w] = Finalize)
  BY <1>1, <1>2 DEF Deliver
<1>3. CASE Commit(w)
  BY <1>1, <1>3 DEF Commit, AfterCommit
<1>4. CASE IngestFile(w) \/ HandlerRaises(w) \/ OpenOutput(w) \/ CloseOutput(w) \/ Return(w)
  BY <1>1, <1>4 DEF IngestFile, HandlerRaises, OpenOutput, CloseOutput, Return
<1>5. CASE Ack(w) \/ PoolProcessLost(w)
  BY <1>1, <1>5 DEF Ack, PoolProcessLost, BecomeIdle
<1>6. CASE DbError(w)
  BY <1>1, <1>6 DEF DbError
<1> QED
  BY <1>2, <1>3, <1>4, <1>5, <1>6 DEF WorkerNext, HandlerNext

LEMMA LoadedStep ==
  ASSUME IInv, OnceNext PROVE LoadedInv'
<1> USE FilesAssumption
<1>1. CASE ApiNext
  <2>1. UNCHANGED <<task, step, loaded>> /\ (published # {} => UNCHANGED rows)
    BY <1>1, ApiKeeps DEF IInv
  <2>2. ASSUME NEW w \in Workers, task[w] \in Files PROVE published # {}
    BY <2>2, Executing
  <2> QED
    BY <2>1, <2>2 DEF IInv, LoadedInv, LoadedOK
<1>2. ASSUME NEW w \in Workers, WorkerNext(w), NEW v \in Workers PROVE LoadedOK(v)'
  <2>1. CASE v # w
    <3>1. task'[v] = task[v] /\ step'[v] = step[v] /\ loaded'[v] = loaded[v]
      BY <1>2, <2>1, OthersKeep DEF IInv
    <3>2. task[v] \in Files => rows'[task[v]] = rows[task[v]]
      BY <1>2, <2>1, OthersRowKeeps DEF IInv
    <3> QED
      BY <3>1, <3>2 DEF IInv, LoadedInv, LoadedOK
  <2>2. CASE v = w
    <3>1. CASE Load(w)
      <4>1. job # "absent"
        BY <3>1, Executing DEF Load, TxPhases, IInv, TaskInv, TaskOK
      <4> QED
        BY <2>2, <3>1, <4>1 DEF Load, LoadedOK, IInv, TypeOK, dbVars
    <3>2. CASE ReadSiblings(w) \/ ReadJob(w)
      BY <2>2, <3>2 DEF ReadSiblings, ReadJob, LoadedOK, IInv, LoadedInv, dbVars
    <3>3. CASE ~Load(w) /\ ~ReadSiblings(w) /\ ~ReadJob(w)
      BY <1>2, <2>2, <3>3, StepAfter DEF LoadedOK
    <3> QED
      BY <3>1, <3>2, <3>3
  <2> QED
    BY <2>1, <2>2
<1> QED
  BY <1>1, <1>2 DEF OnceNext, LoadedInv

\* While finalize_job runs every row is terminal.
LEMMA FinalizeRows ==
  ASSUME IInv, NEW w \in Workers, task[w] = Finalize, NEW f \in Files
  PROVE  rows[f].status \in Terminal
<1>1. PICK p \in returned : p[1] = f /\ p[2] # "raised"
  BY DEF IInv, ChordInv
<1>2. p[2] \in Terminal /\ rows[f].status = p[2]
  BY <1>1 DEF IInv, TypeOK, ReturnedInv, Terminal
<1> QED
  BY <1>2

LEMMA ViewStep ==
  ASSUME IInv, OnceNext PROVE ViewInv'
<1> USE FilesAssumption
<1>1. CASE ApiNext
  <2>1. /\ UNCHANGED <<task, phase, step, loaded, view, result>>
        /\ \A f \in Files : rows'[f].status = rows[f].status
    BY <1>1, ApiKeeps DEF IInv
  <2>2. \A w \in Workers : Target(w)'.status = Target(w).status
    BY <2>1 DEF Target
  <2> QED
    BY <2>1, <2>2 DEF IInv, ViewInv, ViewOK
<1>2. ASSUME NEW w \in Workers, WorkerNext(w), NEW v \in Workers PROVE ViewOK(v)'
  <2>1. CASE v # w
    <3>1. /\ task'[v] = task[v] /\ phase'[v] = phase[v] /\ step'[v] = step[v]
          /\ view'[v] = view[v] /\ result'[v] = result[v]
      BY <1>2, <2>1, OthersKeep DEF IInv
    <3>2. Target(v)'.status = Target(v).status
      BY <3>1 DEF Target
    <3>3. ASSUME NEW f \in Files, rows[f].status \in Terminal PROVE rows'[f] = rows[f]
      BY <1>2, <3>3, TerminalKeeps
    <3>4. ASSUME NEW f \in Files, task[v] = Finalize PROVE rows[f].status \in Terminal
      BY <3>4, FinalizeRows
    <3> QED
      BY <3>1, <3>2, <3>3, <3>4 DEF IInv, ViewInv, ViewOK
  <2>2. CASE v = w
    <3>1. CASE ReadSiblings(w)
      <4>1. /\ view'[w] = [f \in Files |->
                             IF f = task[w] THEN Target(w).status ELSE rows[f].status]
            /\ UNCHANGED <<task, phase, result, rows>>
        BY <3>1 DEF ReadSiblings, IInv, TypeOK, dbVars
      <4>2. Target(w)'.status = Target(w).status
        BY <4>1 DEF Target
      <4> QED
        BY <2>2, <4>1, <4>2 DEF ViewOK
    <3>2. CASE ReadJob(w)
      <4>1. UNCHANGED <<task, phase, result, rows, view>> /\ step[w] = "job"
        BY <3>2 DEF ReadJob, dbVars
      <4>2. Target(w)'.status = Target(w).status
        BY <4>1 DEF Target
      <4> QED
        BY <2>2, <4>1, <4>2 DEF IInv, ViewInv, ViewOK
    <3>3. CASE Load(w)
      <4>1. job # "absent"
        BY <3>3, Executing DEF Load, TxPhases, IInv, TaskInv, TaskOK
      <4> QED
        BY <2>2, <3>3, <4>1 DEF Load, ViewOK, IInv, TypeOK
    <3>4. CASE ~Load(w) /\ ~ReadSiblings(w) /\ ~ReadJob(w)
      BY <1>2, <2>2, <3>4, StepAfter DEF ViewOK
    <3> QED
      BY <3>1, <3>2, <3>3, <3>4
  <2> QED
    BY <2>1, <2>2
<1> QED
  BY <1>1, <1>2 DEF OnceNext, ViewInv

\* A set of <<file, result>> parts with one part per file that is as large as
\* the set of files has a part for every file (the chord's count, Redis).
LEMMA FullChord ==
  ASSUME NEW parts, \A p \in parts : p[1] \in Files,
         \A p, q \in parts : p[1] = q[1] => p = q,
         Cardinality(parts) = Cardinality(Files)
  PROVE  \A f \in Files : \E p \in parts : p[1] = f
<1> DEFINE file == [p \in parts |-> p[1]]
<1>1. file \in Injection(parts, Files)
  BY DEF Injection, IsInjective
<1>2. file \in Surjection(parts, Files)
  BY <1>1, FS_Injection, FilesAssumption
<1> QED
  BY <1>2 DEF Surjection

\* A step by which the chord fires completes it with sound parts only; and the
\* callback's message is queued by no other step.
LEMMA ChordFires ==
  ASSUME TypeOK, NEW w \in Workers, WorkerNext(w)
  PROVE  /\ chord = "fired" => chord' = "fired"
         /\ chord # "fired" /\ chord' = "fired" =>
              /\ Cardinality(returned') = Cardinality(Files)
              /\ \A p \in returned' : p[2] # "raised"
         /\ ready'[Finalize] > 0 => ready[Finalize] > 0 \/ chord' = "fired"
<1> USE FilesAssumption DEF brokerVars
<1> DEFINE Goal ==
      /\ chord = "fired" => chord' = "fired"
      /\ chord # "fired" /\ chord' = "fired" =>
           /\ Cardinality(returned') = Cardinality(Files)
           /\ \A p \in returned' : p[2] # "raised"
      /\ ready'[Finalize] > 0 => ready[Finalize] > 0 \/ chord' = "fired"
<1>0. CASE UNCHANGED brokerVars
  BY <1>0
<1>1. ASSUME NEW m \in Messages, Deliver(w, m) PROVE Goal
  <2>1. UNCHANGED chord /\ ready' = [ready EXCEPT ![m] = @ - 1]
    BY <1>1 DEF Deliver
  <2> QED
    BY <2>1 DEF TypeOK, Messages
<1>2. ASSUME NEW part, ChordPart(part) PROVE Goal
  <2>1. CASE chord # "counting"
    BY <1>0, <1>2, <2>1 DEF ChordPart
  <2>2. CASE chord = "counting"
    <3> DEFINE parts == returned \cup {part}
               full  == published = Files /\ Cardinality(parts) = Cardinality(Files)
               sound == \A p \in parts : p[2] # "raised"
    <3>1. /\ returned' = parts
          /\ chord' = IF ~full THEN "counting" ELSE IF sound THEN "fired" ELSE "error"
          /\ ready' = IF full /\ sound THEN [ready EXCEPT ![Finalize] = @ + 1] ELSE ready
      BY <1>2, <2>2 DEF ChordPart
    <3> QED
      BY <2>2, <3>1
  <2> QED
    BY <2>1, <2>2
<1>3. CASE Return(w) \/ PoolProcessLost(w)
  BY <1>0, <1>2, <1>3 DEF Return, PoolProcessLost
<1>4. CASE Load(w) \/ ReadSiblings(w) \/ ReadJob(w) \/ Commit(w) \/ DbError(w)
  BY <1>0, <1>4 DEF Load, ReadSiblings, ReadJob, Commit, DbError
<1>5. CASE IngestFile(w) \/ HandlerRaises(w) \/ OpenOutput(w) \/ CloseOutput(w) \/ Ack(w)
  BY <1>0, <1>5 DEF IngestFile, HandlerRaises, OpenOutput, CloseOutput, Ack
<1> QED
  BY <1>1, <1>3, <1>4, <1>5 DEF WorkerNext, HandlerNext

LEMMA ChordStep ==
  ASSUME IInv, OnceNext PROVE ChordInv'
<1> USE FilesAssumption
<1>1. CASE ApiNext
  <2>1. UNCHANGED <<task, returned, chord>>
    BY <1>1, ApiKeeps DEF IInv
  <2>2. ready'[Finalize] = ready[Finalize]
    BY <1>1 DEF ApiNext, SaveUpload, PublishTask, RefuseRequest, CreateJob, EnqueueFails, Respond,
       brokerVars, IInv, TypeOK, Messages
  <2> QED
    BY <2>1, <2>2 DEF IInv, ChordInv
<1>2. ASSUME NEW w \in Workers, WorkerNext(w) PROVE ChordInv'
  <2>1. /\ chord = "fired" => chord' = "fired"
        /\ chord # "fired" /\ chord' = "fired" =>
             /\ Cardinality(returned') = Cardinality(Files)
             /\ \A p \in returned' : p[2] # "raised"
        /\ ready'[Finalize] > 0 => ready[Finalize] > 0 \/ chord' = "fired"
    BY <1>2, ChordFires DEF IInv
  <2>2. returned \subseteq returned'
    BY <1>2, ReturnedKeeps
  <2>3. ASSUME chord' = "fired" PROVE \A f \in Files : \E p \in returned' : p[1] = f /\ p[2] # "raised"
    <3>1. CASE chord = "fired"
      BY <2>2, <3>1 DEF IInv, ChordInv
    <3>2. CASE chord # "fired"
      <4>1. /\ \A p \in returned' : p[1] \in Files
            /\ \A p, q \in returned' : p[1] = q[1] => p = q
        BY <1>2, OnceIsNext, PhaseResult, TypeStep, ReturnedStep DEF IInv, OnceNext, TypeOK, ReturnedInv
      <4> QED
        BY <2>1, <2>3, <3>2, <4>1, FullChord
    <3> QED
      BY <3>1, <3>2
  <2>4. ASSUME NEW v \in Workers, task'[v] = Finalize
        PROVE  task[v] = Finalize \/ ready[Finalize] > 0
    <3>1. CASE v # w
      BY <1>2, <2>4, <3>1, OthersKeep DEF IInv
    <3>2. ASSUME NEW m \in Messages, Deliver(w, m), v = w PROVE ready[Finalize] > 0
      BY <2>4, <3>2 DEF Deliver, IInv, TypeOK
    <3>3. CASE v = w /\ \A m \in Messages : ~Deliver(w, m)
      BY <1>2, <2>4, <3>3, TaskKeeps DEF IInv, Finalize, NoTask
    <3> QED
      BY <3>1, <3>2, <3>3
  <2> QED
    BY <2>1, <2>3, <2>4 DEF IInv, ChordInv
<1> QED
  BY <1>1, <1>2 DEF OnceNext

\* What a transaction commits: never a job that is queued again, and a terminal
\* roll-up only of statuses that are the rows' own (repository.py).
LEMMA Commits ==
  ASSUME IInv, NEW w \in Workers, Commit(w)
  PROVE  /\ Computed(w) # "queued"
         /\ AllTerminal(view[w]) => view[w] = Statuses'
         /\ job # "absent" /\ seen[w] # "absent"
         /\ task[w] \notin Files => UNCHANGED rows /\ task[w] = Finalize
<1> USE FilesAssumption
<1>1. step[w] = "commit" /\ task[w] # NoTask /\ task[w] \in Messages
  BY DEF Commit, IInv, TypeOK, TaskInv, TaskOK, TxPhases
<1>2. job # "absent" /\ seen[w] # "absent"
  BY <1>1, Executing DEF IInv, SeenInv, SeenOK
<1>3. view[w] \in [Files -> FileStatus]
  BY DEF IInv, TypeOK
<1>4. CASE task[w] \in Files
  <2>1. phase[w] \in {"running", "result", "failure"} /\ rows[task[w]].status \notin Terminal
    BY <1>4, CommitsNonTerminal
  <2>2. Target(w).status # "queued"
    BY <2>1 DEF Target, IInv, PhaseInv, PhaseOK, Terminal, TerminalFileStatuses
  <2>3. view[w][task[w]] = Target(w).status
    BY <1>1, <1>4 DEF IInv, ViewInv, ViewOK
  <2>4. Computed(w) # "queued"
    BY <1>3, <1>4, <2>2, <2>3 DEF Computed, ComputeJobStatus
  <2>5. rows'[task[w]].status = Target(w).status
    BY <1>4, CommitStatus DEF IInv
  <2>6. ASSUME NEW f \in Files, f # task[w] PROVE rows'[f] = rows[f]
    BY <2>6 DEF Commit, IInv, TypeOK
  <2>7. ASSUME AllTerminal(view[w]), NEW f \in Files PROVE view[w][f] = rows'[f].status
    <3>1. view[w][f] \in Terminal
      BY <1>3, <2>7 DEF AllTerminal, Terminal
    <3> QED
      BY <1>1, <2>3, <2>5, <2>6, <3>1 DEF IInv, ViewInv, ViewOK
  <2> QED
    BY <1>2, <1>3, <1>4, <2>4, <2>7 DEF Statuses
<1>5. CASE task[w] \notin Files
  <2>1. task[w] = Finalize /\ UNCHANGED rows
    BY <1>1, <1>5 DEF Messages, Commit
  <2>2. \A f \in Files : view[w][f] = rows[f].status /\ view[w][f] \in Terminal
    BY <1>1, <2>1, FinalizeRows DEF IInv, ViewInv, ViewOK
  <2>3. Computed(w) # "queued"
    BY <1>3, <2>2 DEF Computed, ComputeJobStatus, Terminal, TerminalFileStatuses
  <2> QED
    BY <1>2, <1>3, <2>1, <2>2, <2>3 DEF Statuses
<1> QED
  BY <1>4, <1>5

\* Only a commit and the creation of the rows write jobs.status.
LEMMA JobKeeps ==
  ASSUME NEW w \in Workers, WorkerNext(w), ~Commit(w) PROVE UNCHANGED <<job, rows>>
BY DEF WorkerNext, HandlerNext, dbVars, Deliver, Load, ReadSiblings, ReadJob, DbError, IngestFile,
       HandlerRaises, OpenOutput, CloseOutput, Return, Ack, PoolProcessLost

\* Once it has left queued the job never goes back.
LEMMA JobNotQueued ==
  ASSUME IInv, NEW w \in Workers, WorkerNext(w), job # "queued" PROVE job' # "queued"
<1>1. CASE Commit(w)
  BY <1>1, Commits DEF Commit, MergedJob
<1>2. CASE ~Commit(w)
  BY <1>2, JobKeeps
<1> QED
  BY <1>1, <1>2

LEMMA SeenStep ==
  ASSUME IInv, OnceNext PROVE SeenInv'
<1> USE FilesAssumption
<1>0. ASSUME NEW v \in Workers, step[v] # "none" PROVE job # "absent" /\ published # {}
  BY <1>0, Executing DEF IInv, TaskInv, TaskOK, TxPhases
<1>1. CASE ApiNext
  <2>1. UNCHANGED <<step, seen>>
    BY <1>1, ApiKeeps DEF IInv
  <2>2. job # "absent" => UNCHANGED job
    BY <1>1 DEF ApiNext, SaveUpload, PublishTask, RefuseRequest, CreateJob, EnqueueFails, Respond,
       dbVars, IInv, ApiInv
  <2> QED
    BY <1>0, <2>1, <2>2 DEF IInv, SeenInv, SeenOK
<1>2. ASSUME NEW w \in Workers, WorkerNext(w), NEW v \in Workers PROVE SeenOK(v)'
  <2>1. job # "queued" => job' # "queued"
    BY <1>2, JobNotQueued
  <2>2. CASE v # w
    <3>1. step'[v] = step[v] /\ seen'[v] = seen[v]
      BY <1>2, <2>2, OthersKeep DEF IInv
    <3> QED
      BY <2>1, <3>1 DEF IInv, SeenInv, SeenOK
  <2>3. CASE v = w
    <3>1. CASE ReadJob(w)
      <4>1. seen'[w] = job /\ UNCHANGED job /\ step[w] = "job"
        BY <3>1 DEF ReadJob, IInv, TypeOK, dbVars
      <4> QED
        BY <1>0, <2>3, <4>1 DEF SeenOK
    <3>2. CASE Load(w) \/ ReadSiblings(w)
      <4>1. step'[w] # "commit"
        <5>1. CASE Load(w)
          BY <1>0, <5>1 DEF Load, IInv, TypeOK
        <5>2. CASE ReadSiblings(w)
          BY <5>2 DEF ReadSiblings, IInv, TypeOK
        <5> QED
          BY <3>2, <5>1, <5>2
      <4> QED
        BY <2>3, <4>1 DEF SeenOK
    <3>3. CASE ~Load(w) /\ ~ReadSiblings(w) /\ ~ReadJob(w)
      BY <1>2, <2>3, <3>3, StepAfter DEF SeenOK
    <3> QED
      BY <3>1, <3>2, <3>3
  <2> QED
    BY <2>2, <2>3
<1> QED
  BY <1>1, <1>2 DEF OnceNext, SeenInv

\* A roll-up is terminal only if everything it rolls up is (progress.py).
LEMMA TerminalRollUp ==
  ASSUME NEW st, ComputeJobStatus(st) \in TerminalJobStatuses PROVE AllTerminal(st)
BY DEF ComputeJobStatus, TerminalJobStatuses

LEMMA JobStep ==
  ASSUME IInv, OnceNext PROVE JobInv'
<1> USE FilesAssumption
<1>1. CASE ApiNext
  <2>1. \A f \in Files : rows'[f].status = rows[f].status
    BY <1>1, ApiKeeps DEF IInv
  <2>2. Statuses' = Statuses
    BY <2>1 DEF Statuses
  <2>3. CASE UNCHANGED job
    BY <2>1, <2>2, <2>3 DEF IInv, JobInv, JobStatusSound
  <2>4. CASE CreateJob
    BY <2>4 DEF CreateJob, QueuedRow, JobInv, JobStatusSound, TerminalJobStatuses
  <2> QED
    BY <1>1, <2>3, <2>4 DEF ApiNext, SaveUpload, PublishTask, RefuseRequest, EnqueueFails, Respond,
       dbVars
<1>2. ASSUME NEW w \in Workers, WorkerNext(w) PROVE JobInv'
  <2>1. CASE ~Commit(w)
    <3>1. UNCHANGED <<job, rows>>
      BY <1>2, <2>1, JobKeeps
    <3> QED
      BY <3>1 DEF IInv, JobInv, JobStatusSound, Statuses
  <2>2. CASE Commit(w)
    <3>1. /\ Computed(w) # "queued"
          /\ AllTerminal(view[w]) => view[w] = Statuses'
          /\ seen[w] # "absent"
          /\ task[w] \notin Files => UNCHANGED rows /\ task[w] = Finalize
      BY <2>2, Commits
    <3>2. job' = IF Computed(w) = seen[w] THEN job ELSE Computed(w)
      BY <2>2, <3>1 DEF Commit, MergedJob
    <3>3. ASSUME job' = "queued" PROVE FALSE
      <4>1. job = "queued" /\ Computed(w) = seen[w]
        BY <3>1, <3>2, <3>3
      <4>2. \A f \in Files : rows[f].status = "queued"
        BY <4>1 DEF IInv, JobInv
      <4>3. task[w] \in Files
        BY <3>1, <4>2, FinalizeRows DEF Terminal, TerminalFileStatuses
      <4>4. phase[w] = "running"
        BY <2>2, <4>2, <4>3, CommitsNonTerminal DEF IInv, PhaseInv, PhaseOK
      <4>5. view[w][task[w]] = "running" /\ view[w] \in [Files -> FileStatus]
        BY <2>2, <4>3, <4>4 DEF Commit, IInv, TypeOK, ViewInv, ViewOK, Target
      <4>6. Computed(w) = "running"
        BY <4>3, <4>5 DEF Computed, ComputeJobStatus, AllTerminal, TerminalFileStatuses
      <4> QED
        BY <2>2, <4>1, <4>6 DEF Commit, IInv, SeenInv, SeenOK
    <3>4. ASSUME job' \in TerminalJobStatuses
          PROVE  AllTerminal(Statuses') /\ job' = ComputeJobStatus(Statuses')
      <4>1. CASE Computed(w) = seen[w]
        <5>1. job' = job
          BY <3>2, <4>1
        <5>2. AllTerminal(Statuses) /\ job = ComputeJobStatus(Statuses)
          BY <3>4, <5>1 DEF IInv, JobInv, JobStatusSound
        <5>3. \A f \in Files : rows[f].status \in Terminal
          BY <5>2 DEF AllTerminal, Statuses, Terminal
        <5>4. UNCHANGED rows
          BY <2>2, <3>1, <5>3, CommitsNonTerminal
        <5>5. Statuses' = Statuses
          BY <5>4 DEF Statuses
        <5> QED
          BY <5>1, <5>2, <5>5
      <4>2. CASE Computed(w) # seen[w]
        <5>1. job' = ComputeJobStatus(view[w])
          BY <3>2, <4>2 DEF Computed
        <5>2. AllTerminal(view[w])
          BY <3>4, <5>1, TerminalRollUp
        <5> QED
          BY <3>1, <5>1, <5>2
      <4> QED
        BY <4>1, <4>2
    <3> QED
      BY <3>3, <3>4 DEF JobInv, JobStatusSound
  <2> QED
    BY <2>1, <2>2
<1> QED
  BY <1>1, <1>2 DEF OnceNext

----------------------------------------------------------------------------
\* The job's row, once it is final.

\* The job's row once the rows exist: the request handler leaves it alone.
LEMMA ApiJob ==
  ASSUME IInv, ApiNext
  PROVE  UNCHANGED job \/ (job = "absent" /\ job' = "queued")
BY DEF IInv, ApiInv, ApiNext, SaveUpload, PublishTask, RefuseRequest, CreateJob, EnqueueFails,
       Respond, dbVars

\* A roll-up of terminal files is terminal (progress.py).
LEMMA RollUpTerminal ==
  ASSUME NEW st, AllTerminal(st), DOMAIN st # {}
  PROVE  ComputeJobStatus(st) \in TerminalJobStatuses
BY DEF ComputeJobStatus, TerminalJobStatuses

\* What finalize_job computes is final.
LEMMA FinalizeComputes ==
  ASSUME IInv, NEW w \in Workers, Commit(w), task[w] = Finalize
  PROVE  /\ view[w] = Statuses
         /\ Computed(w) \in TerminalJobStatuses
<1> USE FilesAssumption
<1>1. \A f \in Files : rows[f].status \in TerminalFileStatuses
  BY FinalizeRows DEF Terminal
<1>2. view[w] = Statuses
  BY <1>1 DEF Commit, IInv, TypeOK, ViewInv, ViewOK, Statuses
<1>3. AllTerminal(Statuses) /\ DOMAIN Statuses # {}
  BY <1>1 DEF AllTerminal, Statuses
<1> QED
  BY <1>2, <1>3, RollUpTerminal DEF Computed

\* A final job status is written again only as it is.
LEMMA FinalKeeps ==
  ASSUME IInv, NEW w \in Workers, WorkerNext(w), job \in TerminalJobStatuses
  PROVE  UNCHANGED job
<1> USE FilesAssumption
<1>1. AllTerminal(Statuses) /\ job = ComputeJobStatus(Statuses)
  BY DEF IInv, JobInv, JobStatusSound
<1>2. \A f \in Files : rows[f].status \in Terminal
  BY <1>1 DEF AllTerminal, Statuses, Terminal
<1>3. ASSUME Commit(w) PROVE UNCHANGED job
  <2>1. task[w] = Finalize
    BY <1>2, <1>3, CommitsNonTerminal, Commits
  <2>2. Computed(w) = job
    BY <1>1, <1>3, <2>1, FinalizeComputes DEF Computed
  <2> QED
    BY <1>3, <2>2 DEF Commit, MergedJob
<1> QED
  BY <1>3, JobKeeps

----------------------------------------------------------------------------
\* The invariant and the theorems.

LEMMA InitInv == ASSUME Init PROVE IInv
<1> USE FilesAssumption DEF Init
<1>1. TypeOK
  BY DEF TypeOK, FileStatus, JobStatuses, Row, QueuedRow, NoView, NoResult, Results, FileProgress,
     Messages, Phases
<1>2. ApiInv /\ TaskInv /\ OwnerInv /\ ReturnedInv
  BY DEF ApiInv, TaskInv, TaskOK, TxPhases, OwnerInv, ReturnedInv
<1>3. QueueInv
  BY DEF QueueInv, QueuedRow, Messages
<1>4. PhaseInv /\ LoadedInv /\ ViewInv /\ SeenInv
  BY DEF PhaseInv, PhaseOK, LoadedInv, LoadedOK, ViewInv, ViewOK, SeenInv, SeenOK
<1>5. ChordInv /\ JobInv
  BY DEF ChordInv, JobInv, JobStatusSound, Messages, Finalize, NoTask, TerminalJobStatuses
<1> QED
  BY <1>1, <1>2, <1>3, <1>4, <1>5 DEF IInv

LEMMA StutterInv == ASSUME IInv, UNCHANGED vars PROVE IInv'
<1> USE DEF vars, apiVars, dbVars, brokerVars, sessionVars, workerVars
<1>1. TypeOK' /\ ApiInv' /\ TaskInv' /\ QueueInv' /\ OwnerInv' /\ ReturnedInv'
  BY DEF IInv, TypeOK, ApiInv, TaskInv, TaskOK, QueueInv, OwnerInv, ReturnedInv
<1>2. PhaseInv' /\ LoadedInv'
  BY DEF IInv, PhaseInv, PhaseOK, LoadedInv, LoadedOK
<1>3. ViewInv'
  BY DEF IInv, ViewInv, ViewOK, Target
<1>4. ChordInv' /\ SeenInv' /\ JobInv'
  BY DEF IInv, ChordInv, SeenInv, SeenOK, JobInv, JobStatusSound, Statuses
<1> QED
  BY <1>1, <1>2, <1>3, <1>4 DEF IInv

\* The inductive invariant holds in every behaviour without redelivery.
THEOREM Invariance == OnceSpec => []IInv
<1>1. Init => IInv
  BY InitInv
<1>2. IInv /\ [OnceNext]_vars => IInv'
  <2>1. ASSUME IInv, OnceNext PROVE IInv'
    <3>1. TypeOK' /\ TaskInv'
      BY <2>1, OnceIsNext, PhaseResult, TypeStep, TaskStep DEF IInv
    <3> QED
      BY <2>1, <3>1, ApiStep, QueueStep, OwnerStep, ReturnedStep, PhaseStep, LoadedStep,
         ViewStep, ChordStep, SeenStep, JobStep DEF IInv
  <2> QED
    BY <2>1, StutterInv
<1> QED
  BY <1>1, <1>2, PTL DEF OnceSpec

\* Every variable keeps its type (service/models.py's vocabularies included).
THEOREM TypeCorrect == OnceSpec => []TypeOK
<1>1. IInv => TypeOK
  BY DEF IInv
<1> QED
  BY <1>1, Invariance, PTL

\* jobs.status is terminal only when every file is, and is then their roll-up,
\* for every number of files, workers and faults (repository.py, tasks.py).
THEOREM JobStatusIsSound == OnceSpec => []JobStatusSound
<1>1. IInv => JobStatusSound
  BY DEF IInv, JobInv
<1> QED
  BY <1>1, Invariance, PTL

\* finalize_job is queued or running only when every file is terminal (tasks.py).
THEOREM FinalizeIsLast == OnceSpec => []FinalizeSeesAll
<1>1. IInv => FinalizeSeesAll
  <2> SUFFICES ASSUME IInv, ready[Finalize] > 0 \/ \E w \in Workers : task[w] = Finalize
               PROVE  \A f \in Files : rows[f].status \in TerminalFileStatuses
    BY DEF FinalizeSeesAll, AllTerminal, Statuses
  <2>1. chord = "fired"
    BY DEF IInv, ChordInv
  <2>2. TAKE f \in Files
  <2>3. PICK p \in returned : p[1] = f /\ p[2] # "raised"
    BY <2>1 DEF IInv, ChordInv
  <2> QED
    BY <2>3 DEF IInv, TypeOK, ReturnedInv
<1> QED
  BY <1>1, Invariance, PTL

\* A worker never meets a task without a committed row and a saved upload
\* (api.py's order: save, commit, enqueue).
THEOREM DeliveredHasInputs == OnceSpec => []DeliveredTaskHasInputs
<1>1. IInv => DeliveredTaskHasInputs
  <2> SUFFICES ASSUME IInv, NEW f \in Files, ready[f] > 0 \/ \E w \in Workers : task[w] = f
               PROVE  job # "absent" /\ f \in uploads
    BY DEF DeliveredTaskHasInputs
  <2>1. f \in published
    BY DEF IInv, QueueInv, OwnerInv
  <2> QED
    BY <2>1 DEF IInv, ApiInv
<1> QED
  BY <1>1, Invariance, PTL

\* What a task told the chord is what its file's row says (tasks.py).
THEOREM ReturnIsRecorded == OnceSpec => []ReturnedMeansRecorded
<1>1. IInv => ReturnedMeansRecorded
  BY DEF IInv, ReturnedInv, ReturnedMeansRecorded
<1> QED
  BY <1>1, Invariance, PTL
=============================================================================
