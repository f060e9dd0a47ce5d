------------------------- MODULE JobServiceOutcome -------------------------
(***************************************************************************)
(* What comes of a job in JobService: 1 to 3 when every message is         *)
(* delivered once (OnceSpec), 4 when messages are delivered again (Spec).  *)
(*                                                                         *)
(* 1. A row that names an output file has a complete one: OutputInv is     *)
(*    inductive relative to IInv.                                          *)
(* 2. Once the job has come to rest, and if no transaction failed and no   *)
(*    process died, jobs.status is the roll-up of the files, whatever      *)
(*    updates concurrent transactions lost on the way: QuietInv is         *)
(*    inductive relative to IInv.                                          *)
(* 3. The service implements JobLifecycle: the job and its files move only *)
(*    as the abstract specification allows.                                *)
(* 4. A worker dies with its message unacknowledged, or a task overruns    *)
(*    the visibility timeout and a second copy of it runs beside the       *)
(*    first.  A file then has several owners and IInv is lost;             *)
(*    RedeliveryInv is what survives, and it suffices for NoFileLost.      *)
(***************************************************************************)
EXTENDS JobServiceProofs


----------------------------------------------------------------------------
\* 1. The output files.

\* A worker's step writes only the output of its own file, whose row says running.
LEMMA OutputKeeps ==
  ASSUME IInv, NEW w \in Workers, WorkerNext(w), NEW f \in Files,
         f # task[w] \/ phase[w] \notin {"write", "writing"}
  PROVE  output'[f] = output[f]
<1>1. CASE OpenOutput(w) \/ CloseOutput(w)
  BY <1>1 DEF OpenOutput, CloseOutput, IInv, TypeOK
<1>2. CASE ~OpenOutput(w) /\ ~CloseOutput(w)
  BY <1>2 DEF WorkerNext, HandlerNext, Deliver, Load, ReadSiblings, ReadJob, Commit, DbError,
     IngestFile, HandlerRaises, Return, Ack, PoolProcessLost
<1> QED
  BY <1>1, <1>2

\* A row that gains an output path gets it with its result.
LEMMA CommitOutput ==
  ASSUME IInv, OutputInv, NEW w \in Workers, Commit(w), task[w] \in Files,
         rows'[task[w]].output
  PROVE  rows'[task[w]].status \in {"done", "partial"} /\ output[task[w]] = "chunks"
<1>1. phase[w] \in {"running", "result", "failure"}
  BY CommitsNonTerminal
<1>2. rows'[task[w]] = Merged(rows[task[w]], rows[task[w]], Target(w))
  <2>1. loaded[w] = rows[task[w]]
    BY DEF Commit, IInv, LoadedInv, LoadedOK
  <2>2. rows'[task[w]] = Merged(rows[task[w]], loaded[w], Target(w))
    BY DEF Commit, IInv, TypeOK
  <2> QED
    BY <2>1, <2>2
<1>3. rows'[task[w]].output = Target(w).output /\ rows'[task[w]].status = Target(w).status
  <2> DEFINE new == Merged(rows[task[w]], rows[task[w]], Target(w))
  <2>1. new.output = Target(w).output /\ new.status = Target(w).status
    BY DEF Merged
  <2> QED
    BY <1>2, <2>1
<1>4. phase[w] # "running"
  <2>1. phase[w] = "running" => Target(w).output = rows[task[w]].output
    BY DEF Commit, Target, IInv, LoadedInv, LoadedOK
  <2>2. phase[w] = "running" => rows[task[w]].status = "queued"
    BY DEF IInv, PhaseInv, PhaseOK
  <2> QED
    BY <1>3, <2>1, <2>2 DEF OutputInv, OutputWhole
<1>5. result[w].chunks
  BY <1>3, <1>4 DEF Target
<1>6. phase[w] = "result" /\ result[w].status # "failed" /\ output[task[w]] = "chunks"
  BY <1>1, <1>4, <1>5 DEF OutputInv, OutputOK
<1>7. result[w].status \in {"done", "partial"}
  BY <1>6 DEF IInv, PhaseInv, PhaseOK, Terminal, TerminalFileStatuses
<1> QED
  BY <1>3, <1>4, <1>6, <1>7 DEF Target

LEMMA OutputWholeStep ==
  ASSUME IInv, OutputInv, OnceNext PROVE OutputWhole'
<1>1. CASE ApiNext
  <2>1. CASE CreateJob
    BY <2>1 DEF CreateJob, QueuedRow, OutputWhole
  <2>2. CASE ~CreateJob
    BY <1>1, <2>2 DEF ApiNext, SaveUpload, PublishTask, RefuseRequest, EnqueueFails, Respond, dbVars,
       OutputInv, OutputWhole
  <2> QED
    BY <2>1, <2>2
<1>2. ASSUME NEW w \in Workers, WorkerNext(w), NEW f \in Files, rows'[f].output
      PROVE  rows'[f].status \in {"done", "partial"} /\ output'[f] = "chunks"
  <2>1. CASE Commit(w) /\ f = task[w]
    <3>1. UNCHANGED output
      BY <2>1 DEF Commit
    <3> QED
      BY <1>2, <2>1, <3>1, CommitOutput
  <2>2. CASE ~(Commit(w) /\ f = task[w])
    <3>1. rows'[f] = rows[f]
      BY <1>2, <2>2, RowsKeep DEF IInv
    <3>2. rows[f].status \in {"done", "partial"} /\ output[f] = "chunks"
      BY <1>2, <3>1 DEF OutputInv, OutputWhole
    <3>3. f # task[w] \/ phase[w] \notin {"write", "writing"}
      BY <3>2 DEF IInv, PhaseInv, PhaseOK
    <3> QED
      BY <1>2, <3>1, <3>2, <3>3, OutputKeeps
  <2> QED
    BY <2>1, <2>2
<1> QED
  BY <1>1, <1>2 DEF OnceNext, OutputWhole

LEMMA OutputOKStep ==
  ASSUME IInv, OutputInv, OnceNext, NEW v \in Workers PROVE OutputOK(v)'
<1> USE FilesAssumption
<1>1. CASE ApiNext
  <2>1. UNCHANGED <<task, phase, result>>
    BY <1>1, ApiKeeps DEF IInv
  <2>2. UNCHANGED output
    BY <1>1 DEF ApiNext, SaveUpload, PublishTask, RefuseRequest, CreateJob, EnqueueFails, Respond
  <2> QED
    BY <2>1, <2>2 DEF OutputInv, OutputOK
<1>2. ASSUME NEW w \in Workers, WorkerNext(w), v # w PROVE OutputOK(v)'
  <2>1. task'[v] = task[v] /\ phase'[v] = phase[v] /\ result'[v] = result[v]
    BY <1>2, OthersKeep DEF IInv
  <2>2. phase[v] = "result" => task[v] \in Files /\ task[v] # task[w]
    BY <1>2 DEF IInv, TaskInv, TaskOK, OwnerInv
  <2>3. phase[v] = "result" => output'[task[v]] = output[task[v]]
    BY <1>2, <2>2, OutputKeeps
  <2> QED
    BY <2>1, <2>3 DEF OutputInv, OutputOK
<1>3. ASSUME NEW w \in Workers, WorkerNext(w), v = w PROVE OutputOK(v)'
  <2> DEFINE Functions == /\ task \in [Workers -> Messages \cup {NoTask}]
                          /\ phase \in [Workers -> Phases]
                          /\ result \in [Workers -> Results]
                          /\ output \in [Files -> {"absent", "torn", "empty", "chunks"}]
  <2> Functions /\ OutputOK(w) /\ TaskOK(w)
    BY DEF IInv, TypeOK, OutputInv, TaskInv
  <2> USE <1>3 DEF Enter, sessionVars, OutputOK
  <2>1. ASSUME NEW m \in Messages, Deliver(w, m) PROVE OutputOK(w)'
    BY <2>1 DEF Deliver
  <2>2. CASE Load(w)
    <3>1. job # "absent"
      BY <2>2, Executing DEF Load, TaskOK, TxPhases
    <3> QED
      BY <2>2, <3>1 DEF Load
  <2>3. CASE ReadSiblings(w) \/ ReadJob(w)
    BY <2>3 DEF ReadSiblings, ReadJob
  <2>4. CASE Commit(w)
    BY <2>4 DEF Commit, AfterCommit
  <2>5. CASE IngestFile(w)
    <3>1. PICK r \in Outcomes \cup {Failure} : result' = [result EXCEPT ![w] = r]
      BY <2>5 DEF IngestFile
    <3>2. r.status = "failed" => ~r.chunks
      BY <3>1, OutcomesAssumption DEF PipelineResults, Failure
    <3> QED
      BY <2>5, <3>1, <3>2 DEF IngestFile
  <2>6. CASE HandlerRaises(w)
    BY <2>6 DEF HandlerRaises, Failure
  <2>7. CASE OpenOutput(w)
    BY <2>7 DEF OpenOutput
  <2>8. CASE CloseOutput(w)
    <3>1. phase[w] = "writing" /\ task[w] \in Files
      BY <2>8 DEF CloseOutput, TaskOK
    <3>2. ~\E u \in Workers \ {w} : task[u] = task[w] /\ phase[u] = "writing"
      BY <3>1 DEF IInv, OwnerInv
    <3>3. result[w].chunks => output' = [output EXCEPT ![task[w]] = "chunks"]
      BY <2>8, <3>2 DEF CloseOutput
    <3>4. phase'[w] = "result" /\ UNCHANGED <<task, result>>
      BY <2>8 DEF CloseOutput
    <3> QED
      BY <3>1, <3>3, <3>4
  <2>9. CASE Return(w)
    BY <2>9 DEF Return
  <2>10. CASE Ack(w) \/ PoolProcessLost(w)
    BY <2>10 DEF Ack, PoolProcessLost, BecomeIdle
  <2>11. CASE DbError(w)
    BY <2>11 DEF DbError, Failure
  <2> QED
    BY <1>3, <2>1, <2>2, <2>3, <2>4, <2>5, <2>6, <2>7, <2>8, <2>9, <2>10, <2>11
       DEF WorkerNext, HandlerNext
<1> QED
  BY <1>1, <1>2, <1>3 DEF OnceNext

\* The invariant of the output files holds in every behaviour without redelivery.
THEOREM OutputInvariance == OnceSpec => []OutputInv
<1>1. Init => OutputInv
  BY DEF Init, OutputInv, OutputWhole, OutputOK, QueuedRow
<1>2. IInv /\ OutputInv /\ [OnceNext]_vars => OutputInv'
  <2>1. ASSUME IInv, OutputInv, OnceNext PROVE OutputInv'
    BY <2>1, OutputWholeStep, OutputOKStep DEF OutputInv
  <2>2. ASSUME OutputInv, UNCHANGED vars PROVE OutputInv'
    BY <2>2 DEF OutputInv, OutputWhole, OutputOK, vars, dbVars, workerVars
  <2> QED
    BY <2>1, <2>2
<1> QED
  BY <1>1, <1>2, Invariance, PTL DEF OnceSpec

\* Whatever fails on the way, a row that names an output file has a complete one
\* (tasks.py writes the file before the row, and finalize_job leaves it alone).
THEOREM OutputIsWhole == OnceSpec => []OutputWhole
<1>1. OutputInv => OutputWhole
  BY DEF OutputInv
<1> QED
  BY <1>1, OutputInvariance, PTL

----------------------------------------------------------------------------
\* 2. A job at rest.

\* Faults are only counted up, so what was clean stays clean backwards.
LEMMA WasClean ==
  ASSUME TypeOK, OnceNext, Clean'
  PROVE  /\ Clean
         /\ \A w \in Workers : ~DbError(w) /\ ~PoolProcessLost(w)
<1> USE DEF TypeOK, Clean, FaultKinds
<1>1. \A w \in Workers : ~DbError(w) /\ ~PoolProcessLost(w)
  BY DEF DbError, PoolProcessLost, CountFault
<1>2. UNCHANGED faults
  <2>1. CASE ApiNext
    BY <2>1, ApiLeavesWorkers
  <2>2. ASSUME NEW w \in Workers, WorkerNext(w) PROVE UNCHANGED faults
    BY <1>1, <2>2 DEF WorkerNext, HandlerNext, Deliver, Load, ReadSiblings, ReadJob, Commit,
       IngestFile, HandlerRaises, OpenOutput, CloseOutput, Return, Ack
  <2> QED
    BY <2>1, <2>2 DEF OnceNext
<1> QED
  BY <1>1, <1>2

\* A commit never sets a row back to queued.
LEMMA NotQueuedAgain ==
  ASSUME IInv, NEW w \in Workers, WorkerNext(w), NEW f \in Files, rows[f].status # "queued"
  PROVE  rows'[f].status # "queued"
<1>1. CASE Commit(w) /\ f = task[w]
  <2>1. phase[w] \in {"running", "result", "failure"}
    BY <1>1, CommitsNonTerminal
  <2> QED
    BY <1>1, <2>1, CommitStatus DEF IInv, Target, PhaseInv, PhaseOK, Terminal, TerminalFileStatuses
<1>2. CASE ~(Commit(w) /\ f = task[w])
  BY <1>2, RowsKeep DEF IInv
<1> QED
  BY <1>1, <1>2

LEMMA StartedStep ==
  ASSUME IInv, StartedInv, OnceNext PROVE StartedInv'
<1> USE FilesAssumption
<1>1. CASE ApiNext
  <2>1. \A f \in Files : rows'[f].status = rows[f].status
    BY <1>1, ApiKeeps DEF IInv
  <2> QED
    BY <1>1, <2>1, ApiJob DEF StartedInv
<1>2. ASSUME NEW w \in Workers, WorkerNext(w), job' = "running"
      PROVE  \E f \in Files : rows'[f].status # "queued"
  <2>1. CASE job = "running"
    BY <1>2, <2>1, NotQueuedAgain DEF StartedInv
  <2>2. CASE job # "running"
    <3>1. Commit(w)
      BY <1>2, <2>2, JobKeeps
    <3>2. CASE task[w] \in Files
      <4>1. phase[w] \in {"running", "result", "failure"}
        BY <3>1, <3>2, CommitsNonTerminal
      <4>2. rows'[task[w]].status # "queued"
        BY <3>1, <3>2, <4>1, CommitStatus
           DEF IInv, Target, PhaseInv, PhaseOK, Terminal, TerminalFileStatuses
      <4> QED
        BY <3>2, <4>2
    <3>3. CASE task[w] \notin Files
      <4>1. UNCHANGED rows /\ task[w] = Finalize
        BY <3>1, <3>3, Commits
      <4> QED
        BY <4>1, FinalizeRows DEF Terminal, TerminalFileStatuses
    <3> QED
      BY <3>2, <3>3
  <2> QED
    BY <2>1, <2>2
<1> QED
  BY <1>1, <1>2 DEF OnceNext, StartedInv

----------------------------------------------------------------------------
\* The chord.

\* A part that is added while the chord counts; what the chord does with it.
LEMMA PartAdded ==
  ASSUME NEW part, ChordPart(part), chord = "counting"
  PROVE  /\ returned' = returned \cup {part}
         /\ chord' = "counting" =>
              ~(published = Files /\ Cardinality(returned') = Cardinality(Files))
         /\ chord' = "error" => \E p \in returned' : p[2] = "raised"
         /\ chord' = "fired" => ready' = [ready EXCEPT ![Finalize] = @ + 1]
<1> DEFINE parts == returned \cup {part}
           full  == published = Files /\ Cardinality(parts) = Cardinality(Files)
           sound == \A p \in parts : p[2] # "raised"
<1>1. /\ returned' = parts
      /\ chord' = IF ~full THEN "counting" ELSE IF sound THEN "fired" ELSE "error"
      /\ ready' = IF full /\ sound THEN [ready EXCEPT ![Finalize] = @ + 1] ELSE ready
  BY DEF ChordPart
<1> QED
  BY <1>1

\* Only a task's end touches the chord.
LEMMA ChordKeeps ==
  ASSUME NEW w \in Workers, WorkerNext(w),
         ~(task[w] \in Files /\ Return(w)), ~(task[w] \in Files /\ PoolProcessLost(w))
  PROVE  UNCHANGED <<returned, chord>>
BY DEF WorkerNext, HandlerNext, brokerVars, Deliver, Load, ReadSiblings, ReadJob, Commit, DbError,
       IngestFile, HandlerRaises, OpenOutput, CloseOutput, Return, Ack, PoolProcessLost

LEMMA NoRaiseStep ==
  ASSUME IInv, NoRaiseInv, OnceNext PROVE NoRaiseInv'
<1> USE FilesAssumption
<1> SUFFICES ASSUME Clean'
             PROVE  /\ \A v \in Workers : result'[v].status # "raised"
                    /\ \A p \in returned' : p[2] # "raised"
                    /\ chord' # "error"
  BY DEF NoRaiseInv
<1>1. /\ \A v \in Workers : ~DbError(v) /\ ~PoolProcessLost(v)
      /\ \A v \in Workers : result[v].status # "raised"
      /\ \A p \in returned : p[2] # "raised"
      /\ chord # "error"
  BY WasClean DEF IInv, NoRaiseInv
<1>2. CASE ApiNext
  BY <1>1, <1>2, ApiLeavesWorkers
<1>3. ASSUME NEW w \in Workers, WorkerNext(w)
      PROVE  /\ \A v \in Workers : result'[v].status # "raised"
             /\ \A p \in returned' : p[2] # "raised"
             /\ chord' # "error"
  <2>1. ASSUME NEW v \in Workers PROVE result'[v].status # "raised"
    <3>1. CASE v # w
      BY <1>1, <1>3, <3>1, OthersKeep DEF IInv
    <3>2. CASE v = w /\ IngestFile(w)
      <4>1. PICK r \in Outcomes \cup {Failure} : result' = [result EXCEPT ![w] = r]
        BY <3>2 DEF IngestFile
      <4> QED
        BY <3>2, <4>1, OutcomesAssumption
           DEF IInv, TypeOK, PipelineResults, Failure, TerminalFileStatuses
    <3>3. CASE v = w /\ (HandlerRaises(w) \/ Ack(w))
      BY <3>3 DEF HandlerRaises, Ack, BecomeIdle, Failure, NoResult, IInv, TypeOK
    <3>4. CASE UNCHANGED result
      BY <1>1, <3>4
    <3> QED
      BY <1>1, <1>3, <3>1, <3>2, <3>3, <3>4 DEF WorkerNext, HandlerNext, Deliver, Load,
         ReadSiblings, ReadJob, Commit, OpenOutput, CloseOutput, Return, sessionVars
  <2>2. CASE task[w] \in Files /\ Return(w)
    <3>1. ChordPart(<<task[w], result[w].status>>)
      BY <2>2 DEF Return
    <3>2. CASE chord = "counting"
      <4>1. /\ returned' = returned \cup {<<task[w], result[w].status>>}
            /\ chord' = "error" => \E p \in returned' : p[2] = "raised"
        BY <3>1, <3>2, PartAdded
      <4>2. \A p \in returned' : p[2] # "raised"
        BY <1>1, <4>1
      <4> QED
        BY <2>1, <4>1, <4>2
    <3>3. CASE chord # "counting"
      BY <1>1, <2>1, <3>1, <3>3 DEF ChordPart, brokerVars
    <3> QED
      BY <3>2, <3>3
  <2>3. CASE ~(task[w] \in Files /\ Return(w))
    BY <1>1, <1>3, <2>1, <2>3, ChordKeeps
  <2> QED
    BY <2>2, <2>3
<1> QED
  BY <1>2, <1>3 DEF OnceNext

\* A full set of parts, one per file, has as many members as the job has files.
LEMMA FullCount ==
  ASSUME NEW parts, \A p \in parts : p[1] \in Files,
         \A p, q \in parts : p[1] = q[1] => p = q,
         \A f \in Files : \E p \in parts : p[1] = f
  PROVE  Cardinality(parts) = Cardinality(Files)
<1> DEFINE part == [f \in Files |-> CHOOSE p \in parts : p[1] = f]
<1>1. \A f \in Files : part[f] \in parts /\ part[f][1] = f
  OBVIOUS
<1>2. \A p \in parts : part[p[1]] = p
  BY <1>1
<1>3. part \in [Files -> parts]
  BY <1>1
<1> HIDE DEF part
<1>4. part \in Bijection(Files, parts)
  BY <1>1, <1>2, <1>3 DEF Bijection, Injection, Surjection, IsInjective
<1>5. ExistsBijection(Files, parts)
  BY <1>4 DEF ExistsBijection
<1> QED
  BY <1>5, FS_Bijection, FilesAssumption

LEMMA CountStep ==
  ASSUME IInv, IInv', CountInv, OnceNext PROVE CountInv'
<1>1. CASE ApiNext
  BY <1>1, ApiLeavesWorkers DEF CountInv
<1>2. ASSUME NEW w \in Workers, WorkerNext(w) PROVE CountInv'
  <2>1. ASSUME NEW part, ChordPart(part), chord' = "counting"
        PROVE  \E f \in Files : \A p \in returned' : p[1] # f
    <3>1. chord = "counting"
      BY <2>1 DEF ChordPart, brokerVars
    <3>2. ~(published = Files /\ Cardinality(returned') = Cardinality(Files))
      BY <2>1, <3>1, PartAdded
    <3>3. published' = published
      BY <1>2, WorkerKeeps
    <3>4. /\ \A p \in returned' : p[1] \in Files /\ p[1] \in published
          /\ \A p, q \in returned' : p[1] = q[1] => p = q
          /\ published \subseteq Files
      BY <3>3 DEF IInv, TypeOK, ReturnedInv
    <3>5. SUFFICES ASSUME \A f \in Files : \E p \in returned' : p[1] = f PROVE FALSE
      OBVIOUS
    <3>6. published = Files
      BY <3>4, <3>5
    <3>7. Cardinality(returned') = Cardinality(Files)
      BY <3>4, <3>5, FullCount
    <3> QED
      BY <3>2, <3>6, <3>7
  <2>2. CASE task[w] \in Files /\ (Return(w) \/ PoolProcessLost(w))
    BY <2>1, <2>2 DEF Return, PoolProcessLost, CountInv
  <2>3. CASE ~(task[w] \in Files /\ (Return(w) \/ PoolProcessLost(w)))
    BY <1>2, <2>3, ChordKeeps DEF CountInv
  <2> QED
    BY <2>2, <2>3
<1> QED
  BY <1>1, <1>2 DEF OnceNext

\* The chord still counts while a task is about to return, so its part is added.
LEMMA StillCounting ==
  ASSUME IInv, NoRaiseInv, Clean, NEW w \in Workers, task[w] \in Files, phase[w] = "return"
  PROVE  chord = "counting"
<1>1. chord # "error"
  BY DEF NoRaiseInv
<1>2. chord # "fired"
  BY DEF IInv, ChordInv, ReturnedInv
<1> QED
  BY <1>1, <1>2 DEF IInv, TypeOK

LEMMA PartStep ==
  ASSUME IInv, NoRaiseInv, PartInv, OnceNext PROVE PartInv'
<1> USE FilesAssumption
<1> DEFINE Parted(f) == \/ \E p \in returned : p[1] = f
                        \/ \E w \in Workers : task[w] = f /\ phase[w] = "return"
<1> SUFFICES ASSUME Clean', NEW f \in Files, rows'[f].status \in Terminal PROVE Parted(f)'
  BY DEF PartInv
<1>1. Clean /\ \A v \in Workers : ~DbError(v) /\ ~PoolProcessLost(v)
  BY WasClean DEF IInv
<1>2. rows[f].status \in Terminal => Parted(f)
  BY <1>1 DEF PartInv
<1> HIDE DEF Parted
<1>3. CASE ApiNext
  <2>1. rows'[f].status = rows[f].status
    BY <1>3, ApiKeeps DEF IInv
  <2> QED
    BY <1>2, <1>3, <2>1, ApiLeavesWorkers DEF Parted
<1>4. ASSUME NEW w \in Workers, WorkerNext(w) PROVE Parted(f)'
  <2>1. CASE Commit(w) /\ f = task[w]
    <3>1. phase[w] \in {"running", "result", "failure"}
      BY <2>1, CommitsNonTerminal
    <3>2. rows'[f].status = Target(w).status
      BY <2>1, CommitStatus DEF IInv
    <3>3. phase[w] # "running"
      BY <3>2 DEF Target, Terminal, TerminalFileStatuses
    <3>4. phase'[w] = "return" /\ task'[w] = f
      BY <2>1, <3>3 DEF Commit, Enter, AfterCommit, IInv, TypeOK
    <3> QED
      BY <3>4 DEF Parted
  <2>2. CASE ~(Commit(w) /\ f = task[w])
    <3>1. Parted(f)
      BY <1>2, <1>4, <2>2, RowsKeep DEF IInv
    <3>2. ASSUME NEW p \in returned, p[1] = f PROVE Parted(f)'
      BY <1>4, <3>2, ReturnedKeeps DEF Parted
    <3>3. ASSUME NEW v \in Workers, task[v] = f, phase[v] = "return" PROVE Parted(f)'
      <4>1. CASE v # w
        BY <1>4, <3>3, <4>1, OthersKeep DEF IInv, Parted
      <4>2. CASE v = w
        <5>1. step[w] = "none" /\ task[w] # NoTask
          BY <3>3, <4>2 DEF IInv, TaskInv, TaskOK, TxPhases
        <5>2. Return(w)
          BY <1>1, <1>4, <3>3, <4>2, <5>1 DEF WorkerNext, HandlerNext, Deliver, Load, ReadSiblings,
             ReadJob, Commit, IngestFile, HandlerRaises, OpenOutput, CloseOutput, Ack
        <5>3. ChordPart(<<f, result[w].status>>)
          BY <3>3, <4>2, <5>2 DEF Return
        <5>4. returned' = returned \cup {<<f, result[w].status>>}
          BY <1>1, <3>3, <4>2, <5>3, StillCounting, PartAdded
        <5>5. <<f, result[w].status>> \in returned' /\ <<f, result[w].status>>[1] = f
          BY <5>4
        <5> QED
          BY <5>5 DEF Parted
      <4> QED
        BY <4>1, <4>2
    <3> QED
      BY <3>1, <3>2, <3>3 DEF Parted
  <2> QED
    BY <2>1, <2>2
<1> QED
  BY <1>3, <1>4 DEF OnceNext

----------------------------------------------------------------------------
\* The end of the job.

LEMMA FinalSeenStep ==
  ASSUME IInv, FinalSeenInv, OnceNext PROVE FinalSeenInv'
<1> USE FilesAssumption
<1>1. CASE ApiNext
  <2>1. UNCHANGED <<step, seen>>
    BY <1>1, ApiLeavesWorkers
  <2>2. job \in TerminalJobStatuses => UNCHANGED job
    BY <1>1, ApiJob DEF TerminalJobStatuses
  <2> QED
    BY <2>1, <2>2 DEF FinalSeenInv
<1>2. ASSUME NEW w \in Workers, WorkerNext(w), NEW v \in Workers,
             step'[v] = "commit", seen'[v] \in TerminalJobStatuses
      PROVE  job' = seen'[v]
  <2>1. CASE v # w
    BY <1>2, <2>1, OthersKeep, FinalKeeps DEF IInv, FinalSeenInv
  <2>2. CASE v = w /\ ReadJob(w)
    BY <2>2 DEF ReadJob, dbVars, IInv, TypeOK
  <2>3. CASE v = w /\ (Load(w) \/ ReadSiblings(w))
    <3>1. /\ step \in [Workers -> {"none", "load", "siblings", "job", "commit"}]
          /\ phase \in [Workers -> Phases]
      BY DEF IInv, TypeOK
    <3>2. CASE ReadSiblings(w)
      BY <1>2, <2>3, <3>1, <3>2 DEF ReadSiblings
    <3>3. CASE Load(w)
      <4>1. job # "absent"
        BY <3>3, Executing DEF Load, IInv, TaskInv, TaskOK, TxPhases
      <4> QED
        BY <1>2, <2>3, <3>1, <3>3, <4>1 DEF Load
    <3> QED
      BY <2>3, <3>2, <3>3
  <2>4. CASE v = w /\ ~ReadJob(w) /\ ~Load(w) /\ ~ReadSiblings(w)
    BY <1>2, <2>4, StepAfter
  <2> QED
    BY <2>1, <2>2, <2>3, <2>4
<1> QED
  BY <1>1, <1>2 DEF OnceNext, FinalSeenInv

LEMMA SettledStep ==
  ASSUME IInv, NoRaiseInv, FinalSeenInv, SettledInv, OnceNext PROVE SettledInv'
<1> USE FilesAssumption
<1> DEFINE Settling == \/ ready[Finalize] > 0
                       \/ \E w \in Workers : phase[w] = "finalize"
                       \/ job \in TerminalJobStatuses
<1> SUFFICES ASSUME Clean', chord' = "fired" PROVE Settling'
  BY DEF SettledInv
<1>1. Clean /\ \A v \in Workers : ~DbError(v) /\ ~PoolProcessLost(v)
  BY WasClean DEF IInv
<1>2. ready \in [Messages -> Nat] /\ Finalize \in Messages
  BY DEF IInv, TypeOK, Messages
<1>3. CASE ApiNext
  <2>1. chord = "fired" /\ UNCHANGED phase
    BY <1>3, ApiLeavesWorkers
  <2>2. ready'[Finalize] = ready[Finalize]
    BY <1>2, <1>3 DEF ApiNext, SaveUpload, PublishTask, RefuseRequest, CreateJob, EnqueueFails,
       Respond, brokerVars
  <2>3. job \in TerminalJobStatuses => UNCHANGED job
    BY <1>3, ApiJob DEF TerminalJobStatuses
  <2> QED
    BY <1>1, <2>1, <2>2, <2>3 DEF SettledInv
<1>4. ASSUME NEW w \in Workers, WorkerNext(w) PROVE Settling'
  <2>1. CASE chord # "fired"
    <3>1. task[w] \in Files /\ Return(w)
      BY <1>1, <1>4, <2>1, ChordKeeps
    <3>2. chord = "counting" /\ ChordPart(<<task[w], result[w].status>>)
      BY <2>1, <3>1 DEF Return, ChordPart, brokerVars
    <3>3. ready' = [ready EXCEPT ![Finalize] = @ + 1]
      BY <3>2, PartAdded
    <3> QED
      BY <1>2, <3>3
  <2>2. CASE chord = "fired"
    <3>1. Settling
      BY <1>1, <2>2 DEF SettledInv
    <3>2. CASE job \in TerminalJobStatuses
      BY <1>4, <3>2, FinalKeeps
    <3>3. CASE ready[Finalize] > 0
      <4>1. CASE Deliver(w, Finalize)
        BY <4>1 DEF Deliver, Enter, IInv, TypeOK
      <4>2. ASSUME NEW m \in Messages, Deliver(w, m), m # Finalize PROVE Settling'
        BY <1>2, <3>3, <4>2 DEF Deliver
      <4>3. CASE \A m \in Messages : ~Deliver(w, m)
        <5>1. ready' = ready
          BY <1>1, <1>4, <2>2, <4>3 DEF WorkerNext, HandlerNext, brokerVars, Load, ReadSiblings,
             ReadJob, Commit, IngestFile, HandlerRaises, OpenOutput, CloseOutput, Return, Ack,
             ChordPart
        <5> QED
          BY <3>3, <5>1
      <4> QED
        BY <4>1, <4>2, <4>3
    <3>4. ASSUME NEW v \in Workers, phase[v] = "finalize" PROVE Settling'
      <4>1. CASE v # w
        BY <1>4, <3>4, <4>1, OthersKeep DEF IInv
      <4>2. CASE v = w /\ Commit(w)
        <5>1. task[w] = Finalize
          BY <3>4, <4>2 DEF IInv, TaskInv, TaskOK
        <5>2. Computed(w) \in TerminalJobStatuses
          BY <4>2, <5>1, FinalizeComputes
        <5>3. job' = IF Computed(w) = seen[w] THEN job ELSE Computed(w)
          BY <4>2, Commits DEF Commit, MergedJob
        <5>4. Computed(w) = seen[w] => job = seen[w]
          BY <4>2, <5>2 DEF Commit, FinalSeenInv
        <5> QED
          BY <5>2, <5>3, <5>4
      <4>3. CASE v = w /\ ~Commit(w)
        <5>1. task[w] = Finalize /\ step[w] # "load"
          BY <3>4, <4>3 DEF IInv, TaskInv, TaskOK
        <5>2. UNCHANGED phase
          BY <1>1, <1>4, <3>4, <4>3, <5>1 DEF WorkerNext, HandlerNext, Deliver, Load, ReadSiblings,
             ReadJob, IngestFile, HandlerRaises, OpenOutput, CloseOutput, Return, Ack, Finalize, NoTask
        <5> QED
          BY <3>4, <5>2
      <4> QED
        BY <4>1, <4>2, <4>3
    <3> QED
      BY <3>1, <3>2, <3>3, <3>4
  <2> QED
    BY <2>1, <2>2
<1> QED
  BY <1>3, <1>4 DEF OnceNext

----------------------------------------------------------------------------
\* The theorem.

\* A job at rest is final: with a file that is not terminal it is what its rows
\* say since it never runs ahead of them; with none left, every part has
\* reached the chord, which has fired, and the callback has run.
LEMMA QuietIsFinal == ASSUME IInv, QuietInv PROVE QuiescentJobIsFinal
<1> USE FilesAssumption
<1> SUFFICES ASSUME Quiescent, job # "absent", Clean PROVE job = ComputeJobStatus(Statuses)
  BY DEF QuiescentJobIsFinal, Clean
<1>1. CASE ~AllTerminal(Statuses)
  <2>1. job \in {"queued", "running"}
    BY <1>1 DEF IInv, TypeOK, JobInv, JobStatusSound, JobStatuses
  <2>2. job = "queued" => \A f \in Files : Statuses[f] = "queued"
    BY DEF IInv, JobInv, Statuses
  <2>3. job = "running" => \E f \in Files : Statuses[f] # "queued"
    BY DEF QuietInv, StartedInv, Statuses
  <2>4. DOMAIN Statuses = Files
    BY DEF Statuses
  <2> QED
    BY <1>1, <2>1, <2>2, <2>3, <2>4 DEF ComputeJobStatus
<1>2. CASE AllTerminal(Statuses)
  <2>1. \A w \in Workers : task[w] = NoTask /\ phase[w] = "idle"
    BY DEF Quiescent, IInv, TaskInv, TaskOK
  <2>2. \A f \in Files : rows[f].status \in Terminal
    BY <1>2 DEF AllTerminal, Statuses, Terminal
  <2>3. \A f \in Files : \E p \in returned : p[1] = f
    BY <2>1, <2>2 DEF QuietInv, PartInv
  <2>4. chord = "fired"
    BY <2>3 DEF QuietInv, CountInv, NoRaiseInv, IInv, TypeOK
  <2>5. ~(ready[Finalize] > 0)
    BY DEF Quiescent, Messages
  <2>6. job \in TerminalJobStatuses
    BY <2>1, <2>4, <2>5 DEF QuietInv, SettledInv
  <2> QED
    BY <2>6 DEF IInv, JobInv, JobStatusSound
<1> QED
  BY <1>1, <1>2

\* The invariant of a clean history holds in every behaviour without redelivery.
THEOREM QuietInvariance == OnceSpec => []QuietInv
<1>1. Init => QuietInv
  <2> SUFFICES ASSUME Init PROVE QuietInv
    OBVIOUS
  <2>1. StartedInv /\ NoRaiseInv /\ PartInv
    BY DEF Init, StartedInv, NoRaiseInv, PartInv, NoResult, QueuedRow, Terminal, TerminalFileStatuses
  <2>2. CountInv /\ FinalSeenInv /\ SettledInv
    BY FilesAssumption DEF Init, CountInv, FinalSeenInv, SettledInv
  <2> QED
    BY <2>1, <2>2 DEF QuietInv
<1>2. IInv /\ IInv' /\ QuietInv /\ [OnceNext]_vars => QuietInv'
  <2>1. ASSUME IInv, IInv', QuietInv, OnceNext PROVE QuietInv'
    BY <2>1, StartedStep, NoRaiseStep, PartStep, CountStep, FinalSeenStep, SettledStep DEF QuietInv
  <2>2. ASSUME QuietInv, UNCHANGED vars PROVE QuietInv'
    BY <2>2 DEF QuietInv, StartedInv, NoRaiseInv, PartInv, CountInv, FinalSeenInv, SettledInv, Clean,
       vars, dbVars, brokerVars, workerVars, sessionVars
  <2> QED
    BY <2>1, <2>2
<1> QED
  BY <1>1, <1>2, Invariance, PTL DEF OnceSpec

\* Once nothing is queued or running, jobs.status is the roll-up of the files
\* (finalize_job's docstring, tasks.py): the chord makes good every update that
\* concurrent transactions lost, unless a transaction failed or a process died.
THEOREM QuiescentIsFinal == OnceSpec => []QuiescentJobIsFinal
<1>1. IInv /\ QuietInv => QuiescentJobIsFinal
  BY QuietIsFinal
<1> QED
  BY <1>1, Invariance, QuietInvariance, PTL

\* One bad file cannot poison the batch (tasks.py): whatever the pipeline returns
\* or raises, only a failed transaction or a lost process puts the chord in error.
THEOREM OnlyFaultsPoison == OnceSpec => [](Clean => NoFilePoisonsBatch)
<1>1. QuietInv => (Clean => NoFilePoisonsBatch)
  BY DEF QuietInv, NoRaiseInv, NoFilePoisonsBatch
<1> QED
  BY <1>1, QuietInvariance, PTL

----------------------------------------------------------------------------
\* 3. The refinement of JobLifecycle.

\* Both specifications use the roll-up of JobStatus.
LEMMA SameRollUp ==
  /\ Lifecycle!TerminalFileStatuses = TerminalFileStatuses
  /\ \A st : /\ Lifecycle!AllTerminal(st) <=> AllTerminal(st)
             /\ Lifecycle!ComputeJobStatus(st) = ComputeJobStatus(st)
BY DEF Lifecycle!TerminalFileStatuses, TerminalFileStatuses, Lifecycle!AllTerminal, AllTerminal,
       Lifecycle!ComputeJobStatus, ComputeJobStatus

\* A job one of whose files is not terminal is not terminal (JobStatusSound).
LEMMA OpenJob ==
  ASSUME IInv, NEW w \in Workers, Commit(w), task[w] \in Files
  PROVE  job = "running" \/ (job = "queued" /\ phase[w] = "running")
<1>1. rows[task[w]].status \notin Terminal /\ job # "absent"
  BY CommitsNonTerminal, Commits
<1>2. ~AllTerminal(Statuses)
  BY <1>1 DEF AllTerminal, Statuses, Terminal
<1>3. job \in {"queued", "running"}
  BY <1>1, <1>2 DEF IInv, TypeOK, JobInv, JobStatusSound, JobStatuses
<1>4. job = "queued" => phase[w] = "running"
  BY CommitsNonTerminal DEF IInv, JobInv, PhaseInv, PhaseOK
<1> QED
  BY <1>3, <1>4

\* The commit of mark_file_running is Start.
LEMMA CommitStarts ==
  ASSUME IInv, NEW w \in Workers, Commit(w), task[w] \in Files, phase[w] = "running"
  PROVE  Lifecycle!Start(task[w])
<1> USE DEF IInv
<1>1. rows[task[w]].status = "queued" /\ rows'[task[w]].status = "running"
  BY CommitStatus DEF PhaseInv, PhaseOK, Target
<1>2. \A f \in Files : f # task[w] => rows'[f] = rows[f]
  BY DEF Commit, TypeOK
<1>3. Statuses' = [Statuses EXCEPT ![task[w]] = "running"]
  BY <1>1, <1>2 DEF Statuses
<1>4. view[w][task[w]] = "running" /\ view[w] \in [Files -> FileStatus]
  BY DEF Commit, TypeOK, ViewInv, ViewOK, Target
<1>5. Computed(w) = "running"
  BY <1>4 DEF Computed, ComputeJobStatus, AllTerminal, TerminalFileStatuses
<1>6. job' = "running"
  BY <1>5, OpenJob, Commits DEF Commit, MergedJob, SeenInv, SeenOK
<1> QED
  BY <1>1, <1>3, <1>6, OpenJob DEF Lifecycle!Start, Statuses

\* The commit of mark_file_result is Finish, with the job's final status if
\* this transaction saw every file terminal.
LEMMA CommitFinishes ==
  ASSUME IInv, NEW w \in Workers, Commit(w), task[w] \in Files, phase[w] # "running"
  PROVE  \E s \in TerminalFileStatuses : Lifecycle!Finish(task[w], s)
<1> USE DEF IInv
<1>0. phase[w] \in {"result", "failure"}
  BY CommitsNonTerminal
<1> DEFINE s == result[w].status
<1>1. s \in TerminalFileStatuses /\ rows[task[w]].status = "running"
  BY <1>0 DEF PhaseInv, PhaseOK, Terminal
<1>2. rows'[task[w]].status = s
  BY <1>0, CommitStatus DEF Target
<1>3. \A f \in Files : f # task[w] => rows'[f] = rows[f]
  BY DEF Commit, TypeOK
<1>4. Statuses' = [Statuses EXCEPT ![task[w]] = s]
  BY <1>2, <1>3 DEF Statuses
<1>5. job = "running"
  BY <1>0, OpenJob
<1>6. UNCHANGED job \/ (AllTerminal(Statuses') /\ job' = ComputeJobStatus(Statuses'))
  <2>1. CASE AllTerminal(view[w])
    <3>1. view[w] = Statuses'
      BY <2>1, Commits
    <3> QED
      BY <2>1, <3>1 DEF Commit, MergedJob, Computed
  <2>2. CASE ~AllTerminal(view[w])
    <3>1. Computed(w) = "running"
      BY <2>2, Commits DEF Computed, ComputeJobStatus
    <3> QED
      BY <1>5, <3>1 DEF Commit, MergedJob
  <2> QED
    BY <2>1, <2>2
<1> HIDE DEF s
<1>7. Lifecycle!Finish(task[w], s)
  BY <1>1, <1>4, <1>5, <1>6, SameRollUp DEF Lifecycle!Finish, Statuses
<1> QED
  BY <1>1, <1>7

\* The commit of finalize_job is Settle, or changes nothing.
LEMMA CommitSettles ==
  ASSUME IInv, NEW w \in Workers, Commit(w), task[w] \notin Files
  PROVE  Lifecycle!Settle \/ (UNCHANGED <<job, Statuses>>)
<1> USE FilesAssumption DEF IInv
<1>1. task[w] = Finalize /\ UNCHANGED rows
  BY Commits
<1>2. UNCHANGED Statuses
  BY <1>1 DEF Statuses
<1>3. \A f \in Files : rows[f].status \in TerminalFileStatuses
  BY <1>1, FinalizeRows DEF Terminal
<1>4. AllTerminal(Statuses)
  BY <1>3 DEF AllTerminal, Statuses
<1>5. view[w] = Statuses
  BY <1>1, <1>3 DEF Commit, TypeOK, ViewInv, ViewOK, Statuses
<1>6. UNCHANGED job \/ job' = ComputeJobStatus(Statuses)
  BY <1>5 DEF Commit, MergedJob, Computed
<1>7. job # "absent" /\ job # "queued"
  BY <1>3, Commits DEF JobInv, TerminalFileStatuses
<1>8. CASE job = "running"
  BY <1>2, <1>4, <1>6, <1>8, SameRollUp DEF Lifecycle!Settle
<1>9. CASE job # "running"
  <2>1. job \in TerminalJobStatuses
    BY <1>7, <1>9 DEF TypeOK, JobStatuses
  <2>2. job = ComputeJobStatus(Statuses)
    BY <2>1 DEF JobInv, JobStatusSound
  <2> QED
    BY <1>2, <1>6, <2>2
<1> QED
  BY <1>8, <1>9

\* Every behaviour of the service without redelivery is one the abstract life
\* cycle allows (api.py, tasks.py and repository.py against their docstrings).
THEOREM Refinement == OnceSpec => ImplementsLifecycle
<1>1. Init => Lifecycle!Init
  BY DEF Init, Lifecycle!Init, Statuses, QueuedRow
<1>2. ASSUME IInv, [OnceNext]_vars PROVE [Lifecycle!Next]_(Lifecycle!vars)
  <2> SUFFICES Lifecycle!Next \/ (UNCHANGED <<job, Statuses>>)
    BY DEF Lifecycle!vars
  <2>1. CASE UNCHANGED vars
    BY <2>1 DEF vars, dbVars, Statuses
  <2>2. CASE ApiNext
    <3>1. \A f \in Files : rows'[f].status = rows[f].status
      BY <1>2, <2>2, ApiKeeps DEF IInv
    <3>2. UNCHANGED Statuses
      BY <3>1 DEF Statuses
    <3>3. CASE CreateJob
      BY <1>2, <3>2, <3>3 DEF CreateJob, IInv, ApiInv, Lifecycle!Next, Lifecycle!Submit
    <3>4. CASE ~CreateJob
      BY <2>2, <3>2, <3>4 DEF ApiNext, SaveUpload, PublishTask, RefuseRequest, EnqueueFails, Respond,
         dbVars
    <3> QED
      BY <3>3, <3>4
  <2>3. ASSUME NEW w \in Workers, WorkerNext(w), ~Commit(w) PROVE UNCHANGED <<job, Statuses>>
    BY <2>3, JobKeeps DEF Statuses
  <2>4. ASSUME NEW w \in Workers, Commit(w)
        PROVE  Lifecycle!Next \/ (UNCHANGED <<job, Statuses>>)
    BY <1>2, <2>4, CommitStarts, CommitFinishes, CommitSettles, SameRollUp DEF Lifecycle!Next
  <2> QED
    BY <1>2, <2>1, <2>2, <2>3, <2>4 DEF OnceNext
<1> QED
  BY <1>1, <1>2, Invariance, PTL DEF OnceSpec, ImplementsLifecycle, Lifecycle!Spec

----------------------------------------------------------------------------
\* 4. Redelivery.

LEMMA ResultStep ==
  ASSUME TypeOK, TaskInv, ResultInv, Next PROVE ResultInv'
<1> USE FilesAssumption
<1>1. CASE ApiNext
  BY <1>1, ApiLeavesWorkers DEF ResultInv, ResultOK
<1>2. ASSUME NEW w \in Workers, WorkerNext(w) \/ Redelivery(w), NEW v \in Workers PROVE ResultOK(v)'
  <2>1. CASE v # w
    BY <1>2, <2>1, OthersKeep DEF ResultInv, ResultOK
  <2>2. CASE v = w
    <3> DEFINE Functions == /\ task \in [Workers -> Messages \cup {NoTask}]
                            /\ phase \in [Workers -> Phases]
                            /\ result \in [Workers -> Results]
    <3> Functions /\ TaskOK(w) /\ ResultOK(w)
      BY DEF TypeOK, TaskInv, ResultInv
    <3> USE <2>2 DEF Enter, sessionVars, TaskOK, ResultOK
    <3>1. ASSUME NEW m \in Messages, Deliver(w, m) PROVE ResultOK(w)'
      BY <3>1 DEF Deliver, Messages
    <3>2. CASE Load(w) /\ UNCHANGED phase
      BY <3>2 DEF Load
    <3>3. CASE Load(w) /\ ~UNCHANGED phase
      BY <3>3 DEF Load, AfterCommit, TxPhases
    <3>4. CASE ReadSiblings(w) \/ ReadJob(w)
      BY <3>4 DEF ReadSiblings, ReadJob
    <3>5. CASE Commit(w)
      BY <3>5 DEF Commit, AfterCommit, TxPhases
    <3>6. CASE IngestFile(w)
      <4>1. PICK r \in Outcomes \cup {Failure} : result' = [result EXCEPT ![w] = r]
        BY <3>6 DEF IngestFile
      <4>2. r.status \in Terminal
        BY <4>1, OutcomesAssumption DEF PipelineResults, Failure, Terminal, TerminalFileStatuses
      <4> QED
        BY <3>6, <4>1, <4>2 DEF IngestFile
    <3>7. CASE HandlerRaises(w)
      BY <3>7 DEF HandlerRaises, Failure, Terminal, TerminalFileStatuses
    <3>8. CASE OpenOutput(w) \/ CloseOutput(w)
      BY <3>8 DEF OpenOutput, CloseOutput
    <3>9. CASE Return(w)
      BY <3>9 DEF Return
    <3>10. CASE Ack(w) \/ PoolProcessLost(w) \/ WorkerLost(w)
      BY <3>10 DEF Ack, PoolProcessLost, WorkerLost, BecomeIdle
    <3>11. CASE DbError(w)
      BY <3>11 DEF DbError, Failure, Raised, Terminal, TerminalFileStatuses
    <3>12. CASE VisibilityTimeout(w)
      BY <3>12 DEF VisibilityTimeout
    <3> QED
      BY <1>2, <2>2, <3>1, <3>2, <3>3, <3>4, <3>5, <3>6, <3>7, <3>8, <3>9, <3>10, <3>11, <3>12
         DEF WorkerNext, HandlerNext, Redelivery
  <2> QED
    BY <2>1, <2>2
<1> QED
  BY <1>1, <1>2 DEF Next, ResultInv

----------------------------------------------------------------------------
\* Messages and deliveries.

\* A message is in the queue or with a worker only if it was before, or the
\* request handler has just sent it.
LEMMA MessagesFrom ==
  ASSUME TypeOK, TaskInv, NEW w \in Workers, WorkerNext(w) \/ Redelivery(w), NEW f \in Files
  PROVE  /\ ready'[f] > 0 => ready[f] > 0 \/ task[w] = f
         /\ \A v \in Workers : task'[v] = f => task[v] = f \/ ready[f] > 0
<1> USE FilesAssumption DEF TypeOK, Messages
<1>1. ASSUME ready'[f] > 0 PROVE ready[f] > 0 \/ task[w] = f
  <2>1. ASSUME NEW m \in Messages, Deliver(w, m) PROVE ready[f] > 0
    BY <1>1, <2>1 DEF Deliver
  <2>2. CASE WorkerNext(w) /\ \A m \in Messages : ~Deliver(w, m)
    BY <1>1, <2>2, ReadyKeeps
  <2>3. CASE Redelivery(w)
    <3>1. ready' = ready \/ ready' = [ready EXCEPT ![task[w]] = @ + 1]
      BY <2>3 DEF Redelivery, WorkerLost, VisibilityTimeout
    <3> QED
      BY <1>1, <3>1
  <2> QED
    BY <2>1, <2>2, <2>3
<1>4. ASSUME NEW v \in Workers, task'[v] = f PROVE task[v] = f \/ ready[f] > 0
  <2>1. CASE v # w
    BY <1>4, <2>1, OthersKeep
  <2>2. ASSUME v = w, NEW m \in Messages, Deliver(w, m) PROVE ready[f] > 0
    BY <1>4, <2>2 DEF Deliver
  <2>3. CASE v = w /\ WorkerNext(w) /\ \A m \in Messages : ~Deliver(w, m)
    BY <1>4, <2>3, TaskKeeps
  <2>4. CASE v = w /\ Redelivery(w)
    BY <1>4, <2>4 DEF Redelivery, WorkerLost, VisibilityTimeout, BecomeIdle
  <2> QED
    BY <2>1, <2>2, <2>3, <2>4
<1> QED
  BY <1>1, <1>4

\* Neither a worker's step nor a redelivery takes anything back from the request.
LEMMA RequestKeeps ==
  ASSUME NEW w \in Workers, WorkerNext(w) \/ Redelivery(w)
  PROVE  UNCHANGED <<api, uploads, published>>
BY WorkerKeeps DEF Redelivery, WorkerLost, VisibilityTimeout, apiVars

\* Committed rows stay: no commit computes an absent job.
LEMMA JobStaysPresent ==
  ASSUME NEW w \in Workers, WorkerNext(w) \/ Redelivery(w), job # "absent"
  PROVE  job' # "absent"
<1>1. CASE Commit(w)
  BY <1>1, ComputeType DEF Commit, MergedJob, Computed, JobStatuses, TerminalJobStatuses
<1>2. CASE ~Commit(w)
  BY <1>2, JobKeeps DEF Redelivery, WorkerLost, VisibilityTimeout, dbVars
<1> QED
  BY <1>1, <1>2

LEMMA SentStep ==
  ASSUME TypeOK, TaskInv, SentInv, Next PROVE SentInv'
<1> USE FilesAssumption DEF SentInv
<1>1. ASSUME NEW w \in Workers, WorkerNext(w) \/ Redelivery(w) PROVE SentInv'
  <2>1. \A f \in Files : ready'[f] > 0 => f \in published
    BY <1>1, MessagesFrom
  <2>2. \A v \in Workers : task'[v] \in Files => task'[v] \in published
    BY <1>1, MessagesFrom
  <2> QED
    BY <1>1, <2>1, <2>2, RequestKeeps, JobStaysPresent
<1>2. ASSUME NEW f \in Files, PublishTask(f) PROVE SentInv'
  BY <1>2 DEF PublishTask, dbVars, workerVars, TypeOK, Messages
<1>3. CASE CreateJob
  BY <1>3 DEF CreateJob, brokerVars, workerVars
<1>4. CASE \E f \in Files : SaveUpload(f)
  BY <1>4 DEF SaveUpload, dbVars, brokerVars, workerVars
<1>5. CASE RefuseRequest \/ EnqueueFails \/ Respond
  BY <1>5 DEF RefuseRequest, EnqueueFails, Respond, dbVars, brokerVars, workerVars
<1> QED
  BY <1>1, <1>2, <1>3, <1>4, <1>5 DEF Next, ApiNext

\* Faults are only counted up.
LEMMA FaultsGrow ==
  ASSUME TypeOK, Next, NEW k \in FaultKinds
  PROVE  faults'[k] \in Nat /\ faults'[k] >= faults[k]
<1> USE DEF TypeOK, FaultKinds
<1>1. CASE ApiNext
  BY <1>1, ApiLeavesWorkers
<1>2. ASSUME NEW w \in Workers, DbError(w) \/ PoolProcessLost(w) \/ Redelivery(w)
      PROVE  faults'[k] \in Nat /\ faults'[k] >= faults[k]
  BY <1>2 DEF DbError, PoolProcessLost, Redelivery, WorkerLost, VisibilityTimeout, CountFault
<1>3. ASSUME NEW w \in Workers, WorkerNext(w), ~DbError(w), ~PoolProcessLost(w)
      PROVE  UNCHANGED faults
  BY <1>3 DEF WorkerNext, HandlerNext, Deliver, Load, ReadSiblings, ReadJob, Commit, IngestFile,
     HandlerRaises, OpenOutput, CloseOutput, Return, Ack
<1> QED
  BY <1>1, <1>2, <1>3 DEF Next

LEMMA HeldStep ==
  ASSUME TypeOK, TaskInv, HeldInv, Next PROVE HeldInv'
<1> USE DEF HeldInv
<1>1. faults["redelivery"] \in Nat /\ faults'["redelivery"] \in Nat
      /\ faults'["redelivery"] >= faults["redelivery"]
  BY FaultsGrow DEF TypeOK, FaultKinds
<1>2. CASE ApiNext
  BY <1>1, <1>2, ApiLeavesWorkers
<1>3. ASSUME NEW w \in Workers, WorkerNext(w) \/ Redelivery(w), NEW v \in Workers,
             task'[v] # NoTask, ~held'[v]
      PROVE  faults'["redelivery"] > 0
  <2>1. CASE v # w
    BY <1>1, <1>3, <2>1, OthersKeep
  <2>2. CASE v = w /\ VisibilityTimeout(w)
    BY <1>1, <2>2 DEF VisibilityTimeout, CountFault, TypeOK, FaultKinds
  <2>3. CASE v = w /\ (Ack(w) \/ PoolProcessLost(w) \/ WorkerLost(w))
    BY <1>3, <2>3 DEF Ack, PoolProcessLost, WorkerLost, BecomeIdle, TypeOK
  <2>4. CASE v = w /\ \E m \in Messages : Deliver(w, m)
    BY <1>3, <2>4 DEF Deliver, TypeOK
  <2>5. CASE v = w /\ UNCHANGED <<task, held>>
    BY <1>1, <1>3, <2>5
  <2> QED
    BY <1>3, <2>1, <2>2, <2>3, <2>4, <2>5 DEF WorkerNext, HandlerNext, Redelivery, Load,
       ReadSiblings, ReadJob, Commit, IngestFile, HandlerRaises, OpenOutput, CloseOutput, Return,
       DbError
<1> QED
  BY <1>2, <1>3 DEF Next

----------------------------------------------------------------------------
\* No file is lost.

\* Once a file may be forgotten it may be forgotten for good.
LEMMA ForgetStep == ASSUME TypeOK, Next, MayForget PROVE MayForget'
BY FaultsGrow DEF TypeOK, FaultKinds, MayForget

\* The steps that can make a pending worker drop its file: a failed transaction,
\* a lost process, or a lost worker whose message was already handed out again.
\* All of them are counted.
LEMMA DropsCounted ==
  ASSUME TypeOK, HeldInv, NEW w \in Workers, task[w] # NoTask,
         DbError(w) \/ PoolProcessLost(w) \/ (WorkerLost(w) /\ ~held[w])
  PROVE  MayForget'
BY DEF TypeOK, HeldInv, FaultKinds, DbError, PoolProcessLost, WorkerLost, CountFault, MayForget

\* A lost worker or an overrun task puts its message back.
LEMMA Requeued ==
  ASSUME TypeOK, NEW w \in Workers, task[w] \in Files, held[w],
         WorkerLost(w) \/ VisibilityTimeout(w)
  PROVE  ready'[task[w]] > 0
BY DEF TypeOK, Messages, WorkerLost, VisibilityTimeout

\* A transaction that commits a file's row leaves it terminal, or goes on to the
\* work that will, or writes nothing: its own row was terminal when it read it.
LEMMA CommitKeeps ==
  ASSUME TypeOK, TaskInv, ResultInv, NEW w \in Workers, Commit(w), task[w] \in Files
  PROVE  \/ rows'[task[w]].status \in Terminal
         \/ phase'[w] = "work"
         \/ ~Pending(w) /\ rows'[task[w]].status = rows[task[w]].status
<1>1. phase[w] \in {"running", "result", "failure"} /\ step[w] = "commit"
  BY FilesAssumption DEF Commit, TaskInv, TaskOK, TxPhases
<1>2. CASE phase[w] = "running"
  BY <1>2 DEF Commit, Enter, AfterCommit, TypeOK
<1>3. CASE phase[w] # "running"
  <2>1. Target(w).status \in Terminal
    BY <1>1, <1>3 DEF Target, ResultInv, ResultOK
  <2>2. rows'[task[w]] = Merged(rows[task[w]], loaded[w], Target(w))
    BY DEF Commit, TypeOK
  <2>3. rows'[task[w]].status = IF Target(w).status = loaded[w].status
                                THEN rows[task[w]].status ELSE Target(w).status
    BY <2>2 DEF Merged
  <2>4. Target(w).status = loaded[w].status => ~Pending(w)
    BY <1>1, <1>3, <2>1 DEF Pending
  <2> QED
    BY <2>1, <2>3, <2>4
<1> QED
  BY <1>2, <1>3

\* A pending worker stays pending until it commits, unless it finds the row
\* terminal, or drops the file.
LEMMA PendingKeeps ==
  ASSUME TypeOK, TaskInv, NEW w \in Workers, WorkerNext(w), job # "absent",
         task[w] \in Files, Pending(w), ~Commit(w), ~DbError(w), ~PoolProcessLost(w)
  PROVE  task'[w] = task[w] /\ (Pending(w)' \/ rows'[task[w]].status \in Terminal)
<1> DEFINE Functions == /\ task \in [Workers -> Messages \cup {NoTask}]
                        /\ phase \in [Workers -> Phases]
                        /\ step \in [Workers -> {"none", "load", "siblings", "job", "commit"}]
                        /\ loaded \in [Workers -> Row]
<1> Functions /\ TaskOK(w)
  BY DEF TypeOK, TaskInv
<1> USE FilesAssumption DEF Pending, Enter, FirstStep, TxPhases, sessionVars, dbVars
<1>1. \A m \in Messages : ~Deliver(w, m)
  BY DEF Deliver
<1>2. CASE Load(w)
  <2>1. loaded'[w] = rows[task[w]] /\ UNCHANGED <<task, phase, rows>>
    BY <1>2 DEF Load
  <2>2. phase[w] \in {"running", "result", "failure"}
    BY <1>2 DEF Load, TaskOK
  <2> QED
    BY <2>1, <2>2
<1>3. CASE ReadSiblings(w) \/ ReadJob(w)
  BY <1>3 DEF ReadSiblings, ReadJob
<1>4. CASE IngestFile(w) \/ HandlerRaises(w) \/ OpenOutput(w) \/ CloseOutput(w)
  BY <1>4 DEF IngestFile, HandlerRaises, OpenOutput, CloseOutput
<1>5. ~Return(w) /\ ~Ack(w)
  BY DEF Return, Ack
<1> QED
  BY <1>1, <1>2, <1>3, <1>4, <1>5 DEF WorkerNext, HandlerNext

LEMMA KeptStep ==
  ASSUME TypeOK, TaskInv, ResultInv, SentInv, HeldInv, KeptInv, Next PROVE KeptInv'
<1> USE FilesAssumption
<1> DEFINE Kept(f) == \/ rows[f].status \in Terminal
                      \/ ready[f] > 0
                      \/ \E v \in Workers : task[v] = f /\ Pending(v)
<1> SUFFICES ASSUME ~MayForget', NEW f \in published' PROVE Kept(f)'
  BY DEF KeptInv
<1>1. \A g \in published : Kept(g)
  BY ForgetStep DEF KeptInv
<1>2. CASE ApiNext
  <2>1. UNCHANGED <<task, phase, step, loaded>>
    BY <1>2, ApiLeavesWorkers
  <2>2. CASE CreateJob
    BY <2>2 DEF CreateJob, SentInv
  <2>3. ASSUME NEW g \in Files, PublishTask(g) PROVE Kept(f)'
    <3>1. CASE f = g
      BY <2>3, <3>1 DEF PublishTask, TypeOK, Messages
    <3>2. CASE f # g
      <4>1. f \in published /\ ready'[f] = ready[f] /\ UNCHANGED rows
        BY <2>3, <3>2 DEF PublishTask, TypeOK, Messages, dbVars
      <4> QED
        BY <1>1, <2>1, <4>1 DEF Pending
    <3> QED
      BY <3>1, <3>2
  <2>4. CASE UNCHANGED <<published, ready, rows>>
    BY <1>1, <2>1, <2>4 DEF Pending
  <2> QED
    BY <1>2, <2>2, <2>3, <2>4 DEF ApiNext, SaveUpload, RefuseRequest, EnqueueFails, Respond,
       dbVars, brokerVars
<1>3. ASSUME NEW w \in Workers, WorkerNext(w) \/ Redelivery(w) PROVE Kept(f)'
  <2>1. f \in published /\ f \in Files /\ job # "absent"
    BY <1>3, RequestKeeps DEF SentInv, TypeOK
  <2>2. CASE Commit(w) /\ task[w] = f
    <3>1. task'[w] = f
      BY <2>2 DEF Commit
    <3>2. \/ rows'[f].status \in Terminal
          \/ phase'[w] = "work"
          \/ ~Pending(w) /\ rows'[f].status = rows[f].status
      BY <2>1, <2>2, CommitKeeps
    <3>3. CASE ~Pending(w) /\ rows'[f].status = rows[f].status
      <4>1. UNCHANGED ready
        BY <2>2 DEF Commit, brokerVars
      <4>2. ASSUME NEW v \in Workers, task[v] = f, Pending(v) PROVE task'[v] = f /\ Pending(v)'
        <5>1. v # w
          BY <3>3, <4>2
        <5> QED
          BY <1>3, <4>2, <5>1, OthersKeep DEF Pending
      <4> QED
        BY <1>1, <2>1, <3>3, <4>1, <4>2
    <3> QED
      BY <3>1, <3>2, <3>3 DEF Pending
  <2>3. CASE ~(Commit(w) /\ task[w] = f)
    <3>1. rows'[f] = rows[f]
      BY <1>3, <2>1, <2>3, RowsKeep DEF Redelivery, WorkerLost, VisibilityTimeout, dbVars
    <3>2. CASE rows[f].status \in Terminal
      BY <3>1, <3>2
    <3>3. CASE ready[f] > 0
      <4>1. CASE Deliver(w, f)
        BY <2>1, <4>1 DEF Deliver, Enter, TypeOK, Pending
      <4>2. CASE ~Deliver(w, f) /\ WorkerNext(w)
        BY <2>1, <3>3, <4>2, ReadyKeeps
      <4>3. CASE Redelivery(w)
        <5>1. ready' = ready \/ ready' = [ready EXCEPT ![task[w]] = @ + 1]
          BY <4>3 DEF Redelivery, WorkerLost, VisibilityTimeout
        <5> QED
          BY <2>1, <3>3, <5>1 DEF TypeOK, Messages
      <4> QED
        BY <1>3, <4>1, <4>2, <4>3
    <3>4. ASSUME NEW v \in Workers, task[v] = f, Pending(v) PROVE Kept(f)'
      <4>1. CASE v # w
        BY <1>3, <3>4, <4>1, OthersKeep DEF Pending
      <4>2. CASE v = w /\ Redelivery(w)
        <5>1. held[w]
          BY <2>1, <3>4, <4>2, DropsCounted DEF Redelivery, VisibilityTimeout
        <5> QED
          BY <2>1, <3>4, <4>2, <5>1, Requeued DEF Redelivery
      <4>3. CASE v = w /\ WorkerNext(w)
        <5>1. ~DbError(w) /\ ~PoolProcessLost(w)
          BY <2>1, <3>4, <4>3, DropsCounted
        <5> QED
          BY <2>1, <2>3, <3>4, <4>3, <5>1, PendingKeeps
      <4> QED
        BY <1>3, <4>1, <4>2, <4>3
    <3> QED
      BY <1>1, <2>1, <3>2, <3>3, <3>4
  <2> QED
    BY <2>2, <2>3
<1> QED
  BY <1>2, <1>3 DEF Next

\* The invariant of redelivery holds in every behaviour of the service.
THEOREM RedeliveryInvariance == Spec => []RedeliveryInv
<1>1. Init => RedeliveryInv
  <2> SUFFICES ASSUME Init PROVE RedeliveryInv
    OBVIOUS
  <2>1. TypeOK /\ TaskInv
    BY InitInv DEF IInv
  <2>2. ResultInv /\ SentInv /\ HeldInv /\ KeptInv
    BY FilesAssumption DEF Init, ResultInv, ResultOK, SentInv, HeldInv, KeptInv, Messages
  <2> QED
    BY <2>1, <2>2 DEF RedeliveryInv
<1>2. RedeliveryInv /\ [Next]_vars => RedeliveryInv'
  <2>1. ASSUME RedeliveryInv, Next PROVE RedeliveryInv'
    BY <2>1, TypeStep, TaskStep, ResultStep, SentStep, HeldStep, KeptStep DEF RedeliveryInv
  <2>2. ASSUME RedeliveryInv, UNCHANGED vars PROVE RedeliveryInv'
    BY <2>2 DEF RedeliveryInv, TypeOK, TaskInv, TaskOK, ResultInv, ResultOK, SentInv, HeldInv,
       KeptInv, Pending, MayForget, vars, apiVars, dbVars, brokerVars, workerVars, sessionVars
  <2> QED
    BY <2>1, <2>2
<1> QED
  BY <1>1, <1>2, PTL DEF Spec

\* Every variable keeps its type, messages delivered again or not.
THEOREM TypeCorrectAgain == Spec => []TypeOK
<1>1. RedeliveryInv => TypeOK
  BY DEF RedeliveryInv
<1> QED
  BY <1>1, RedeliveryInvariance, PTL

\* A crash re-queues the file instead of losing it (celery_app.py): whatever dies
\* and however often a message is handed out, a published file that is not
\* terminal is in the queue or in hand, unless a transaction failed, a pool
\* process died or a second redelivery hit the job.
THEOREM NoFileIsLost == Spec => []NoFileLost
<1>1. RedeliveryInv => NoFileLost
  BY DEF RedeliveryInv, KeptInv, NoFileLost, CrashRequeuesFile, Terminal
<1> QED
  BY <1>1, RedeliveryInvariance, PTL
============================================================================
