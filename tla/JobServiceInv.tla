--------------------------- MODULE JobServiceInv ---------------------------
(***************************************************************************)
(* The inductive invariant of JobService when no message is delivered      *)
(* twice (OnceSpec).  It says who owns a file: nobody before its message   *)
(* is out, the queue, then one worker, then the chord; only the owner      *)
(* writes the file's row, so what a transaction has read of a terminal row *)
(* stays true, however old it is when the transaction commits.             *)
(***************************************************************************)
EXTENDS JobService

Terminal == TerminalFileStatuses

\* The rows exist from the commit on, which finds every file saved, and
\* messages only after it.
ApiInv ==
  /\ job = "absent" <=> api \in {"uploading", "rejected"}
  /\ job = "absent" => published = {}
  /\ job # "absent" => uploads = Files

\* A worker's phase fits its message, and its step the phase.
TaskOK(w) ==
  /\ task[w] = NoTask <=> phase[w] = "idle"
  /\ phase[w] = "finalize" => task[w] = Finalize
  /\ phase[w] \in {"running", "work", "write", "writing", "result", "failure"}
       => task[w] \in Files
  /\ step[w] = "none" <=> phase[w] \notin TxPhases
  /\ phase[w] = "finalize" => step[w] # "load"
TaskInv == \A w \in Workers : TaskOK(w)

\* One owner per file.
QueueInv == \A f \in Files :
  /\ f \notin published => ready[f] = 0 /\ rows[f].status = "queued"
  /\ ready[f] # 0 => ready[f] = 1 /\ rows[f].status = "queued"
OwnerInv ==
  /\ \A w \in Workers : task[w] \in Files => task[w] \in published /\ ready[task[w]] = 0
  /\ \A v, w \in Workers : task[v] \in Files /\ task[v] = task[w] => v = w
ReturnedInv ==
  /\ \A p \in returned :
       /\ p[1] \in published /\ ready[p[1]] = 0
       /\ \A w \in Workers : task[w] = p[1] => phase[w] = "ack"
       /\ p[2] = "raised" \/ rows[p[1]].status = p[2]
  /\ \A p, q \in returned : p[1] = q[1] => p = q

\* The row of a file follows the phase of its owner.
PhaseOK(w) ==
  /\ phase[w] = "running" => rows[task[w]].status = "queued"
  /\ phase[w] \in {"work", "write", "writing", "result", "failure"}
       => rows[task[w]].status = "running"
  /\ phase[w] \in {"write", "writing", "result", "failure"} => result[w].status \in Terminal
  /\ phase[w] \in {"return", "ack"} /\ task[w] \in Files
       => \/ result[w].status = "raised"
          \/ result[w].status \in Terminal /\ rows[task[w]].status = result[w].status
PhaseInv == \A w \in Workers : PhaseOK(w)

\* What a session has read is still true: of its own row, and of every sibling
\* that was terminal, as all are when finalize_job reads them.
LoadedOK(w) ==
  step[w] \in {"siblings", "job", "commit"} /\ task[w] \in Files => loaded[w] = rows[task[w]]
LoadedInv == \A w \in Workers : LoadedOK(w)

ViewOK(w) == step[w] \in {"job", "commit"} =>
  \A f \in Files :
    IF f = task[w] THEN view[w][f] = Target(w).status
                   ELSE task[w] = Finalize \/ view[w][f] \in Terminal
                          => rows[f].status = view[w][f]
ViewInv == \A w \in Workers : ViewOK(w)

\* The chord fires only when every file has returned, and the callback only
\* exists once it has.
ChordInv ==
  /\ chord = "fired" => \A f \in Files : \E p \in returned : p[1] = f /\ p[2] # "raised"
  /\ (ready[Finalize] > 0 \/ \E w \in Workers : task[w] = Finalize) => chord = "fired"

\* The job's own row: queued until a file starts, terminal only when all are.
SeenOK(w) == step[w] = "commit" =>
  /\ seen[w] # "absent"
  /\ seen[w] = "running" => job # "queued"
SeenInv == \A w \in Workers : SeenOK(w)

JobInv ==
  /\ job = "queued" => \A f \in Files : rows[f].status = "queued"
  /\ JobStatusSound

IInv ==
  /\ TypeOK /\ ApiInv /\ TaskInv /\ QueueInv /\ OwnerInv /\ ReturnedInv
  /\ PhaseInv /\ LoadedInv /\ ViewInv /\ ChordInv /\ SeenInv /\ JobInv

\* The output file: only a failed result has no chunks to promise, and between
\* the write and the commit nobody but the owner opens the file.
OutputOK(w) ==
  /\ phase[w] \in {"write", "writing", "result"} /\ result[w].status = "failed"
       => ~result[w].chunks
  /\ phase[w] = "failure" => ~result[w].chunks
  /\ phase[w] = "result" /\ result[w].chunks => output[task[w]] = "chunks"
OutputInv == OutputWhole /\ \A w \in Workers : OutputOK(w)

----------------------------------------------------------------------------
\* What remains true when messages are delivered again (Spec).  Two workers may
\* then hold one file, so a row no longer follows its owner: what is left is what
\* each worker knows of itself, and who will still give a row a terminal status.

\* A handler that records or reports a status has one.
ResultOK(w) ==
  /\ phase[w] \in {"write", "writing", "result", "failure"} => result[w].status \in Terminal
  /\ phase[w] \in {"return", "ack"} /\ task[w] \in Files
       => result[w].status \in Terminal \cup {"raised"}
ResultInv == \A w \in Workers : ResultOK(w)

\* Messages only after the commit of the rows, and only of published files.
SentInv ==
  /\ published # {} => api \notin {"uploading", "rejected"}
  /\ api \notin {"uploading", "rejected"} => job # "absent"
  /\ \A f \in Files : ready[f] > 0 => f \in published
  /\ \A w \in Workers : task[w] \in Files => task[w] \in published

\* A delivery that the broker no longer counts has been handed out again.
HeldInv == \A w \in Workers : task[w] # NoTask /\ ~held[w] => faults["redelivery"] > 0

\* The worker is going to commit a terminal status over what it loads, or over
\* the non-terminal status it has loaded.
Pending(w) ==
  \/ phase[w] \in {"running", "work", "write", "writing"}
  \/ phase[w] \in {"result", "failure"} /\ (step[w] = "load" \/ loaded[w].status \notin Terminal)

\* A published file that is not terminal has a message or a pending worker: it
\* does not suffice that some worker holds it, who may be past its commit.
KeptInv == MayForget \/ \A f \in published :
  \/ rows[f].status \in Terminal
  \/ ready[f] > 0
  \/ \E w \in Workers : task[w] = f /\ Pending(w)

RedeliveryInv ==
  TypeOK /\ TaskInv /\ ResultInv /\ SentInv /\ HeldInv /\ KeptInv

----------------------------------------------------------------------------
\* What it takes for the job to be final once nothing is queued or running, when
\* no transaction failed and no process died: every part reaches the chord, the
\* last of them queues the callback, and the callback's commit settles the job.
Clean == faults["db"] = 0 /\ faults["pool"] = 0

\* A running job has started a file.
StartedInv == job = "running" => \E f \in Files : rows[f].status # "queued"

\* Nothing raises out of a task, so the chord cannot fail.
NoRaiseInv == Clean =>
  /\ \A w \in Workers : result[w].status # "raised"
  /\ \A p \in returned : p[2] # "raised"
  /\ chord # "error"

\* A terminal file has its part in the chord, or its worker is about to add it.
PartInv == Clean => \A f \in Files : rows[f].status \in Terminal =>
  \/ \E p \in returned : p[1] = f
  \/ \E w \in Workers : task[w] = f /\ phase[w] = "return"

\* While the chord counts some part is missing.
CountInv == chord = "counting" => \E f \in Files : \A p \in returned : p[1] # f

\* A transaction that read a final job status read the job's last one.
FinalSeenInv ==
  \A w \in Workers : step[w] = "commit" /\ seen[w] \in TerminalJobStatuses => job = seen[w]

\* From the fired chord on, finalize_job is queued or running, or the job is over.
SettledInv == Clean /\ chord = "fired" =>
  \/ ready[Finalize] > 0
  \/ \E w \in Workers : phase[w] = "finalize"
  \/ job \in TerminalJobStatuses

QuietInv ==
  StartedInv /\ NoRaiseInv /\ PartInv /\ CountInv /\ FinalSeenInv /\ SettledInv
=============================================================================
