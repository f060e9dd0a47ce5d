-------------------------- MODULE JobPollingProofs --------------------------
(***************************************************************************)
(* Theorems about JobPolling for every set of files and workers and every  *)
(* number of faults: what a client of ui/app.py sees of a job, page by     *)
(* page, and what it downloads at the end.  The service beside the client  *)
(* runs as in OnceSpec, so its invariants are taken from there.            *)
(***************************************************************************)
EXTENDS JobPolling, JobServiceOutcome, SequenceLemmas

----------------------------------------------------------------------------
\* The invariant of the client.

\* A page is never ahead of the rows it was read from.
BehindInv ==
  \A f \in Files : FileProgress(shown[f].status) <= FileProgress(rows[f].status)

\* A final status that the client holds is still the job's, and the rows it read
\* after it are still the job's rows.
PageInv ==
  /\ ui \in {"files", "shown", "chunks", "done"} /\ shownJob \in TerminalJobStatuses
       => job = shownJob
  /\ ui \in {"shown", "chunks", "done"} /\ shownJob \in TerminalJobStatuses => shown = rows
  /\ ui \in {"chunks", "done"} => shownJob \in TerminalJobStatuses

\* Whatever a row names has been read whole, or is still to be read, and nothing else
\* is read; the client ends with the page of just that.
GotInv ==
  /\ ui = "chunks" => \A f \in Files :
       got[f] \in IF rows[f].output THEN {Unread, "chunks"} ELSE {"skipped"}
  /\ ui = "done" =>
       /\ \A f \in Files : rows[f].output => got[f] = "chunks"
       /\ payload = Response(Recorded)
  /\ ui # "done" => payload = NoResponse

PollInv == PollTypeOK /\ BehindInv /\ PageInv /\ GotInv

----------------------------------------------------------------------------
\* Rounding.

\* Python's // and % on naturals.
LEMMA Division ==
  ASSUME NEW a \in Nat, NEW b \in Nat, b > 0
  PROVE  /\ a \div b \in Int /\ a % b \in Int
         /\ a = b * (a \div b) + (a % b)
         /\ 0 <= a % b /\ a % b < b
OBVIOUS

\* Quotients are ordered as the numbers divided are.
LEMMA Ordered ==
  ASSUME NEW b \in Nat, b > 0, NEW q \in Int, NEW r \in Int, NEW k \in Int, NEW s \in Int,
         0 <= r, r < b, 0 <= s, s < b, b * q + r <= b * k + s
  PROVE  q < k \/ (q = k /\ r <= s)
<1>1. ASSUME k < q PROVE FALSE
  <2>1. b * (k + 1) <= b * q
    BY <1>1
  <2>2. b * (k + 1) = b * k + b
    OBVIOUS
  <2> QED
    BY <2>1, <2>2
<1> QED
  BY <1>1

\* round() never falls when the sum it divides grows, ties included.
LEMMA RoundMonotone ==
  ASSUME NEW a \in Nat, NEW c \in Nat, NEW b \in Nat, b > 0, a <= c
  PROVE  Round(a, b) \in Int /\ Round(a, b) <= Round(c, b)
<1> DEFINE q == a \div b  r == a % b  k == c \div b  s == c % b
<1>1. /\ q \in Int /\ r \in Int /\ a = b * q + r /\ 0 <= r /\ r < b
      /\ k \in Int /\ s \in Int /\ c = b * k + s /\ 0 <= s /\ s < b
  BY Division
<1>2. Round(a, b) = IF 2 * r > b \/ (2 * r = b /\ q % 2 = 1) THEN q + 1 ELSE q
  BY DEF Round
<1>3. Round(c, b) = IF 2 * s > b \/ (2 * s = b /\ k % 2 = 1) THEN k + 1 ELSE k
  BY DEF Round
<1> HIDE DEF q, r, k, s
<1>4. q < k \/ (q = k /\ r <= s)
  BY <1>1, Ordered
<1> QED
  BY <1>1, <1>2, <1>3, <1>4

\* A full hundred is not rounded.
LEMMA RoundExact ==
  ASSUME NEW n \in Nat, n > 0 PROVE Round(100 * n, n) = 100
<1> DEFINE q == (100 * n) \div n  r == (100 * n) % n
<1>1. q \in Int /\ r \in Int /\ 100 * n = n * q + r /\ 0 <= r /\ r < n
  BY Division
<1>2. Round(100 * n, n) = IF 2 * r > n \/ (2 * r = n /\ q % 2 = 1) THEN q + 1 ELSE q
  BY DEF Round
<1> HIDE DEF q, r
<1>3. n * q + r <= n * 100 + 0 /\ n * 100 + 0 <= n * q + r
  BY <1>1
<1>4. q < 100 \/ (q = 100 /\ r <= 0)
  BY <1>1, <1>3, Ordered
<1>5. 100 < q \/ (100 = q /\ 0 <= r)
  BY <1>1, <1>3, Ordered
<1> QED
  BY <1>1, <1>2, <1>4, <1>5

----------------------------------------------------------------------------
\* The progress of a job (progress.py).

LEMMA Parts ==
  ASSUME NEW st \in [Files -> FileStatus]
  PROVE  LET R == {f \in Files : st[f] = "running"}
             T == {f \in Files : st[f] \in TerminalFileStatuses}
         IN  /\ ComputeJobProgress(st) =
                  Round(50 * Cardinality(R) + 100 * Cardinality(T), Cardinality(Files))
             /\ IsFiniteSet(R) /\ IsFiniteSet(T) /\ IsFiniteSet(R \cup T)
             /\ Cardinality(R) \in Nat /\ Cardinality(T) \in Nat /\ Cardinality(R \cup T) \in Nat
             /\ Cardinality(R \cup T) = Cardinality(R) + Cardinality(T)
             /\ Cardinality(Files) \in Nat /\ Cardinality(Files) > 0
<1> DEFINE R == {f \in Files : st[f] = "running"}
           T == {f \in Files : st[f] \in TerminalFileStatuses}
<1>1. Cardinality(Files) \in Nat /\ Cardinality(Files) > 0
  BY FilesAssumption, FS_CardinalityType, FS_EmptySet
<1>2. IsFiniteSet(R) /\ IsFiniteSet(T) /\ IsFiniteSet(R \cup T)
  BY FilesAssumption, FS_Subset
<1>3. Cardinality(R) \in Nat /\ Cardinality(T) \in Nat /\ Cardinality(R \cup T) \in Nat
  BY <1>2, FS_CardinalityType
<1>4. R \cap T = {}
  BY DEF TerminalFileStatuses
<1>5. Cardinality(R \cup T) = Cardinality(R) + Cardinality(T)
  BY <1>2, <1>3, <1>4, FS_Union, FS_EmptySet
<1>6. DOMAIN st = Files
  OBVIOUS
<1>7. ComputeJobProgress(st) =
        Round(50 * Cardinality(R) + 100 * Cardinality(T), Cardinality(Files))
  BY <1>1, <1>6 DEF ComputeJobProgress, ProgressOf
<1> QED
  BY <1>1, <1>2, <1>3, <1>5, <1>7

\* The job's percentage does not fall when no file's does.
LEMMA ProgressMonotone ==
  ASSUME NEW st \in [Files -> FileStatus], NEW su \in [Files -> FileStatus],
         \A f \in Files : FileProgress(st[f]) <= FileProgress(su[f])
  PROVE  ComputeJobProgress(su) >= ComputeJobProgress(st)
<1> DEFINE R1 == {f \in Files : st[f] = "running"}
           T1 == {f \in Files : st[f] \in TerminalFileStatuses}
           R2 == {f \in Files : su[f] = "running"}
           T2 == {f \in Files : su[f] \in TerminalFileStatuses}
           n  == Cardinality(Files)
           s1 == 50 * Cardinality(R1) + 100 * Cardinality(T1)
           s2 == 50 * Cardinality(R2) + 100 * Cardinality(T2)
<1>1. /\ ComputeJobProgress(st) = Round(s1, n) /\ ComputeJobProgress(su) = Round(s2, n)
      /\ Cardinality(R1) \in Nat /\ Cardinality(T1) \in Nat
      /\ Cardinality(R2) \in Nat /\ Cardinality(T2) \in Nat
      /\ Cardinality(R1 \cup T1) = Cardinality(R1) + Cardinality(T1)
      /\ Cardinality(R2 \cup T2) = Cardinality(R2) + Cardinality(T2)
      /\ IsFiniteSet(T2) /\ IsFiniteSet(R2 \cup T2)
      /\ n \in Nat /\ n > 0
  BY Parts
<1>2. \A f \in Files : st[f] \in FileStatus /\ su[f] \in FileStatus
  OBVIOUS
<1>3. T1 \subseteq T2 /\ (R1 \cup T1) \subseteq (R2 \cup T2)
  BY <1>2 DEF FileProgress, FileStatus, TerminalFileStatuses
<1>4. /\ Cardinality(T1) <= Cardinality(T2)
      /\ Cardinality(R1 \cup T1) <= Cardinality(R2 \cup T2)
  BY <1>1, <1>3, FS_Subset
<1> HIDE DEF R1, T1, R2, T2, n
<1>5. s1 \in Nat /\ s2 \in Nat /\ s1 <= s2
  BY <1>1, <1>4
<1> HIDE DEF s1, s2
<1>6. Round(s1, n) \in Int /\ Round(s2, n) \in Int /\ Round(s1, n) <= Round(s2, n)
  BY <1>1, <1>5, RoundMonotone
<1> QED
  BY <1>1, <1>6

\* A job all of whose files are over is at 100 percent.
LEMMA ProgressFull ==
  ASSUME NEW st \in [Files -> FileStatus], AllTerminal(st)
  PROVE  ComputeJobProgress(st) = 100
<1> DEFINE R == {f \in Files : st[f] = "running"}
           T == {f \in Files : st[f] \in TerminalFileStatuses}
<1>1. R = {} /\ T = Files
  BY DEF AllTerminal, TerminalFileStatuses
<1>2. /\ ComputeJobProgress(st) =
           Round(50 * Cardinality(R) + 100 * Cardinality(T), Cardinality(Files))
      /\ Cardinality(Files) \in Nat /\ Cardinality(Files) > 0
  BY Parts
<1>3. Cardinality(R) = 0 /\ Cardinality(T) = Cardinality(Files)
  BY <1>1, FS_EmptySet
<1> HIDE DEF R, T
<1>4. 50 * Cardinality(R) + 100 * Cardinality(T) = 100 * Cardinality(Files)
  BY <1>2, <1>3
<1> QED
  BY <1>2, <1>4, RoundExact

----------------------------------------------------------------------------
\* What the service does beside the client.

\* Once the job is final neither its row nor its files' rows change any more.
LEMMA FinalStays ==
  ASSUME IInv, OnceNext, job \in TerminalJobStatuses PROVE UNCHANGED <<job, rows>>
<1> USE FilesAssumption
<1>1. \A f \in Files : rows[f].status \in Terminal
  BY DEF IInv, JobInv, JobStatusSound, AllTerminal, Statuses, Terminal
<1>2. CASE ApiNext
  <2>1. UNCHANGED job
    BY <1>2, ApiJob DEF TerminalJobStatuses
  <2>2. published # {}
    BY <1>1 DEF IInv, QueueInv, Terminal, TerminalFileStatuses
  <2> QED
    BY <1>2, <2>1, <2>2, ApiKeeps DEF IInv
<1>3. ASSUME NEW w \in Workers, WorkerNext(w) PROVE UNCHANGED <<job, rows>>
  <2>1. CASE Commit(w)
    BY <1>1, <1>3, <2>1, FinalKeeps, CommitsNonTerminal, Commits
  <2>2. CASE ~Commit(w)
    BY <1>3, <2>2, JobKeeps
  <2> QED
    BY <2>1, <2>2
<1> QED
  BY <1>2, <1>3 DEF OnceNext

\* No row loses progress.
LEMMA RowsForward ==
  ASSUME IInv, OnceNext, NEW f \in Files
  PROVE  FileProgress(rows[f].status) <= FileProgress(rows'[f].status)
<1> USE DEF FileProgress
<1>1. CASE rows'[f].status = rows[f].status
  BY <1>1
<1>2. CASE ApiNext
  BY <1>1, <1>2, ApiKeeps DEF IInv
<1>3. ASSUME NEW w \in Workers, WorkerNext(w), Commit(w), f = task[w]
      PROVE  FileProgress(rows[f].status) <= FileProgress(rows'[f].status)
  <2>1. phase[w] \in {"running", "result", "failure"}
    BY <1>3, CommitsNonTerminal
  <2>2. rows'[f].status = Target(w).status
    BY <1>3, CommitStatus DEF IInv
  <2>3. phase[w] # "running" => result[w].status \in Terminal /\ rows[f].status = "running"
    BY <1>3, <2>1 DEF IInv, PhaseInv, PhaseOK
  <2>4. phase[w] = "running" => rows[f].status = "queued"
    BY <1>3 DEF IInv, PhaseInv, PhaseOK
  <2> QED
    BY <2>2, <2>3, <2>4 DEF Target, Terminal, TerminalFileStatuses
<1>4. ASSUME NEW w \in Workers, WorkerNext(w), ~(Commit(w) /\ f = task[w])
      PROVE  FileProgress(rows[f].status) <= FileProgress(rows'[f].status)
  BY <1>1, <1>4, RowsKeep DEF IInv
<1> QED
  BY <1>2, <1>3, <1>4 DEF OnceNext

\* With the client beside it the service takes its own steps only.
THEOREM ServiceIsUndisturbed == PollSpec => OnceSpec
<1>1. PollInit => Init
  BY DEF PollInit
<1>2. [PollNext]_pollVars => [OnceNext]_vars
  BY DEF PollNext, pollVars, UiNext, SelectJob, SelectFiles, Rerun, NothingToFetch,
     SelectChunkRows, ServeChunks, ReadOutput
<1> QED
  BY <1>1, <1>2, PTL DEF PollSpec, OnceSpec

----------------------------------------------------------------------------
\* The inductive step.

\* The chunks of files are chunks, and no files have none.
LEMMA ChunksAreLines == ASSUME NEW files PROVE ChunksIn(files) \in SeqOver(Lines)
<1>1. ASSUME NEW f \in Files PROVE FileLines[f] \in SeqOver(Lines)
  <2>1. FileChunks[f] \in Nat /\ FileLines[f] = [n \in 1..FileChunks[f] |-> <<f, n>>]
    BY FileChunksAssumption DEF FileLines
  <2>2. FileLines[f] \in [1..FileChunks[f] -> Lines]
    BY <2>1 DEF Lines
  <2> QED
    BY <2>1, <2>2, Listed
<1>2. FileLines \in [Files -> SeqOver(Lines)]
  BY <1>1 DEF FileLines
<1>3. FileOrder \in SeqOver(Files)
  BY FileOrderAssumption DEF SeqOver
<1>4. ChunksIn(files) = Gather(FileLines, Only(FileOrder, files))
  BY DEF ChunksIn, Gather
<1>5. Only(FileOrder, files) \in SeqOver(Files)
  BY <1>3, OnlyType
<1>6. Gather(FileLines, Only(FileOrder, files)) \in SeqOver(Lines)
  BY <1>2, <1>5, GatherType
<1> QED
  BY <1>4, <1>6

LEMMA ChunksType ==
  ASSUME NEW files
  PROVE  Response(ChunksIn(files)) \in [total : Nat, chunks : Seq(Lines)]
<1> DEFINE all == ChunksIn(files)
<1>1. all \in SeqOver(Lines)
  BY ChunksAreLines
<1> HIDE DEF all
<1>2. Len(all) \in Nat
  BY <1>1, Items
<1>3. FirstPage(all) \in Seq(Lines)
  <2>1. (IF PageLimit < Len(all) THEN PageLimit ELSE Len(all)) \in 0..Len(all)
    BY <1>2, PageLimitAssumption
  <2> QED
    BY <1>1, <2>1, Beginnings DEF FirstPage, SeqOver
<1> QED
  BY <1>2, <1>3 DEF Response, all

LEMMA NoChunks == Response(ChunksIn({})) = NoResponse
<1>1. FileOrder \in SeqOver(Files)
  BY FileOrderAssumption DEF SeqOver
<1>2. Only(FileOrder, {}) = <<>>
  BY <1>1, OnlyNone
<1>3. ChunksIn({}) = <<>>
  BY <1>2, GatherNothing DEF ChunksIn, Gather
<1>4. Len(<<>>) = 0 /\ SubSeq(<<>>, 1, 0) = <<>>
  OBVIOUS
<1>5. FirstPage(<<>>) = <<>>
  BY <1>4, PageLimitAssumption DEF FirstPage
<1> QED
  BY <1>3, <1>4, <1>5 DEF Response, NoResponse

LEMMA PollTypeStep ==
  ASSUME PollTypeOK, TypeOK', [PollNext]_pollVars PROVE PollTypeOK'
<1> USE DEF PollTypeOK, uiVars
<1>1. CASE UNCHANGED uiVars
  BY <1>1
<1>2. CASE SelectJob
  BY <1>2 DEF SelectJob, TypeOK
<1>3. CASE SelectFiles
  BY <1>3 DEF SelectFiles, TypeOK
<1>4. CASE Rerun \/ NothingToFetch
  BY <1>4 DEF Rerun, NothingToFetch
<1>5. CASE SelectChunkRows
  BY <1>5 DEF SelectChunkRows
<1>6. ASSUME NEW f \in Files, ReadOutput(f) PROVE PollTypeOK'
  BY <1>6 DEF ReadOutput, TypeOK
<1>7. CASE ServeChunks
  BY <1>7, ChunksType DEF ServeChunks
<1> QED
  BY <1>1, <1>2, <1>3, <1>4, <1>5, <1>6, <1>7 DEF PollNext, UiNext, pollVars

LEMMA BehindStep ==
  ASSUME IInv, PollTypeOK, BehindInv, [PollNext]_pollVars PROVE BehindInv'
<1>0. \A f \in Files : /\ rows[f].status \in FileStatus
                       /\ shown[f].status \in FileStatus
  BY DEF PollTypeOK, TypeOK, Row
<1>1. \A s : FileProgress(s) \in Int
  BY DEF FileProgress
<1>2. CASE OnceNext /\ UNCHANGED uiVars
  BY <1>1, <1>2, RowsForward DEF BehindInv, uiVars
<1>3. CASE SelectFiles
  <2>1. shown' = rows /\ UNCHANGED rows
    BY <1>3 DEF SelectFiles, vars, dbVars
  <2> QED
    BY <1>1, <2>1 DEF BehindInv
<1>4. CASE UNCHANGED <<rows, shown>>
  BY <1>4 DEF BehindInv
<1> QED
  BY <1>2, <1>3, <1>4 DEF PollNext, UiNext, SelectJob, Rerun, NothingToFetch, SelectChunkRows,
     ServeChunks, ReadOutput, pollVars, uiVars, vars, dbVars

LEMMA PageStep ==
  ASSUME IInv, PollTypeOK, PageInv, [PollNext]_pollVars PROVE PageInv'
<1> USE DEF PageInv
<1>1. CASE OnceNext /\ UNCHANGED uiVars
  BY <1>1, FinalStays DEF uiVars
<1>2. CASE UNCHANGED pollVars
  BY <1>2 DEF pollVars, uiVars, vars, dbVars
<1>3. CASE SelectJob \/ SelectFiles \/ Rerun
  BY <1>3 DEF SelectJob, SelectFiles, Rerun, vars, dbVars
<1>4. CASE NothingToFetch \/ SelectChunkRows \/ ServeChunks \/ \E f \in Files : ReadOutput(f)
  BY <1>4 DEF NothingToFetch, SelectChunkRows, ServeChunks, ReadOutput, vars, dbVars
<1> QED
  BY <1>1, <1>2, <1>3, <1>4 DEF PollNext, UiNext

LEMMA GotStep ==
  ASSUME IInv, OutputInv, PollTypeOK, PageInv, GotInv, [PollNext]_pollVars PROVE GotInv'
<1> USE DEF GotInv
<1>1. CASE OnceNext /\ UNCHANGED uiVars
  <2>1. ui \in {"chunks", "done"} => UNCHANGED rows
    BY <1>1, FinalStays DEF PageInv
  <2> QED
    BY <1>1, <2>1 DEF uiVars, Recorded
<1>2. CASE UNCHANGED pollVars
  BY <1>2 DEF pollVars, uiVars, vars, dbVars, Recorded
<1>3. CASE SelectJob \/ SelectFiles \/ Rerun
  BY <1>3 DEF SelectJob, SelectFiles, Rerun
<1>4. CASE NothingToFetch
  <2>1. /\ ui' = "done" /\ payload' = NoResponse /\ UNCHANGED rows
        /\ \A f \in Files : ~rows[f].output
    BY <1>4 DEF NothingToFetch, PageInv, vars, dbVars
  <2>2. Recorded' = ChunksIn({})
    <3>1. {f \in Files : rows'[f].output} = {}
      BY <2>1
    <3> QED
      BY <3>1 DEF Recorded
  <2> QED
    BY <2>1, <2>2, NoChunks
<1>5. CASE SelectChunkRows
  BY <1>5 DEF SelectChunkRows, vars, dbVars
<1>6. CASE ServeChunks
  <2>1. /\ ui = "chunks" /\ ui' = "done" /\ UNCHANGED <<rows, got>>
        /\ payload' = Response(ChunksIn({f \in Files : got[f] = "chunks"}))
    BY <1>6 DEF ServeChunks, vars, dbVars
  <2>2. \A f \in Files : rows[f].output <=> got[f] = "chunks"
    BY <1>6, <2>1 DEF ServeChunks, Unread
  <2>3. Recorded' = ChunksIn({f \in Files : got[f] = "chunks"})
    <3>1. {f \in Files : rows'[f].output} = {f \in Files : got[f] = "chunks"}
      BY <2>1, <2>2
    <3> QED
      BY <3>1 DEF Recorded
  <2> QED
    BY <2>1, <2>2, <2>3
<1>7. ASSUME NEW f \in Files, ReadOutput(f) PROVE GotInv'
  <2>1. rows[f].output => output[f] = "chunks"
    BY DEF OutputInv, OutputWhole
  <2>2. /\ got' = [got EXCEPT ![f] = output[f]] /\ ui = "chunks" /\ got[f] = Unread
        /\ UNCHANGED <<ui, rows, payload>>
    BY <1>7 DEF ReadOutput, vars, dbVars
  <2>3. rows[f].output
    BY <2>2 DEF Unread
  <2> QED
    BY <2>1, <2>2, <2>3 DEF PollTypeOK
<1> QED
  BY <1>1, <1>2, <1>3, <1>4, <1>5, <1>6, <1>7 DEF PollNext, UiNext

----------------------------------------------------------------------------
\* The theorems.

\* The invariants of the service and of its client hold together.
THEOREM PollInvariance == PollSpec => [](IInv /\ OutputInv /\ PollInv)
<1>1. PollInit => PollInv
  <2> SUFFICES ASSUME PollInit PROVE PollInv
    OBVIOUS
  <2>1. TypeOK /\ rows = [f \in Files |-> QueuedRow]
    BY InitInv DEF PollInit, Init, IInv
  <2>2. PollTypeOK
    BY <2>1 DEF PollInit, PollTypeOK, JobStatuses, TypeOK, NoResponse
  <2>3. BehindInv
    BY <2>1 DEF PollInit, BehindInv, QueuedRow, FileProgress
  <2>4. PageInv /\ GotInv
    BY DEF PollInit, PageInv, GotInv, TerminalJobStatuses
  <2> QED
    BY <2>2, <2>3, <2>4 DEF PollInv
<1>2. IInv /\ IInv' /\ OutputInv /\ PollInv /\ [PollNext]_pollVars => PollInv'
  BY PollTypeStep, BehindStep, PageStep, GotStep DEF PollInv, IInv
<1> QED
  BY <1>1, <1>2, ServiceIsUndisturbed, Invariance, OutputInvariance, PTL DEF PollSpec

\* Every variable of the client keeps its type: a page never shows an absent job.
THEOREM PollTypeCorrect == PollSpec => []PollTypeOK
<1>1. PollInv => PollTypeOK
  BY DEF PollInv
<1> QED
  BY <1>1, PollInvariance, PTL

\* A page that says the job is over shows every file over and 100 percent, and
\* its status is the roll-up of its rows, although they come from two statements
\* with commits in between (get_job of api.py).
THEOREM PagesAreConsistent == PollSpec => []PageConsistent
<1>1. IInv /\ PollInv => PageConsistent
  <2> SUFFICES ASSUME IInv, PollInv, ui \in {"shown", "chunks", "done"},
                      shownJob \in TerminalJobStatuses
               PROVE  AllTerminal(Shown) /\ shownJob = ComputeJobStatus(Shown) /\ Percent = 100
    BY DEF PageConsistent
  <2>1. job = shownJob /\ Shown = Statuses
    BY DEF PollInv, PageInv, Shown, Statuses
  <2>2. AllTerminal(Shown) /\ shownJob = ComputeJobStatus(Shown)
    BY <2>1 DEF IInv, JobInv, JobStatusSound
  <2>3. Shown \in [Files -> FileStatus]
    BY DEF PollInv, PollTypeOK, Shown, Row
  <2> QED
    BY <2>2, <2>3, ProgressFull DEF Percent
<1> QED
  BY <1>1, PollInvariance, PTL

\* What the client ends with is the first PageLimit of the chunks of every file whose row
\* will ever name an output, read whole and in the order of the files, and their number
\* (get_chunks of api.py, fetch_chunks of ui/app.py).
THEOREM DownloadsFirstPage == PollSpec => []DownloadIsFirstPage
<1>1. PollInv => DownloadIsFirstPage
  <2> SUFFICES ASSUME PollInv, ui = "done"
               PROVE  /\ payload.total = Len(Recorded)
                      /\ payload.chunks = FirstPage(Recorded)
                      /\ \A f \in Files : rows[f].output => shown[f].output /\ got[f] = "chunks"
    BY DEF DownloadIsFirstPage
  <2>1. payload = Response(Recorded) /\ \A f \in Files : rows[f].output => got[f] = "chunks"
    BY DEF PollInv, GotInv
  <2>2. payload.total = Len(Recorded) /\ payload.chunks = FirstPage(Recorded)
    BY <2>1 DEF Response
  <2>3. shown = rows
    BY DEF PollInv, PageInv
  <2> QED
    BY <2>1, <2>2, <2>3
<1> QED
  BY <1>1, PollInvariance, PTL

\* A job with no more than PageLimit chunks is downloaded whole.
THEOREM ShortJobsDownloaded ==
  PollSpec => [](ui = "done" /\ Len(Recorded) <= PageLimit => payload.chunks = Recorded)
<1>1. DownloadIsFirstPage => (ui = "done" /\ Len(Recorded) <= PageLimit => payload.chunks = Recorded)
  <2> SUFFICES ASSUME DownloadIsFirstPage, ui = "done", Len(Recorded) <= PageLimit
               PROVE  payload.chunks = Recorded
    OBVIOUS
  <2>1. Recorded \in SeqOver(Lines)
    BY ChunksAreLines DEF Recorded
  <2>2. Len(Recorded) \in Nat /\ SubSeq(Recorded, 1, Len(Recorded)) = Recorded
    BY <2>1, Beginnings, Items
  <2> QED
    BY <2>2, PageLimitAssumption DEF DownloadIsFirstPage, FirstPage
<1> QED
  BY <1>1, DownloadsFirstPage, PTL

\* The percentage on the page never falls (progress.py, repository.py).
THEOREM PercentGrows == PollSpec => PercentNeverFalls
<1> DEFINE Refreshed == [f \in Files |-> shown'[f].status]
<1>1. ASSUME IInv, PollInv, [PollNext]_pollVars
      PROVE  [ComputeJobProgress(Refreshed) >= Percent]_shown
  <2>1. CASE UNCHANGED shown
    BY <2>1
  <2>2. CASE SelectFiles
    <3>1. shown' = rows
      BY <2>2 DEF SelectFiles
    <3>2. Shown \in [Files -> FileStatus] /\ Refreshed \in [Files -> FileStatus]
      BY <1>1, <3>1 DEF PollInv, PollTypeOK, TypeOK, Shown, Row
    <3>3. \A f \in Files : FileProgress(Shown[f]) <= FileProgress(Refreshed[f])
      BY <1>1, <3>1 DEF PollInv, BehindInv, Shown
    <3> HIDE DEF Refreshed
    <3> QED
      BY <3>2, <3>3, ProgressMonotone DEF Percent
  <2> QED
    BY <1>1, <2>1, <2>2 DEF PollNext, UiNext, SelectJob, Rerun, NothingToFetch, SelectChunkRows,
       ServeChunks, ReadOutput, pollVars, uiVars
<1> QED
  BY <1>1, PollInvariance, PTL DEF PollSpec, PercentNeverFalls
=============================================================================
