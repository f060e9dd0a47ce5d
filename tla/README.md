# rag-ingestion in TLA+

Specifications, TLC model checks and TLAPS proofs for the ingestion service: what happens to a
job from `POST /jobs` to the last download, when several workers, a broker and a polling client
touch the same rows and files at once; and for what a worker does with a file, from the elements
of a document over its sections, slides or sheets to parents and children, and for a directory
of files on a pool of threads.

## 1. Inventory

| component | state it keeps | operations | interacts through |
|---|---|---|---|
| HTTP API (`service/api.py`) | uploads on disk, the request in progress | create job, list, get, chunks | SQLite, output files, broker |
| Celery tasks (`service/tasks.py`) | one pipeline per process | `ingest_file_task`, `finalize_job`, `enqueue_job` | broker, SQLite, output files |
| Repository and sessions (`service/repository.py`, `db.py`, `models.py`) | `jobs` and `job_files` rows | create, mark running, mark result, refresh | every process, through SQLite |
| Roll-up (`service/progress.py`) | none | job status and percentage of the files' statuses | repository, schemas |
| Celery and Redis (external, configured in `service/celery_app.py`) | queue, unacknowledged messages, chord counter | deliver, acknowledge, redeliver, fire the callback | tasks |
| Streamlit client (`ui/app.py`) | the page on screen | submit, poll, download | API |
| Pipeline (`rag_ingestion/pipeline.py`) | parsers, chunkers | `ingest_file`, `ingest_directory` | tasks, parsers, chunkers |
| Embedding cache (`chunkers/embeddings.py`) | `embeddings.json`, one dictionary per instance | load, embed, flush | threads and processes, through the file |
| Docling parser (`parsers/docling_parser.py`) | within a call: the elements, the stack of headings, the open section, the dialogue with the classifier | extract, quality gate, the ladder heading / LLM / page / flat / slide | Docling, a language model, pipeline |
| Tabular parser, registry (`parsers/`) | none | sheets to sections, choice of a parser | pipeline |
| Semantic chunker, tables (`chunkers/semantic_parent_child.py`, `table.py`, `utils/tables.py`) | within a call: the chunks, two ordinals, the parent for tables, the root | split, merge, emit | pipeline, embeddings |
| Slide and row chunkers (`chunkers/slide.py`, `row.py`) | lazily built embeddings | windows, row batches | pipeline, cache |
| Utilities (`rag_ingestion/utils/`, `config.py`, `offline.py`) | the process-wide token counter | tokens, tables, ids | chunkers |
| Schema migrations, docker, examples | - | - | - |

**What is hard.** Workers run on several machines and share nothing but SQLite, a directory and
Redis. A database transaction is not a snapshot: pysqlite opens one only at the first UPDATE and
`SessionLocal` has `autoflush=False`, so every SELECT sees a different moment and the job status
that is written at COMMIT was computed from statuses that may be stale. `acks_late` delivers a
message again after a lost worker or a visibility timeout, so the same task may run twice, even
at the same time. The error path of a task is itself a transaction that can fail. The job is
declared over by whichever transaction happens to see the last file, or by the chord callback.
The client assembles a page from two SELECTs. The embedding cache is locked per instance but
shared per file. Parsing and chunking are sequential, and hard in another way: long loops with
carried state (a stack, a page carried over, a remembered parent, running ordinals), positions
computed in one numbering and used in another, and a model that answers anything or nothing.
Threads of a pool, and pipelines with different settings, share one token counter.

**What makes each part correct.**
API: rows and uploads precede messages; a page is never inconsistent; a download is the first page
of the chunks of every recorded file.
Tasks: what is reported is recorded; a row that names an output has a whole one; failures stay
inside their file. Repository: the job's status is terminal only when every file's is, is then
their roll-up, and never goes back. Broker use: no file is lost, the callback comes last.
Client: the percentage never falls; polling ends. Cache: no two calls pay an instance for one text;
what was settled survives a restart. Parser: whichever tier wins, no text and no table is lost,
the reading order is kept, and what is filed under a heading stands under it in the document.
Chunkers: parents and children partition the text, every child resolves, ids differ, sizes are
within their limits; what is left out is announced. Directory: one result per file, in order,
whatever happens to the others.

## 2. Modules

| module | models | notes |
|---|---|---|
| `JobStatus` | `progress.py`, the vocabularies of `models.py` | pure operators; statuses are a function from files |
| `JobLifecycle` | nothing: the abstract promise | Submit, Start, Finish, Settle |
| `JobService` | `api.py` (POST), `tasks.py`, `repository.py`, `db.py`, and Celery/Redis as used | the core; implements `JobLifecycle` |
| `JobServiceInv` | nothing: the inductive invariant | TLC checks it, TLAPS proves it |
| `JobPolling` | `ui/app.py` and the GET handlers, composed with `JobService` | adds a client to the same service |
| `EmbeddingCache` | `chunkers/embeddings.py` and the lazy construction in `semantic_parent_child.py`, `slide.py` | stands alone |
| `ParentLadder` | `parsers/docling_parser.py` | a parser, its document and the classifier |
| `Subsequences` | nothing: the elements of a sequence that are in a set, texts packed into runs | used by the parser's, the chunkers' and the client's modules |
| `Chunking` | the models of documents and chunks | what the chunkers share, and what readers of chunks rely on |
| `TextChunks` | `chunkers/semantic_parent_child.py`, `chunkers/table.py`, `utils/tables.py` | from sections to chunks; extends `Chunking` |
| `SlideChunks` | `chunkers/slide.py` | from slides to chunks; extends `Chunking` |
| `RowChunks` | `parsers/tabular_parser.py`, `chunkers/row.py` | from the cells of a file to chunks; extends `Chunking` |
| `IngestFile` | `pipeline.py` (`ingest_file`), `parsers/registry.py` | composes the three chunkers |
| `IngestDirectory` | `pipeline.py` (`ingest_directory`), `utils/tokens.py` | a caller, a pool, a global counter |
| `JobServiceProofs`, `JobServiceOutcome` | nothing: proofs about `JobService` | ownership; output files, the final status, the refinement, and redelivery |
| `JobPollingProofs`, `EmbeddingCacheProofs`, `IngestDirectoryProofs` | nothing: proofs about those modules | each with its inductive invariant |
| `ParentLadderProofs` | nothing: proofs about `ParentLadder` | with its inductive invariant |
| `IngestFileProofs` | nothing: proofs about `IngestFile` and the chunkers it composes | an inductive invariant for each chunker and one for the file |
| `SequenceLemmas` | nothing: what `JobPollingProofs`, `ParentLadderProofs` and `IngestFileProofs` need to know of sequences | induction over sequences, filters, concatenation, packing |
| `MCJobService`, `MCJobPolling`, `MCEmbeddingCache`, `MCParentLadder`, `MCIngestFile`, `MCIngestDirectory` | nothing: small instances | |

### How JobService corresponds to the code

A *file* stands for its `job_files` row, its task message, its upload and its output path, which
the code keeps in bijection. A pipeline result is a terminal status and whether it has chunks
(counts and text do not matter to any property). The request handler is a small machine
(`api`): uploads are saved one by one (`SaveUpload`), refused (`RefuseRequest`: 415, 413 or any
exception before the commit), committed (`CreateJob`), published one message at a time
(`PublishTask`), possibly cut short (`EnqueueFails`), answered (`Respond`). The order in which
the loop visits files is left open, which only adds behaviours.

A worker executes a task in phases: `running` (the first transaction of `ingest_file_task`),
`work` (the pipeline), `write` and `writing` (`_write_chunks`), `result` (the second
transaction), `failure` (the one in the `except`), `return`, `ack`; `finalize` is the transaction
of `finalize_job`. Inside a transaction, `step` walks through the statements: `Load` (the file's
row), `ReadSiblings` (`list_job_files`; the identity map keeps the session's own modified row),
`ReadJob`, `Commit`. `Commit` writes only columns that differ from what the session loaded, as
SQLAlchemy's unit of work does (`Merged`, `MergedJob`); that is what makes a lost update of
`jobs.status` possible and is why the columns are merged and not overwritten. `DbError` may
strike anywhere in a transaction; only around `mark_file_result` does the code catch it. An
exception raised after a commit of `result` cannot occur in the code: the `return` is next.

The environment: `PoolProcessLost` is a pool process killed while it executes a task: Celery's
main process acknowledges the message and fails the task, because `task_reject_on_worker_lost`
is not set. `WorkerLost` (the whole worker) and `VisibilityTimeout` hand a message out again.
The chord counts distinct parts per task, fires when the count reaches the header's size and
drops the callback if a part is an exception. `OnceSpec` has no redelivery; `Spec` has.

### How the other modules correspond to the code

`JobPolling`: `SelectJob` and `SelectFiles` are the two statements of `selectinload`; `Rerun` is
the `st.rerun()` branch; `SelectChunkRows`, `ReadOutput`, `ServeChunks` are `get_chunks`, one
output file at a time. A chunk is its file and its line there, and a file that has chunks has
`FileChunks` of them. The endpoint joins the files in the order of their rows (`FileOrder`,
`ChunksIn`) and cuts the list to the page it was asked for (`FirstPage`: the client's one request
has offset 0 and `limit=200`, here `PageLimit`); `payload` is the answer: how many there are and
the chunks of the page, which is all that the client shows and downloads.

`ParentLadder`: a text is the sequence of its lines, and a line is its place in the document and
its *shape*: what the code can tell of it (blank, ending in punctuation, too long, or like a
title). A token or a character is a line. The loop of `_extract` is one action per kind of item
(`ExtractTable`, `ExtractHeader`, `ExtractTitle`, `ExtractText`) and takes any items in page order.
`Refuse` and `Accept` are the two ends of the quality gate, with any page count Docling could
report, or none. `resolve_strategy_and_build` is `StartHeadings`, `SkipLlm`, `StartLlm`,
`BuildPages`, `BuildFlat`, `BuildSlides`; `build_sections_heading`, which both headed tiers use,
is `Assemble` and then one action per element (`ReadHeading`, `ReadTable`, `ReadText`). The
classifier is the environment: it answers with any levels for any lines, made-up ones included
(`ModelAnswers`), with something that is not a list of objects (`ModelBabbles`), or raises
(`ModelFails`). Elements keep the field `end_page` although `_extract` never sets it.

`Chunking`: a text is the sequence of its tokens and `count_tokens` its length; separators count
nothing. Its variables are the document, the section in hand, the chunks and the two ordinals.

What `SplitByParagraphs`, `MergeForward`, `SplitTable` and a splitter do is one operator,
`Pack`: each text is joined to the run before it if that run takes it, and opens a new run if not. They
differ in what a run takes. `Pack` and `Only`, which keeps the elements of a sequence that are in a set,
are recursive functions, so that they can be reasoned about.

`TextChunks`: every token, and every row of a table, has a number in its section. `OpenSection`,
`EmitParent`, `EmitTable` and `OpenOrphans` are the nested loops of `chunk`, one parent or table at
a time. Where the semantic and the recursive splitter cut is left open: any cut whose pieces are
within `max_child_tokens`, which is what the recursive splitter is asked for. Orphan tables, of
which the parsers make none, are an input the type allows.

`SlideChunks`: `SkipSlide` and `EmitSlide` are the two branches of the loops over slides;
`ParentWindow` and `SectionWindow` the two ways to make a parent's text, which is the sequence of
the slide texts it joins. `ParentFor` is `get_parent`, equal hashes being equal texts. An oversized
slide is cut anywhere, without any limit on its pieces, as in `_child_pieces`.

`RowChunks`: the first part is the parser (`CoerceCell`, `LooksHeaderless`, `IsSparse`, `Sheet`),
from cells as pandas gives them; the second is the loop of `chunk` (`OpenSheet`) and the loop of
`_batch_rows` (`TakeRow`, `FlushBatch`). A row's line (`Line`) has a token per
column and one per value. The names and types of columns are left out: they only tell the reader.
With two columns of the same name the parent shows the type of the last one for both.

`IngestFile`: `Parse` gives any document of the extension's type and any tier the ladder may have
ended at; the ladder itself is `ParentLadder`. `ParseFails` and `ChunkFails` are the exceptions
that the `except` turns into a failed result: an unsupported extension, a parser that raises, the
embeddings. `Finish` collects the warnings. `IngestFile` is what `JobService` takes for one step
with any outcome.

`IngestDirectory`: one thread builds pipelines (`Build`) and calls `ingest_directory`
(`StartCall`, `Submit`, `Collect`, `Return`). What is left to submit is a set, of which the least
entry, the first by path, goes next; the sort at the end may give any permutation of the results
that is ordered by URI (`SortedByUri`). The pool's threads take files in the order of submission,
and `ingest_file` is reduced to the steps at which it meets the counter: `Parse`, `Configure` (the
first statement of every `chunk`), `Count`, and an outcome that belongs to the file.

`EmbeddingCache`: an instance is built by the thread that finds the chunker's field empty
(`Build`), and several threads may do so at once; `Acquire` to `WriteFile` is the body under
`_lock`; `Truncate` and `WriteFile` are the two halves of `write_text`. `Kill` strikes one
chunker's process, which over-approximates the death of a process with several chunkers.
A list of texts is how often it has each text: the misses that `embed_documents` collects
(`NotCached`) and sends to the model (`Embed`) have a text as often as the call has it, and
`paid` counts every one. Two histories serve the properties: `settled`, what calls have returned
while the file was whole, which starts anew when a flush is cut short; and `alone`, that there
have been no two instances since there last was none, which the death of the last one restores.

## 3. Model checking

| run | instance | question |
|---|---|---|
| `service_safety` | 3 files, 2 workers, three outcomes, one database error and one killed process; no redelivery | all safety properties of the service, and that it implements `JobLifecycle` |
| `service_redelivery` | 2 files, 2 workers, one outcome, one redelivery | with at-least-once delivery no file is lost and every accepted file settles |
| `polling` | 2 files, 2 workers, two outcomes, no faults, one client | what a client sees is consistent and monotone, what it downloads is the first page of all recorded chunks, and it ends; files of one and two chunks, a page of two |
| `cache` | 3 threads, 2 chunkers (two threads share one), 2 texts, of which one may stand twice in a call, 4 calls, 1 kill | the cache's promises |
| `ladder` | documents of up to 3 elements on 2 pages, of each type, four kinds of paragraph, with and without a classifier | no tier loses, doubles or misfiles text |
| `files` | text documents of up to 2 sections with 2 paragraphs and a table, and an orphan table; decks of up to 4 slides of six kinds; workbooks of up to 2 sheets and 5 rows of four kinds; csv; an unsupported file | whatever the type and however the splitters cut, the text is kept or the result says why not |
| `directory` | 3 entries of four kinds, 2 threads, 2 pipelines with different counters | each file is answered once, in order, with its own counter; calls return |
| `stale_finalize`, `lost_file`, `poisoned_batch` | 2 files | three statements about the service that its code does not keep (section 6) |
| `page_order` | as `ladder`, pdf only | a statement about the parser that its code does not keep |
| `slide_tables` | the decks of `files` | a statement about tables that the code does not keep |

**Bounds.** `MaxFaults` bounds the injected faults of each kind; `MaxCalls` and `MaxKills` bound
the cache's calls and restarts. With files of one and two chunks and a page of two, what a
job has is less than a page, just a page or more; `MCLists` are a single text, and both texts
with one of them twice, so that a call may be served, may miss in part and may miss a text twice.
Two workers are enough for every race of two transactions, and
three files for a race of two last files beside a third that is already terminal, queued or
returned; with three files every roll-up (`done`, `partial`, `failed`, `running`) is reached. The
proofs remove these bounds for what they cover. Files and workers are interchangeable, so
`service_safety` uses symmetry; the runs with liveness do not. Deadlock is checked in
`directory`, whose caller can always call again, and not elsewhere, because the system stops: a
settled job, a refused request, exhausted cache calls, a parsed document and an answered file are
final.

`MaxElements` and `MaxPages` bound the document of the ladder: three elements are two headings
and a text (the least that the heading tier takes), a page of two short blocks before another
(the least that a merge can shuffle), or three candidate lines. `MaxConfirmed` bounds an answer
of the classifier at two lines. Sizes and settings of `Files.cfg` are such that a paragraph may
be below the minimum, exactly a child, or larger than a parent, two paragraphs may or may not fit
a parent, and a table may be empty, whole, or split; four slides are a window of one on each side
with a slide outside it, two groups with a divider each, and a parent found again two slides later;
a batch may be full by its rows, by its tokens or by both, and five rows without a header exceed
the scale guard, which four do not. The three entries of `directory` sort differently by path and
by URI (`a/x` before `a-y`, but `a-y` before `a/x`), and a third file waits for a thread.

**Fairness.** Weak fairness of the request handler's own steps, of delivery to an idle worker and
of each worker's handler (`HandlerNext`): operating systems run processes, and Celery workers
poll the queue. Nothing is assumed fair about faults, failures of the pipeline, refusals or the
choice of message. The client is a script that reruns itself: weakly fair. In `directory` the
caller is weakly fair once a call runs, and so is each thread of the pool; nobody has to build or
to call. No fairness is assumed for the cache, the parser and the chunkers, which have safety
properties only.

## 4. Properties

*JobService.* `JobStatusSound`: a terminal `jobs.status` is the roll-up of terminal files, in
spite of stale sibling reads. `QuiescentJobIsFinal`: when nothing is queued or running the job's
status is the roll-up of its files: whatever update the last two files lost, the callback
repaired. `FinalizeSeesAll`: the callback only ever exists when every file is terminal.
`DeliveredTaskHasInputs`: a delivered task finds its row and its upload. `OutputWhole`: a row
that names an output file has a complete one, through errors at any point. `ReturnedMeansRecorded`:
the status a task gave the chord is the row's. `ImplementsLifecycle`: refinement of `JobLifecycle`;
among other things no status ever goes back. `NoFileLost` and `AcceptedFilesSettle`: under one
redelivery, with the histories that excuse a file named in `MayForget`.
`AcceptedJobSettles`: an accepted job ends.

*JobPolling.* `PageConsistent`: a page that says the job is over shows the rows that make it so.
`DownloadIsFirstPage`: when the client ends it has the number of all chunks of all rows and the
first page of them, in order, from files that were read whole, and no row names an output that the
client's page did not show. `PercentNeverFalls`; `UiSettles`.

*EmbeddingCache.* `PaidByOneCall`: a text that an instance had embedded for one call it does not have
embedded for another, however threads interleave; within one call the code pays for every
occurrence. `CarriedOver`: while there is one instance at a time, no call pays for what is
settled, over restarts too; a flush cut short costs what the file held, not what comes after it.

*ParentLadder.* `NothingLost`: in every tier every line is a heading's or a block's, and every
table is in one section. `ReadingOrderKept`: the headed and flat tiers give back the document
line by line. `FiledUnderItsHeadings`: the stack agrees with a definition of the enclosing
headings that has no stack. `PromotedUnlessBlank`: the classifier's lines and no others become
headings, in documents whose paragraphs have no blank line before another line.
`PagesHoldTheirText`: the page tier files text on its page, and its merge leaves no short page
alone but the last.

*Chunking.* `ChildrenResolve`: a child's parent was emitted before it and is of its section, or of
a slide that shares the window, and a table goes to the root only if its section has no text.
`OrdinalsDistinct`: the ordinals that make chunk ids unique are.

*TextChunks.* `ChildrenAreTheirParent`: split and merge lose, double and displace nothing.
`SizesKept`: no child too small, no parent too large, with the exceptions the code makes.
`TablesAreWhole`: all rows, in order, in fragments that fit.

*SlideChunks.* `ParentsAreWindows`: every child's parent is the window or the group of its slide,
by a definition that counts the slides between two slides instead of slicing; parents differ.

*RowChunks.* `RowsTiled`: the batches tile the rows of the file, all but a header. `BatchesFull`:
no batch is over its caps, and none but the last has room.

*IngestFile.* `ResultKeepsText`: a result that is not failed holds the text of all sections or slides
and all rows of the sheets that are not over the scale guard, and for pdf and docx the rows of all
tables; one that says success has no slide, sheet or tier to warn of. Tables on slides are not part
of it: they reach no chunk, and no warning says so (run `slide_tables`).

*IngestDirectory.* `DirectoryResults`: one result per supported file, sorted by URI, failures where
they belong. `ChunksCountedRight`: every count of a chunk is by its own pipeline's counter, also
when another pipeline was built later. `CallReturns`.

One thing learnt on the way: with **two** redeliveries of one message a file can be left
`running` for ever. A copy that overran the visibility timeout commits its stale
`mark_file_running` over the result of the other copy, and then its worker dies after the other
copy was acknowledged. Hence `redelivery > 1` in `MayForget`.

## 5. Proofs

For any finite non-empty set of files, any set of workers, any set of pipeline outcomes and any
number of faults (the three `ASSUME`s of `JobService`); any threads, chunkers, texts and any
number of calls and restarts of the cache, with any lists of texts (`ThreadsAssumption`,
`ChunkersAssumption`, `ListsAssumption`, `BoundsAssumption`); any order of the files, any number of
chunks in each and any page limit of the client (`FileOrderAssumption`, `FileChunksAssumption`,
`PageLimitAssumption`); any directory, any finite set of threads, any pipelines and settings
(`DirectoryAssumption`); any document of any length over the four shapes of lines, any levels,
answers and thresholds of the parser (`LadderAssumption`); documents with any number of sections,
paragraphs, tables, slides, sheets, rows and cells of any sizes, under any settings of the chunkers
(`ChildTokensAssumption`, `TextSettingsAssumption`, `SizesAssumption`, `SlideSettingsAssumption`,
`SlidesAssumption`, `RowSettingsAssumption`, `RowPatternsAssumption`). The assumptions only say that sentinels
are none of the real values, that bounds and levels are numbers, which file types and shapes there
are, that no paragraph is empty (the parsers keep none), that a sheet with a row has a column, and that
no two files share a URI, which ends in the file's path.

`OnceSpec` delivers every message once, `Spec` delivers messages again, and `PollSpec` is
`OnceSpec` beside a client.

| theorem | module | statement |
|---|---|---|
| `Invariance` | `JobServiceProofs` | `OnceSpec => []IInv` |
| `TypeCorrect` | `JobServiceProofs` | `OnceSpec => []TypeOK` |
| `JobStatusIsSound` | `JobServiceProofs` | `OnceSpec => []JobStatusSound` |
| `FinalizeIsLast` | `JobServiceProofs` | `OnceSpec => []FinalizeSeesAll` |
| `DeliveredHasInputs` | `JobServiceProofs` | `OnceSpec => []DeliveredTaskHasInputs` |
| `ReturnIsRecorded` | `JobServiceProofs` | `OnceSpec => []ReturnedMeansRecorded` |
| `OutputInvariance`, `OutputIsWhole` | `JobServiceOutcome` | `OnceSpec => []OutputInv`, `OnceSpec => []OutputWhole` |
| `QuietInvariance`, `QuiescentIsFinal` | `JobServiceOutcome` | `OnceSpec => []QuietInv`, `OnceSpec => []QuiescentJobIsFinal` |
| `OnlyFaultsPoison` | `JobServiceOutcome` | no fault, no exception in the chord |
| `Refinement` | `JobServiceOutcome` | `OnceSpec => ImplementsLifecycle` |
| `RedeliveryInvariance` | `JobServiceOutcome` | `Spec => []RedeliveryInv` |
| `TypeCorrectAgain`, `NoFileIsLost` | `JobServiceOutcome` | `Spec => []TypeOK`, `Spec => []NoFileLost` |
| `ServiceIsUndisturbed` | `JobPollingProofs` | `PollSpec => OnceSpec` |
| `PollInvariance`, `PollTypeCorrect` | `JobPollingProofs` | `PollSpec => []PollInv`, `PollSpec => []PollTypeOK` |
| `PagesAreConsistent`, `DownloadsFirstPage` | `JobPollingProofs` | `PollSpec => []PageConsistent`, `PollSpec => []DownloadIsFirstPage` |
| `ShortJobsDownloaded` | `JobPollingProofs` | a job of no more than `PageLimit` chunks is downloaded whole |
| `PercentGrows` | `JobPollingProofs` | `PollSpec => PercentNeverFalls` |
| `CacheInvariance`, `CacheTypeCorrect` | `EmbeddingCacheProofs` | `Spec => []CacheInv`, `Spec => []TypeOK` |
| `OneCallPays`, `CarriesOver` | `EmbeddingCacheProofs` | `Spec => []PaidByOneCall`, `Spec => CarriedOver` |
| `DirectoryInvariance`, `DirectoryTypeCorrect` | `IngestDirectoryProofs` | `Spec => []DirectoryInv`, `Spec => []TypeOK` |
| `CountedByItsOwn`, `DirectoryIsAnswered` | `IngestDirectoryProofs` | `Spec => []ChunksCountedRight`, `Spec => []DirectoryResults` |
| `LadderInvariant`, `LadderTypes` | `ParentLadderProofs` | `Spec => []LadderInv`, `Spec => []TypeOK` |
| `LadderLosesNothing`, `LadderKeepsOrder` | `ParentLadderProofs` | `Spec => []NothingLost`, `Spec => []ReadingOrderKept` |
| `LadderPagesHold` | `ParentLadderProofs` | `Spec => []PagesHoldTheirText` |
| `HeadedInvariant`, `LadderFiles` | `ParentLadderProofs` | `Spec => []HeadedInv`, `Spec => []FiledUnderItsHeadings` |
| `LadderPromotes` | `ParentLadderProofs` | `Spec => []PromotedUnlessBlank` |
| `FileInvariance`, `FilesAreTyped` | `IngestFileProofs` | `FileSpec => []FileInv`, `FileSpec => []FileTypeOK` |
| `ParentsComeFirst`, `OrdinalsTellApart` | `IngestFileProofs` | `FileSpec => []ChildrenResolve`, `FileSpec => []OrdinalsDistinct` |
| `ParentsAreCutUp`, `SizesStay` | `IngestFileProofs` | `FileSpec => []ChildrenAreTheirParent`, `FileSpec => []SizesKept` |
| `TablesStayWhole` | `IngestFileProofs` | `FileSpec => []TablesAreWhole` |
| `WindowsAreShared` | `IngestFileProofs` | `FileSpec => []ParentsAreWindows` |
| `RowsStayTiled`, `BatchesAreFilled` | `IngestFileProofs` | `FileSpec => []RowsTiled`, `FileSpec => []BatchesFull` |
| `ResultsKeepText` | `IngestFileProofs` | `FileSpec => []ResultKeepsText` |

**The service, one delivery per message.** `JobStatusSound` is far from inductive: it says nothing
about what a transaction in progress has read. `IInv` (module `JobServiceInv`, an invariant of the
run `service_safety` too) says who owns a file: nobody before its message is out, then the queue,
then one worker, then the chord (`QueueInv`, `OwnerInv`, `ReturnedInv`). Only the owner writes the
file's row, and only while the row is not terminal (`PhaseInv`), so a terminal status once read
stays true however late the reader commits (`ViewInv`), and what the session loaded of its own
row is still there (`LoadedInv`). A transaction that computes a terminal job status has
therefore seen the real, final statuses. A transaction that computes `running` from a stale view
cannot overwrite a terminal job, because it would have to own a file that is not terminal
(`CommitsNonTerminal`); `finalize_job`, which owns none, runs only when every file is terminal
(`ChordInv`, which rests on a counting lemma, `FullChord`). `SeenInv` and `JobInv` make sure that
the job leaves `queued` with its first file. The proof takes `IInv` apart, one lemma per conjunct
and one case per action; frame lemmas (`OthersKeep`, `RowsKeep`, ...) say what a step leaves
alone.

**Its outcome.** `OutputWhole` needs `OutputInv` on top of `IInv`: between the write of a file and
the commit that names it nobody but the owner opens it. `QuiescentJobIsFinal` needs `QuietInv`: as
long as no transaction failed and no process died (`Clean`), no part of the chord is an
exception (`NoRaiseInv`), every terminal file has its part there or a worker about to add it
(`PartInv`), a chord that counts misses a part (`CountInv`), and from the fired chord on the
callback is queued, running or has settled the job (`SettledInv`). So when all is quiet, either the
callback has run, or no file is left that could have been lost. The refinement maps the commit
of each transaction to Start, Finish and Settle, and every other step to Submit or a stutter.

**Redelivery.** Ownership is gone: two workers may hold one file, and a row no longer follows the
phase of either. What is left is `RedeliveryInv`. `NoFileLost` alone is not inductive: that some
worker holds the file is of no use when it is past its commit and a stale copy has just put the
row back to `running`. `KeptInv` asks for a worker that is still `Pending`, that is, will commit a
terminal status over what it loads or has loaded. `HeldInv` ties a delivery that the broker has
forgotten to the redelivery it is counted as, which is what lets `MayForget` excuse it.

**The client.** Every step of `JobPolling` is a step of the service or leaves it alone, so
`PollSpec` implements `OnceSpec` and inherits `IInv` and `OutputInv`. On top of them `PollInv` says
that a page is never ahead of the rows (`BehindInv`), that a terminal status on a page is still
the job's and the rows read after it still the rows (`PageInv`: `SelectJob` comes before
`SelectFiles`, and terminal rows do not change), and that a download under way has read whole
files, and read just those whose rows name one, so that the answer is the page of their chunks
(`GotInv`). That a page is no longer than the list, and the whole list if that is short, is
arithmetic of `SubSeq`; the list itself is a filter and a concatenation, of which
`SequenceLemmas` says that they are sequences of chunks. `PercentNeverFalls` is monotonicity of a sum over files, then of a division and
of Python's rounding of halves to even; the rounding lemmas stand at the head of the module.

**The cache.** `PaidByOneCall` follows from who may touch an instance: only threads of its
builder's chunker know it (`OwnInv`), a name is not reused while someone knows it (`FreshInv`), and
one thread at a time is past its lock (`LockInv`), so what a thread found missing under the lock
is still missing when it pays (`PaidInv`). `CarriedOver` needs `CarryInv`: as long as there
is one instance at a time, the file holds what is settled except between truncation and write; what is
settled is in the instance's memory, and what is in its memory is in a file that is whole unless a flush
is due. So neither the instance nor one built from the file after a restart misses what is settled.

**The directory.** A file of a call is in one place of its way: to submit, queued, in a thread's
hand, finished or collected (`RouteInv`, `OnceInv`, `ApartInv`, `CollectedInv`). At `Return` as many
results as files have been collected, of different files, so by a pigeonhole argument
(`FS_Injection`) they are all of them; any sort by URI then gives `DirectoryResults`
(`OutcomeInv` says who failed). `CounterInv` is the argument for the shared counter: the
constructor of another pipeline cannot run during a call, and each thread configures before it
counts.

**The parser.** What a tier builds is computed over the whole document: kept elements, concatenated
lines, a fold over the pages. The library's induction theorems take the induction formula as an
operator, which no installed prover can instantiate, so `SequenceLemmas` proves an induction rule
that takes the *set* of the sequences the formula holds of (`SequenceInduction`, from a
least-number principle), that a recursive definition over `0..N` has a solution (`Recursion`), and
from these what the two recursive operators do to a sequence that grows or is joined: `Only`
(`OnlyGrows`, `OnlyTwice`, `OnlySplit`) and `FlattenSeq`, in the form `Gather(f, s)`: what `f` gives
for each element, joined (`GatherAppend`, `GatherJoin`, `GatherCompose`, `GatherOnly`).

`LadderInv` then says that the document is in page order and only a docx has no pages (`DocInv`),
and that during `build_sections_heading` the lines of the sections so far, followed by those of
what is left of the stream, are the lines of the document, and the same of tables
(`AssembleInv`). The three readers move one element from the stream to the sections
(`AssemblyGrows`, `AssemblyFills`, `AssemblySkips`); the root that is dropped at the end gave nothing
(`AssemblyEnds`); promoting lines changes where they stand but not which they are
(`PromotionKeeps`), for any answer of the classifier. Slides and pages are put together page by
page, which gives back a document in page order (`PageByPage`); the merge of short pages moves
blocks from one section to the next in order (`MergedIs`), and the sort by `order` is a permutation
(`SortedBlocks`, by counting the blocks before each), though not the identity: that is where the
run `page_order` finds the order broken. TLC agrees with `LadderInv` on the instance of `ladder`.

Which text a section holds can only be told because no line occurs twice: `DocInv` also says that
an element's number is its place in the document and a line's place is its element and its number
there, so the lines of the stream, promoted or not, are `Distinct` (`StreamDistinct`).
`PagesHoldTheirText` then follows from what the fold over the pages hands on (`Handed`): every
finished section, and the one carried, holds the lines of the pages from its first to its last
(`Holding`), the one carried ends at the page before, and the pages rise (`KeptNumbersRise`).

`FiledUnderItsHeadings` is about the end of a loop; what the loop keeps is `Filing`: after `r`
elements the stack is `Enclosing` of the `r`-th, the open section has the stack for its path, every
block and table is under the headings that enclose it, and the titles are the headings read so far.
The step of a heading is the point (`EnclosingGrows`): the headings that enclose it are those that
enclosed the element before and have a lower level, followed by itself, which is what popping the stack
and pushing gives, since `Enclosing` selects numbers in their order. `HeadedInv` is `Filing` of some
prefix, and that only candidates have been confirmed. With it `PromotedUnlessBlank` needs the
promotion alone (`PromotedReads`): if no line follows a blank one, the number among the lines that
are not blank is the number among all lines, and the look-up finds the line that was asked about.

**The chunkers and the file.** Here too the properties are about sequences built piece by piece,
and about the end of loops. What the loops keep is that what has been told and what is still to
come are the document. `Told(C, cs, S)` is what those of the chunks `cs` that are in `S` say, one
after the other; a step appends a chunk, or the children of one parent (`Kids`), and adds their text
to what one section, one parent or the tables have said and nothing to the others (`ToldMore`).
Three notions serve all chunkers. `Numbers` says that the ordinals given out lie below the counters;
`Resolved` is `ChildrenResolve` for any sequence of chunks; `Kids` says what `ChildChunks` returns.

- *Text* (`TextInv`). `Pack` is reasoned about once, for a relation between runs and texts:
  concatenation is kept (`PackedAll`), a property that joining keeps holds of all runs
  (`PackedRuns`), and a run is closed only by a text it refuses (`PackedFull`). Hence
  `SplitKeeps`, `FragmentsKeep` and `MergeKeeps`, for which the second pass is the point: the first
  leaves only its last piece small, and after joining the last two none is, unless there is one
  piece. `TextTold` says that a section's children so far, followed by the parents that are pending,
  are its paragraphs, and the fragments so far, followed by the pending tables, are the tables of
  the sections opened (`TablesRead`). That a table never gets the root of a section with text
  needs `Placed`: if there is no table parent, no parent of this section has been emitted, and none
  follows, as parents come before tables.
- *Rows* (`RowInv`). The batches of a sheet tile its first rows (`Tiled`), each but the last is
  filled (`Packed`, `LastFilled`), and the batch in hand and the rows to come are numbered on
  from where they end (`Pending`). That a batch reaches the token target with its last row only
  needs that tokens do not fall when a row is added (`TokensGrow`). `SheetIs` is the parser: a
  header is dropped only where a cell of the first row is not a number (`HeaderIs`).
- *Slides* (`SlideInv`). The code slices windows out of the kept slides and numbers groups; the
  property counts what lies between two slides of the deck. Both list numbers in rising order, and
  such a list is determined by its set (`RisingUnique`), so `WindowIs` only has to show that the
  sets agree (`TogetherIs`): groups are equal if no divider lies between (`DividersBetween`), and
  `CountBetween` maps the kept slides between two places to their numbers. Parents stay different
  and are used because `ParentFor` finds a parent with the same text if there is one.
- *The file* (`FileInv`). While a file is in its chunker and when the chunker has returned, the
  invariant of its type's chunker holds and the others rest; a failed file has no chunks and its
  chunker has not returned. `ResultsKeepText` then joins what the three say of a document at its
  end with the warnings: if there is none, no sheet was over the scale guard, no slide empty
  (`OnlyLength`: what a filter leaves as long as it was, it did not touch), and the tier not degraded.

**Only model-checked.** Liveness (`AcceptedFilesSettle`, `AcceptedJobSettles`, `UiSettles`,
`CallReturns`): fairness and ENABLED are beyond the prover. Every other property of the passing runs
is a theorem. `FileInv` itself is no invariant of a run, as it quantifies over all numbers and
sequences; its consequences are.

## 6. Where the code and its words differ

- `stale_finalize`: `finalize_job` promises to "recompute the job status once all file tasks are
  done". With a redelivered task it may read the files while the second copy has one of them
  running, and commit `running` after that copy has committed the final status. The job then says
  `running` for ever.
- `lost_file`: "a crash re-queues the file instead of losing it". A killed pool process (out of
  memory on a large document) is acknowledged and its file stays as it was, `queued` or `running`:
  `task_reject_on_worker_lost` is not set.
- `poisoned_batch`: "Per-file failures never raise out of the task". The first transaction is
  outside the `try`, and the one in the `except` is unprotected; a locked database there fails
  the chord, and `finalize_job` never runs.
- `page_order`: a block's `order` is the "document reading order", and the chunker sorts a section
  by it. Orders restart on every page, and the merge of a short page into the next concatenates
  blocks without renumbering, so the sort interleaves the two pages.
- `slide_tables`: "Tables (any)" go to the shared table chunker, and slides keep their tables out
  of the text for it; but the slide chunker never looks at them. A table on a slide reaches no
  chunk, and a slide that is all table counts as an empty, image-only one.

Seen while modelling, and not given a run of their own. The LLM tier numbers candidates among the
lines that are not blank and looks them up by the number among all lines, so behind a blank line
the wrong line is promoted, or none (`PromotedUnlessBlank` states where it is right). The client lets
one "browse/download the produced chunks" (`ui/app.py:4`) and asks once, for the first 200: of a larger
job the rest is neither shown nor in the downloaded file, though the caption counts it
(`ShortJobsDownloaded` states where it is whole). "Re-ingesting an unchanged document never re-pays"
(`embeddings.py:4`), but an instance of the cache reads the file when it is built and never again: what
another instance has settled since is paid for again, and may be lost from the file (`CarriedOver`
holds for one instance at a time). A text that stands twice in one call is sent to the model twice,
as the misses are a list (`embeddings.py:134-137`). The README
says of the LLM tier that it "falls back to `PAGE` — it never raises"; an error of the call itself
(refused connection, time-out) is not caught, and the file fails (`ModelFails` ends in `raised`).
The page tier counts tokens before any chunker has configured the counter, so pages may be merged
by the counter of a pipeline that was built later. A split table's fragments get the caption on top
of the budget that was measured without it. A child may exceed `max_child_tokens`, because small pieces are
merged after large ones were split. The paragraph bleed of `build_sections_page` never happens to
a parsed document, as `_extract` leaves `end_page` unset.

## 7. What is left out, and the plan

Left out of the models so far: authentication (there is none), logging, `/health`, `GET /jobs`
(it is `GET /jobs/{id}` for many jobs), the offsets, limits and `file_id` that clients
other than `ui/app.py` may ask for, several jobs at once (they share no row, file
or chord), a second delivery of the same part racing inside Redis, the one-file chord that Celery
turns into a chain (the same behaviour when no message is delivered twice), the content of chunks
in the service's models, the wording of chunks and headings in the parser's and the chunker's,
section paths of chunks, and documents whose language model is slow but answers.

Also left out: calls of `ingest_directory` from several threads at once, for which the global
counter is not made; a pipeline that cannot be built; the lazily built Docling converter, of which
two threads may build one each; `TableChunker`, which the pipeline does not use; configuration and
the offline guard, which are constant at run time; to_langchain and other formatting; migrations,
images and examples.

Possible next steps: the merge of small pieces bounds a child from below only, and the bound from above
that it does keep (the largest piece and what a merge adds) is neither stated nor proved; several
jobs at once, as a theorem that the service composes; `TableChunker` on its own.
