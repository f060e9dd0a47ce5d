----------------------------- MODULE JobPolling -----------------------------
(***************************************************************************)
(* The Streamlit client of ui/app.py beside the service: it polls          *)
(* GET /jobs/{id} until the job's status is terminal, then fetches the     *)
(* chunks.  Both endpoints SELECT the job and then, in a second statement, *)
(* its files (selectinload), so workers may commit in between; the chunk   *)
(* endpoint reads the output files one after the other after that, and     *)
(* serves the page of the chunks that the client asks for: the first one.  *)
(***************************************************************************)
EXTENDS JobService, Sequences, SequencesExt, Subsequences

CONSTANTS
  FileOrder,   \* the files as job.files lists them, by created_at
  FileChunks,  \* how many chunks the pipeline makes of a file that it makes any of
  PageLimit    \* the limit the client asks for: 200 chunks

ASSUME FileOrderAssumption  == FileOrder \in Seq(Files) /\ ToSet(FileOrder) = Files
ASSUME FileChunksAssumption == FileChunks \in [Files -> Nat \ {0}]
ASSUME PageLimitAssumption  == PageLimit \in Nat \ {0}

VARIABLES
  ui,         \* where the client's script stands
  shownJob,   \* the job status of the latest response
  shown,      \* the file rows of the latest response
  got,        \* what each output file held when the chunk endpoint read it
  payload     \* what the client has of the chunks, to show and to download

uiVars   == <<ui, shownJob, shown, got, payload>>
pollVars == <<vars, uiVars>>

Unread == "unread"

\* A chunk is named by its file and its line in there.
Lines      == Files \X Nat
FileLines  == [f \in Files |-> [n \in 1..FileChunks[f] |-> <<f, n>>]]
NoResponse == [total |-> 0, chunks |-> <<>>]

\* The chunks of some of the files, in the order of the files, and the page of a list
\* of chunks that starts at its beginning.
ChunksIn(files) ==
  LET listed == Only(FileOrder, files)
  IN  FlattenSeq([i \in DOMAIN listed |-> FileLines[listed[i]]])
FirstPage(chunks) == SubSeq(chunks, 1, IF PageLimit < Len(chunks) THEN PageLimit ELSE Len(chunks))
Response(chunks)  == [total |-> Len(chunks), chunks |-> FirstPage(chunks)]

PollTypeOK ==
  /\ TypeOK
  /\ ui \in {"poll", "files", "shown", "chunks", "done"}
  /\ shownJob \in JobStatuses
  /\ shown \in [Files -> Row]
  /\ got \in [Files -> {Unread, "skipped", "absent", "torn", "empty", "chunks"}]
  /\ payload \in [total : Nat, chunks : Seq(Lines)]

PollInit ==
  /\ Init
  /\ ui = "poll" /\ shownJob = "queued" /\ shown = [f \in Files |-> QueuedRow]
  /\ got = [f \in Files |-> Unread] /\ payload = NoResponse

\* GET /jobs/{id}, first statement.  Before the commit it answers 404.
MutSelectJob ==  \* a bug: an unknown job is not a 404
  /\ ui = "poll"
  /\ shownJob' = job
  /\ ui' = "files"
  /\ UNCHANGED <<vars, shown, got, payload>>

SelectJob ==
  /\ ui = "poll" /\ job # "absent"
  /\ shownJob' = job
  /\ ui' = "files"
  /\ UNCHANGED <<vars, shown, got, payload>>

\* GET /jobs/{id}, second statement, and the page built from both.
MutSelectFiles ==  \* a bug: a session kept between requests serves the rows it first loaded
  /\ ui = "files"
  /\ shown' = IF shown = [f \in Files |-> QueuedRow] THEN rows ELSE shown
  /\ ui' = "shown"
  /\ UNCHANGED <<vars, shownJob, got, payload>>

SelectFiles ==
  /\ ui = "files"
  /\ shown' = rows
  /\ ui' = "shown"
  /\ UNCHANGED <<vars, shownJob, got, payload>>

\* Not terminal: sleep and run the script again.
MutRerun ==  \* a bug: the page of a queued job does not refresh itself
  /\ ui = "shown" /\ shownJob = "running"
  /\ ui' = "poll"
  /\ UNCHANGED <<vars, shownJob, shown, got, payload>>

Rerun ==
  /\ ui = "shown" /\ shownJob \notin TerminalJobStatuses
  /\ ui' = "poll"
  /\ UNCHANGED <<vars, shownJob, shown, got, payload>>

\* Terminal, with no chunk in any row: there is nothing to fetch.
MutNothingToFetch ==  \* a bug: all() for any()
  /\ ui = "shown" /\ shownJob \in TerminalJobStatuses
  /\ \E f \in Files : ~shown[f].output
  /\ ui' = "done"
  /\ UNCHANGED <<vars, shownJob, shown, got, payload>>

NothingToFetch ==
  /\ ui = "shown" /\ shownJob \in TerminalJobStatuses
  /\ \A f \in Files : ~shown[f].output
  /\ ui' = "done"
  /\ UNCHANGED <<vars, shownJob, shown, got, payload>>

\* Terminal: GET /jobs/{id}/chunks keeps the rows that name an output file.
SelectChunkRows ==
  /\ ui = "shown" /\ shownJob \in TerminalJobStatuses
  /\ \E f \in Files : shown[f].output
  /\ got' = [f \in Files |-> IF rows[f].output THEN Unread ELSE "skipped"]
  /\ ui' = "chunks"
  /\ UNCHANGED <<vars, shownJob, shown, payload>>

ReadOutput(f) ==
  /\ ui = "chunks" /\ got[f] = Unread
  /\ got' = [got EXCEPT ![f] = output[f]]
  /\ UNCHANGED <<vars, ui, shownJob, shown, payload>>

\* Everything is read: the list is cut to the page the client asked for, and the page
\* is all that the client downloads.
ServeChunks ==
  /\ ui = "chunks" /\ \A f \in Files : got[f] # Unread
  /\ payload' = Response(ChunksIn({f \in Files : got[f] = "chunks"}))
  /\ ui' = "done"
  /\ UNCHANGED <<vars, shownJob, shown, got>>

UiNext ==
  \/ SelectJob \/ SelectFiles \/ Rerun \/ NothingToFetch \/ SelectChunkRows
  \/ ServeChunks \/ \E f \in Files : ReadOutput(f)

PollNext ==
  \/ OnceNext /\ UNCHANGED uiVars
  \/ UiNext

PollSpec     == PollInit /\ [][PollNext]_pollVars
PollLiveSpec == PollSpec /\ Fairness /\ WF_pollVars(UiNext)

----------------------------------------------------------------------------
Shown   == [f \in Files |-> shown[f].status]
Percent == ComputeJobProgress(Shown)

\* A page that says the job is over shows every file over, at 100 percent, and the
\* status is the roll-up of the very rows on the page, although job and rows come
\* from two statements (api.py get_job).
PageConsistent ==
  (ui \in {"shown", "chunks", "done"} /\ shownJob \in TerminalJobStatuses)
    => AllTerminal(Shown) /\ shownJob = ComputeJobStatus(Shown) /\ Percent = 100

\* The client stops polling when no row will ever name another output, and what it has
\* then is the first page of the chunks of all rows, each file read whole, and their
\* number: all the chunks of the job if they are no more than PageLimit (get_chunks of
\* api.py, fetch_chunks of ui/app.py).
Recorded == ChunksIn({f \in Files : rows[f].output})

DownloadIsFirstPage ==
  ui = "done" =>
    /\ payload.total = Len(Recorded)
    /\ payload.chunks = FirstPage(Recorded)
    /\ \A f \in Files : rows[f].output => shown[f].output /\ got[f] = "chunks"

\* The percentage a client watches never falls, from page to page (progress.py
\* averages the files; repository.py moves each only forward).
PercentNeverFalls == [][ComputeJobProgress([f \in Files |-> shown'[f].status]) >= Percent]_shown

\* Who submits a job in a healthy system sees the end of it.
UiSettles == (api = "accepted") ~> (ui = "done")
=============================================================================
