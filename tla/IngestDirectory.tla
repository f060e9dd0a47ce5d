--------------------------- MODULE IngestDirectory ---------------------------
(***************************************************************************)
(* IngestionPipeline.ingest_directory of pipeline.py: one thread builds    *)
(* pipelines and calls them, one call at a time; a call hands the files of *)
(* the directory to a pool of threads and sorts what they answer.          *)
(*                                                                         *)
(* All threads of the process count tokens with one global backend         *)
(* (utils/tokens.py), whichever pipeline they work for.                    *)
(***************************************************************************)
EXTENDS Naturals, FiniteSets, Functions, Sequences, SequencesExt

CONSTANTS
  Pipelines,   \* pipelines with different settings
  Config,      \* their settings token_counter, offline and whether the embeddings are local
  NumEntries,  \* entries below the directory, numbered in the order of their paths
  UriRank,     \* their order by URI, which is another one: "-" < "/"
  Threads      \* max_workers threads

ASSUME DirectoryAssumption ==
  /\ "none" \notin Pipelines
  /\ NumEntries \in Nat /\ Threads # {} /\ IsFiniteSet(Threads)
  /\ UriRank \in [1..NumEntries -> Nat]
  /\ \A e, f \in 1..NumEntries : UriRank[e] = UriRank[f] => e = f

VARIABLES
  kind,     \* what each entry is
  active,   \* _active, the token counter of the process
  built,    \* the pipelines that have been built
  call,     \* the pipeline whose ingest_directory runs, if any
  todo,     \* its files that are not submitted yet
  queue,    \* the work queue of the pool
  hand,     \* the file and the step in each thread's hand
  counted,  \* the counters that a thread's file was chunked with
  finished, \* the futures that are done: results no as_completed has yielded yet
  results   \* of the call, while it runs and when it has returned

vars == <<kind, active, built, call, todo, queue, hand, counted, finished, results>>

Entries == 1..NumEntries
NoCall  == "none"
Idle    == [file |-> 0, step |-> "idle"]

\* configure_token_counter: "auto" takes the local tokenizer offline and with a local
\* embedding model.
CounterOf(p) ==
  LET cfg == Config[p]
  IN  IF cfg.counter = "hf" \/ (cfg.counter = "auto" /\ (cfg.offline \/ cfg.local)) THEN "hf" ELSE "tiktoken"

\* Until something is configured, count_tokens takes tiktoken.
Init ==
  /\ kind \in [Entries -> {"directory", "unsupported", "sound", "broken"}]
  /\ active = "tiktoken" /\ built = {} /\ call = NoCall
  /\ todo = {} /\ queue = <<>> /\ finished = {} /\ results = <<>>
  /\ hand = [t \in Threads |-> Idle] /\ counted = [t \in Threads |-> {}]

----------------------------------------------------------------------------
\* The calling thread.

\* IngestionPipeline.__init__ configures the counter for everyone.
Build(p) ==
  /\ call = NoCall /\ p \notin built
  /\ built' = built \cup {p}
  /\ active' = CounterOf(p)
  /\ UNCHANGED <<kind, call, todo, queue, hand, counted, finished, results>>

\* The files whose suffix some parser of the registry supports.
Files == {e \in Entries : kind[e] \in {"sound", "broken"}}

StartCall(p) ==
  /\ call = NoCall /\ p \in built
  /\ call' = p
  /\ todo' = Files
  /\ results' = <<>>
  /\ UNCHANGED <<kind, active, built, queue, hand, counted, finished>>

\* They are submitted in path order.
Submit ==
  /\ \E e \in todo :
       /\ \A f \in todo : e <= f
       /\ queue' = Append(queue, e)
       /\ todo' = todo \ {e}
  /\ UNCHANGED <<kind, active, built, call, hand, counted, finished, results>>

\* as_completed yields the futures that are done in any order.
Collect(result) ==
  /\ call # NoCall /\ todo = {} /\ result \in finished
  /\ finished' = finished \ {result}
  /\ results' = Append(results, result)
  /\ UNCHANGED <<kind, active, built, call, todo, queue, hand, counted>>

\* list.sort: the same elements, in an order that the key never lowers.
SortedByUri(list) ==
  LET D == DOMAIN list
  IN  {[i \in D |-> list[p[i]]] :
         p \in {q \in Bijection(D, D) : \A i, j \in D :
                  i < j => UriRank[list[q[i]].file] <= UriRank[list[q[j]].file]}}

MutReturn ==  \* a bug: the results stay in the order they came in
  /\ call # NoCall /\ todo = {} /\ Len(results) = Cardinality(Files)
  /\ \A t \in Threads : hand[t] = Idle
  /\ call' = NoCall
  /\ UNCHANGED <<kind, active, built, todo, queue, hand, counted, finished, results>>

\* After the last future the pool is shut down, and the results are sorted.
Return ==
  /\ call # NoCall /\ todo = {} /\ Len(results) = Cardinality(Files)
  /\ \A t \in Threads : hand[t] = Idle
  /\ call' = NoCall
  /\ results' \in SortedByUri(results)
  /\ UNCHANGED <<kind, active, built, todo, queue, hand, counted, finished>>

CallerNext == Submit \/ (\E result \in finished : Collect(result)) \/ Return

----------------------------------------------------------------------------
\* A thread of the pool: ingest_file.

At(t, step) == hand[t].step = step
Go(t, step) == hand' = [hand EXCEPT ![t].step = step]

MutTake(t) ==  \* a bug: looks at the queue and does not take
  /\ At(t, "idle") /\ queue # <<>>
  /\ hand' = [hand EXCEPT ![t] = [file |-> Head(queue), step |-> "parse"]]
  /\ UNCHANGED <<kind, active, built, call, todo, queue, counted, finished, results>>

Take(t) ==
  /\ At(t, "idle") /\ queue # <<>>
  /\ hand' = [hand EXCEPT ![t] = [file |-> Head(queue), step |-> "parse"]]
  /\ queue' = Tail(queue)
  /\ UNCHANGED <<kind, active, built, call, todo, counted, finished, results>>

MutFails(t) ==  \* a bug: the exception leaves ingest_file and nobody asks the future
  /\ At(t, "parse") \/ At(t, "count")
  /\ kind[hand[t].file] = "broken"
  /\ hand' = [hand EXCEPT ![t] = Idle]
  /\ counted' = [counted EXCEPT ![t] = {}]
  /\ UNCHANGED <<kind, active, built, call, todo, queue, finished, results>>

Answer(t, status) ==
  /\ finished' = finished \cup {[file |-> hand[t].file, status |-> status, counters |-> counted[t]]}
  /\ hand' = [hand EXCEPT ![t] = Idle]
  /\ counted' = [counted EXCEPT ![t] = {}]
  /\ UNCHANGED <<kind, active, built, call, todo, queue, results>>

\* The except clause turns any error, in the parser or the chunker, into a result.
Fails(t) ==
  /\ At(t, "parse") \/ At(t, "count")
  /\ kind[hand[t].file] = "broken"
  /\ Answer(t, "failed")

\* The pages of a pdf may be counted here, with whichever counter is active.
Parse(t) ==
  /\ At(t, "parse")
  /\ Go(t, "configure")
  /\ UNCHANGED <<kind, active, built, call, todo, queue, counted, finished, results>>

MutConfigure(t) ==  \* a bug: chunk() leaves it to the constructor
  /\ At(t, "configure")
  /\ Go(t, "count")
  /\ UNCHANGED <<kind, active, built, call, todo, queue, counted, finished, results>>

\* chunk() begins with configure_token_counter.
Configure(t) ==
  /\ At(t, "configure")
  /\ Go(t, "count")
  /\ active' = CounterOf(call)
  /\ UNCHANGED <<kind, built, call, todo, queue, counted, finished, results>>

\* count_tokens, again and again, with the counter that is active at the moment.
Count(t) ==
  /\ At(t, "count")
  /\ counted' = [counted EXCEPT ![t] = @ \cup {active}]
  /\ UNCHANGED <<kind, active, built, call, todo, queue, hand, finished, results>>

Succeeds(t) ==
  /\ At(t, "count")
  /\ kind[hand[t].file] = "sound"
  /\ Answer(t, "success")

ThreadNext(t) == Take(t) \/ Parse(t) \/ Configure(t) \/ Count(t) \/ Succeeds(t) \/ Fails(t)

Next ==
  \/ \E p \in Pipelines : Build(p) \/ StartCall(p)
  \/ CallerNext
  \/ \E t \in Threads : ThreadNext(t)

\* A call that runs and a thread with work go on; nobody has to build or to call.
Fairness == WF_vars(CallerNext) /\ \A t \in Threads : WF_vars(ThreadNext(t))
Spec == Init /\ [][Next]_vars /\ Fairness

----------------------------------------------------------------------------
\* Properties.

Counters == {"hf", "tiktoken"}
Answers  == [file : Entries, status : {"success", "failed"}, counters : SUBSET Counters]

TypeOK ==
  /\ kind \in [Entries -> {"directory", "unsupported", "sound", "broken"}]
  /\ active \in Counters /\ built \subseteq Pipelines /\ call \in built \cup {NoCall}
  /\ todo \subseteq Entries /\ queue \in Seq(Entries)
  /\ hand \in [Threads -> [file : Entries \cup {0}, step : {"idle", "parse", "configure", "count"}]]
  /\ \A t \in Threads : hand[t].file = 0 <=> hand[t].step = "idle"
  /\ counted \in [Threads -> SUBSET Counters]
  /\ finished \subseteq Answers /\ results \in Seq(Answers)
  /\ {t \in Threads : hand[t] # Idle} # {} => call # NoCall

\* A call that has returned has one result for each file that the registry supports
\* and for nothing else, sorted by URI, and a file's outcome is its own: a broken
\* file spoils no other ("one bad file never aborts a batch", pipeline.py).
DirectoryResults ==
  [][(call # NoCall /\ call' = NoCall) =>
       /\ \A i, j \in DOMAIN results' : i < j => UriRank[results'[i].file] < UriRank[results'[j].file]
       /\ {r.file : r \in ToSet(results')} = {e \in Entries : kind[e] \in {"sound", "broken"}}
       /\ \A r \in ToSet(results') : r.status = "failed" <=> kind[r.file] = "broken"]_vars

\* Every token count of a chunk is by the counter of the chunk's own pipeline, also
\* when another pipeline was built after it (tokens.py: "called by the pipeline at
\* construction and by each chunker before it runs").
ChunksCountedRight ==
  call # NoCall =>
    /\ \A t \in Threads : counted[t] \subseteq {CounterOf(call)}
    /\ \A r \in finished : r.counters \subseteq {CounterOf(call)}

\* Every call returns, however many of the files are broken.
CallReturns == (call # NoCall) ~> (call = NoCall)
=============================================================================
