--------------------------- MODULE EmbeddingCache ---------------------------
(***************************************************************************)
(* The disk cache of embeddings: CachingEmbeddings of                      *)
(* chunkers/embeddings.py and the lazy construction of its instances by    *)
(* the chunkers (_get_embeddings of semantic_parent_child.py and           *)
(* _child_pieces of slide.py).                                             *)
(*                                                                         *)
(* Every chunker of every process has a field for its instance, all        *)
(* instances share one file, and each reads that file only once, when it   *)
(* is built.  The threads of ingest_directory share a chunker.  A text     *)
(* stands for its content hash, and a list of texts for how often it has   *)
(* each of them; an instance is named after the thread that built it.      *)
(***************************************************************************)
EXTENDS Naturals, FiniteSets

CONSTANTS
  Threads,    \* the threads that chunk documents
  Chunkers,   \* the chunker objects, one or more per process
  ChunkerOf,  \* the chunker each thread works with
  Texts,      \* the texts of the documents
  Lists,      \* the lists of texts that embed_documents may be called with
  MaxCalls,   \* how many calls of embed_documents there are in all
  MaxKills    \* how many times a process dies

NoInstance == "no instance"

ASSUME ThreadsAssumption  == NoInstance \notin Threads
ASSUME ChunkersAssumption == ChunkerOf \in [Threads -> Chunkers]
ASSUME ListsAssumption    == Lists \subseteq [Texts -> Nat]
ASSUME BoundsAssumption   == MaxCalls \in Nat /\ MaxKills \in Nat

Torn       == [whole |-> FALSE, keys |-> {}]   \* no JSON, or none at all
Whole(keys) == [whole |-> TRUE, keys |-> keys]

VARIABLES
  disk,      \* embeddings.json: what a reader would get of it
  field,     \* the chunker's _embeddings
  instance,  \* the instance a thread's call goes to
  cache,     \* the _cache of each instance
  holder,    \* who holds the _lock of each instance
  pc,        \* where the thread stands
  want,      \* the list of the thread's call
  missing,   \* what of it is not in the cache, a list too
  paid,      \* how often each instance has had each text embedded
  settled,   \* history: the texts that calls have returned while the file was whole,
             \* since a flush was last cut short
  alone,     \* history: no two instances since there last was none
  calls, kills

vars == <<disk, field, instance, cache, holder, pc, want, missing, paid, settled, alone, calls, kills>>

Nothing  == [x \in Texts |-> 0]
In(list) == {x \in Texts : list[x] > 0}

TypeOK ==
  /\ disk \in [whole : BOOLEAN, keys : SUBSET Texts]
  /\ field \in [Chunkers -> Threads \cup {NoInstance}]
  /\ instance \in [Threads -> Threads \cup {NoInstance}]
  /\ cache \in [Threads -> SUBSET Texts]
  /\ holder \in [Threads -> Threads \cup {NoInstance}]
  /\ pc \in [Threads -> {"idle", "build", "lock", "embed", "flush", "write"}]
  /\ want \in [Threads -> [Texts -> Nat]]
  /\ missing \in [Threads -> [Texts -> Nat]]
  /\ paid \in [Threads -> [Texts -> Nat]]
  /\ settled \subseteq Texts
  /\ alone \in BOOLEAN
  /\ calls \in 0..MaxCalls /\ kills \in 0..MaxKills

Init ==
  /\ disk = Torn
  /\ field = [c \in Chunkers |-> NoInstance]
  /\ instance = [t \in Threads |-> NoInstance]
  /\ cache = [t \in Threads |-> {}]
  /\ holder = [t \in Threads |-> NoInstance]
  /\ pc = [t \in Threads |-> "idle"]
  /\ want = [t \in Threads |-> Nothing]
  /\ missing = [t \in Threads |-> Nothing]
  /\ paid = [t \in Threads |-> Nothing]
  /\ settled = {} /\ alone = TRUE /\ calls = 0 /\ kills = 0

Goto(t, l) == pc' = [pc EXCEPT ![t] = l]

\* A chunk() call that will embed some texts reads the chunker's field.
Call(t, list) ==
  /\ pc[t] = "idle" /\ calls < MaxCalls
  /\ calls' = calls + 1
  /\ want' = [want EXCEPT ![t] = list]
  /\ instance' = [instance EXCEPT ![t] = field[ChunkerOf[t]]]
  /\ Goto(t, IF field[ChunkerOf[t]] = NoInstance THEN "build" ELSE "lock")
  /\ UNCHANGED <<disk, field, cache, holder, missing, paid, settled, alone, kills>>

\* The field was None: build an instance and store it, whoever else does the
\* same.  The constructor loads the file; what is not JSON counts as empty.
Build(t) ==
  /\ pc[t] = "build"
  /\ field' = [field EXCEPT ![ChunkerOf[t]] = t]
  /\ instance' = [instance EXCEPT ![t] = t]
  /\ cache' = [cache EXCEPT ![t] = IF disk.whole THEN disk.keys ELSE {}]
  /\ paid' = [paid EXCEPT ![t] = Nothing]
  /\ alone' = (alone /\ \A c \in Chunkers : field[c] = NoInstance)
  /\ Goto(t, "lock")
  /\ UNCHANGED <<disk, holder, want, missing, settled, calls, kills>>

\* build_embeddings refuses the settings, or the client cannot be made: the field stays.
BuildRaises(t) ==
  /\ pc[t] = "build"
  /\ want' = [want EXCEPT ![t] = Nothing]
  /\ Goto(t, "idle")
  /\ UNCHANGED <<disk, field, instance, cache, holder, missing, paid, settled, alone, calls, kills>>

\* Every occurrence of a text that is not cached is listed.
NotCached(t) == [x \in Texts |-> IF x \in cache[instance[t]] THEN 0 ELSE want[t][x]]

\* The call ends and releases the lock.
Leave(t) ==
  /\ want' = [want EXCEPT ![t] = Nothing]
  /\ missing' = [missing EXCEPT ![t] = Nothing]
  /\ holder' = [holder EXCEPT ![instance[t]] = NoInstance]
  /\ Goto(t, "idle")

\* The call returns the vectors of all its texts.
Return(t) ==
  /\ settled' = IF disk'.whole THEN settled \cup In(want[t]) ELSE settled
  /\ Leave(t)

\* embed_documents with every text cached: take the lock, look up, return.
Serve(t) ==
  /\ pc[t] = "lock" /\ holder[instance[t]] = NoInstance
  /\ NotCached(t) = Nothing
  /\ UNCHANGED <<disk, field, instance, cache, paid, alone, calls, kills>>
  /\ Return(t)

\* embed_documents with misses: take the lock and ask the model for them.
MutAcquire(t) ==  \* a bug: the lock is not taken
  /\ pc[t] = "lock"
  /\ NotCached(t) # Nothing
  /\ missing' = [missing EXCEPT ![t] = NotCached(t)]
  /\ Goto(t, "embed")
  /\ UNCHANGED <<disk, field, instance, cache, holder, want, paid, settled, alone, calls, kills>>

Acquire(t) ==
  /\ pc[t] = "lock" /\ holder[instance[t]] = NoInstance
  /\ NotCached(t) # Nothing
  /\ holder' = [holder EXCEPT ![instance[t]] = t]
  /\ missing' = [missing EXCEPT ![t] = NotCached(t)]
  /\ Goto(t, "embed")
  /\ UNCHANGED <<disk, field, instance, cache, want, paid, settled, alone, calls, kills>>

\* The base embeddings answer for each of the misses, and they join the cache.
MutEmbed(t) ==  \* a bug: the batch is stored under one key
  /\ pc[t] = "embed"
  /\ paid' = [paid EXCEPT ![instance[t]] =
                [x \in Texts |-> @[x] + missing[t][x]]]
  /\ cache' = [cache EXCEPT ![instance[t]] = @ \cup {In(missing[t])}]
  /\ Goto(t, "flush")
  /\ UNCHANGED <<disk, field, instance, holder, want, missing, settled, alone, calls, kills>>

Embed(t) ==
  /\ pc[t] = "embed"
  /\ paid' = [paid EXCEPT ![instance[t]] =
                [x \in Texts |-> @[x] + missing[t][x]]]
  /\ cache' = [cache EXCEPT ![instance[t]] = @ \cup In(missing[t])]
  /\ Goto(t, "flush")
  /\ UNCHANGED <<disk, field, instance, holder, want, missing, settled, alone, calls, kills>>

\* The base embeddings raise: nothing was kept.
EmbedRaises(t) ==
  /\ pc[t] = "embed"
  /\ Leave(t)
  /\ UNCHANGED <<disk, field, instance, cache, paid, settled, alone, calls, kills>>

\* _flush: write_text truncates the shared file ...
Truncate(t) ==
  /\ pc[t] = "flush"
  /\ disk' = Torn
  /\ Goto(t, "write")
  /\ UNCHANGED <<field, instance, cache, holder, want, missing, paid, settled, alone, calls, kills>>

\* ... and writes this instance's cache over whatever the file held.  If another
\* instance is writing too the two may end up mixed.
MutWriteFile(t) ==  \* a bug: only the fresh vectors are written
  /\ pc[t] = "write"
  /\ disk' = Whole(In(missing[t]))
  /\ Return(t)
  /\ UNCHANGED <<field, instance, cache, paid, alone, calls, kills>>

WriteFile(t) ==
  /\ pc[t] = "write"
  /\ \/ disk' = Whole(cache[instance[t]])
     \/ (\E u \in Threads \ {t} : pc[u] = "write") /\ disk' = Torn
  /\ Return(t)
  /\ UNCHANGED <<field, instance, cache, paid, alone, calls, kills>>

\* The write fails (disk full): the file is left torn, the memory keeps its vectors.
WriteFails(t) ==
  /\ pc[t] = "write"
  /\ Leave(t)
  /\ settled' = {}
  /\ UNCHANGED <<disk, field, instance, cache, paid, alone, calls, kills>>

\* The process with chunker c dies and restarts: its instance and calls are gone.  If
\* it had the last instance, the next one to be built is alone again, with what the file
\* then holds; a file that several instances wrote settles nothing for it.
Kill(c) ==
  /\ kills < MaxKills
  /\ kills' = kills + 1
  /\ LET mine == {t \in Threads : ChunkerOf[t] = c}
         last == \A d \in Chunkers \ {c} : field[d] = NoInstance
         cut  == \E t \in mine : pc[t] = "write"
     IN  /\ alone' = (alone \/ last)
         /\ settled' = IF cut \/ (last /\ ~alone) THEN {} ELSE settled
         /\ pc' = [t \in Threads |-> IF t \in mine THEN "idle" ELSE pc[t]]
         /\ want' = [t \in Threads |-> IF t \in mine THEN Nothing ELSE want[t]]
         /\ missing' = [t \in Threads |-> IF t \in mine THEN Nothing ELSE missing[t]]
         /\ instance' = [t \in Threads |-> IF t \in mine THEN NoInstance ELSE instance[t]]
         /\ cache' = [t \in Threads |-> IF t \in mine THEN {} ELSE cache[t]]
         /\ paid' = [t \in Threads |-> IF t \in mine THEN Nothing ELSE paid[t]]
         /\ holder' = [t \in Threads |-> IF t \in mine THEN NoInstance ELSE holder[t]]
  /\ field' = [field EXCEPT ![c] = NoInstance]
  /\ UNCHANGED <<disk, calls>>

ThreadNext(t) ==
  \/ \E list \in Lists : list # Nothing /\ Call(t, list)
  \/ Build(t) \/ BuildRaises(t) \/ Serve(t) \/ Acquire(t) \/ Embed(t) \/ EmbedRaises(t)
  \/ Truncate(t) \/ WriteFile(t) \/ WriteFails(t)

Next == (\E t \in Threads : ThreadNext(t)) \/ \E c \in Chunkers : Kill(c)
Spec == Init /\ [][Next]_vars

----------------------------------------------------------------------------
\* A text that one call has had an instance embed is not embedded by that instance for
\* any other call, though it may stand twice in the list of the one: the lock covers the
\* lookup, the model call and the update (embed_documents).
PaidByOneCall ==
  \A t \in Threads : pc[t] = "embed" =>
    \A x \in In(missing[t]) : paid[instance[t]][x] = 0

\* As long as there is one instance at a time, what a call has returned is never paid
\* for again, restarts included.  A flush cut short, by a crash or a full disk, costs
\* what was in the file, and nothing that is settled after it (_load and _flush).
CarriedOver ==
  [][\A t \in Threads : (pc[t] = "embed" /\ pc'[t] = "flush" /\ alone)
        => In(missing[t]) \cap settled = {}]_vars
=============================================================================
