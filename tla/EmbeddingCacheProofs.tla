------------------------ MODULE EmbeddingCacheProofs ------------------------
(***************************************************************************)
(* Theorems about EmbeddingCache for every set of threads, chunkers and    *)
(* texts and every number of calls and kills.                              *)
(*                                                                         *)
(* An instance is named after the thread that built it, and a thread may   *)
(* build one again after its process was restarted: FreshInv says that     *)
(* nobody is left then who remembers the old one.  LockInv gives each      *)
(* instance to one thread from the lookup to the flush, and PaidInv        *)
(* follows: the list of a call has no text that another call paid for.     *)
(* CarryInv is about the file: while alone, there is one instance, and     *)
(* what it holds is in the file too, but during a flush and after one that *)
(* failed.                                                                 *)
(***************************************************************************)
EXTENDS EmbeddingCache, TLAPS

Busy   == {"embed", "flush", "write"}
Loaded == IF disk.whole THEN disk.keys ELSE {}  \* what _load makes of the file

\* An instance serves the threads of its builder's chunker, and the chunker's field
\* names one as long as some thread knows one.
OwnInv ==
  /\ \A c \in Chunkers : field[c] # NoInstance => ChunkerOf[field[c]] = c
  /\ \A t \in Threads :
       /\ instance[t] # NoInstance => /\ ChunkerOf[instance[t]] = ChunkerOf[t]
                                      /\ field[ChunkerOf[t]] # NoInstance
       /\ pc[t] \in {"lock"} \cup Busy => instance[t] # NoInstance

\* A thread that is about to build an instance has none of its name about.
FreshInv ==
  \A t \in Threads : pc[t] = "build" =>
    /\ \A u \in Threads : instance[u] # t
    /\ \A c \in Chunkers : field[c] # t

LockInv == \A t \in Threads : pc[t] \in Busy => holder[instance[t]] = t

\* What was paid for is in the cache, and what is missing is not.
PaidInv ==
  /\ \A t \in Threads, x \in Texts : x \notin cache[t] => paid[t][x] = 0
  /\ \A t \in Threads :
       /\ pc[t] = "embed" => In(missing[t]) \cap cache[instance[t]] = {}
       /\ pc[t] = "embed" => In(want[t]) \subseteq cache[instance[t]] \cup In(missing[t])
       /\ pc[t] \in {"flush", "write"} => In(want[t]) \subseteq cache[instance[t]]

CarryInv == alone =>
  /\ \A c, d \in Chunkers : field[c] # NoInstance /\ field[d] # NoInstance => c = d
  /\ \A t \in Threads : instance[t] # NoInstance => instance[t] = field[ChunkerOf[t]]
  /\ \A c \in Chunkers : field[c] # NoInstance =>
       /\ settled \subseteq cache[field[c]]
       /\ disk.whole /\ (\A u \in Threads : pc[u] # "flush") => cache[field[c]] \subseteq disk.keys
  /\ \A u \in Threads : pc[u] = "write" => ~disk.whole
  /\ (\A u \in Threads : pc[u] # "write") => settled \subseteq Loaded

CacheInv == TypeOK /\ OwnInv /\ FreshInv /\ LockInv /\ PaidInv /\ CarryInv

----------------------------------------------------------------------------
\* Type correctness.

LEMMA InitType == Init => TypeOK
BY BoundsAssumption DEF Init, TypeOK, Torn, Nothing

LEMMA LeaveType ==
  ASSUME TypeOK, NEW t \in Threads, instance[t] \in Threads, Leave(t)
  PROVE  /\ want' \in [Threads -> [Texts -> Nat]]
         /\ missing' \in [Threads -> [Texts -> Nat]]
         /\ holder' \in [Threads -> Threads \cup {NoInstance}]
         /\ pc' \in [Threads -> {"idle", "build", "lock", "embed", "flush", "write"}]
<1>1. Nothing \in [Texts -> Nat]
  BY DEF Nothing
<1> QED
  BY <1>1 DEF TypeOK, Leave, Goto

LEMMA TypeStep ==
  ASSUME TypeOK, OwnInv, [Next]_vars PROVE TypeOK'
<1> USE ThreadsAssumption, ChunkersAssumption, ListsAssumption, BoundsAssumption
<1>0. ASSUME NEW t \in Threads, pc[t] \in {"lock"} \cup Busy PROVE instance[t] \in Threads
  BY <1>0 DEF TypeOK, OwnInv
<1>1. CASE UNCHANGED vars
  BY <1>1 DEF TypeOK, vars
<1>2. ASSUME NEW t \in Threads, NEW list \in Lists, Call(t, list) PROVE TypeOK'
  BY <1>2 DEF TypeOK, Call, Goto
<1>3. ASSUME NEW t \in Threads, Build(t) PROVE TypeOK'
  BY <1>3 DEF TypeOK, Build, Goto, Nothing
<1>4. ASSUME NEW t \in Threads, BuildRaises(t) PROVE TypeOK'
  BY <1>4 DEF TypeOK, BuildRaises, Goto, Nothing
<1>5. ASSUME NEW t \in Threads, Serve(t) PROVE TypeOK'
  BY <1>0, <1>5, LeaveType DEF TypeOK, Serve, Return, In
<1>6. ASSUME NEW t \in Threads, Acquire(t) PROVE TypeOK'
  <2>1. NotCached(t) \in [Texts -> Nat]
    BY DEF TypeOK, NotCached
  <2> QED
    BY <1>0, <1>6, <2>1 DEF TypeOK, Acquire, Goto
<1>7. ASSUME NEW t \in Threads, Embed(t) PROVE TypeOK'
  <2>1. instance[t] \in Threads
    BY <1>0, <1>7 DEF Embed, Busy
  <2>2. [x \in Texts |-> paid[instance[t]][x] + missing[t][x]] \in [Texts -> Nat]
    BY <2>1 DEF TypeOK
  <2>3. paid' \in [Threads -> [Texts -> Nat]]
    BY <1>7, <2>1, <2>2 DEF TypeOK, Embed
  <2>4. cache' \in [Threads -> SUBSET Texts]
    BY <1>7, <2>1 DEF TypeOK, Embed, In
  <2> QED
    BY <1>7, <2>1, <2>3, <2>4 DEF TypeOK, Embed, Goto
<1>8. ASSUME NEW t \in Threads, EmbedRaises(t) PROVE TypeOK'
  BY <1>0, <1>8, LeaveType DEF TypeOK, EmbedRaises, Busy
<1>9. ASSUME NEW t \in Threads, Truncate(t) PROVE TypeOK'
  BY <1>9 DEF TypeOK, Truncate, Goto, Torn
<1>10. ASSUME NEW t \in Threads, WriteFile(t) PROVE TypeOK'
  <2>1. instance[t] \in Threads
    BY <1>0, <1>10 DEF WriteFile, Busy
  <2>2. disk' \in [whole : BOOLEAN, keys : SUBSET Texts]
    <3>1. cache[instance[t]] \in SUBSET Texts
      BY <2>1 DEF TypeOK
    <3>2. Whole(cache[instance[t]]) \in [whole : BOOLEAN, keys : SUBSET Texts]
      BY <3>1 DEF Whole
    <3>3. Torn \in [whole : BOOLEAN, keys : SUBSET Texts]
      BY DEF Torn
    <3> QED
      BY <1>10, <3>2, <3>3 DEF WriteFile
  <2>3. Leave(t) /\ settled' \subseteq Texts
    BY <1>10 DEF TypeOK, WriteFile, Return, In
  <2> QED
    BY <1>10, <2>1, <2>2, <2>3, LeaveType DEF TypeOK, WriteFile
<1>11. ASSUME NEW t \in Threads, WriteFails(t) PROVE TypeOK'
  BY <1>0, <1>11, LeaveType DEF TypeOK, WriteFails, Busy
<1>12. ASSUME NEW c \in Chunkers, Kill(c) PROVE TypeOK'
  BY <1>12 DEF TypeOK, Kill, Nothing
<1> QED
  BY <1>1, <1>2, <1>3, <1>4, <1>5, <1>6, <1>7, <1>8, <1>9, <1>10, <1>11, <1>12 DEF Next, ThreadNext

----------------------------------------------------------------------------
\* The lock.

\* The steps of a call leave instances and chunkers as they are.
CallStep(t) ==
  \/ Serve(t) \/ Acquire(t) \/ Embed(t) \/ EmbedRaises(t) \/ Truncate(t) \/ WriteFile(t) \/ WriteFails(t)

LEMMA CallKeeps ==
  ASSUME TypeOK, NEW t \in Threads, CallStep(t)
  PROVE  /\ UNCHANGED <<field, instance>>
         /\ pc[t] \in {"lock"} \cup Busy /\ pc'[t] \in {"idle"} \cup Busy
         /\ \A u \in Threads : u # t => pc'[u] = pc[u] /\ want'[u] = want[u] /\ missing'[u] = missing[u]
BY DEF TypeOK, CallStep, Serve, Acquire, Embed, EmbedRaises, Truncate, WriteFile, WriteFails,
       Return, Leave, Goto, Busy

LEMMA OwnStep ==
  ASSUME TypeOK, OwnInv, [Next]_vars PROVE OwnInv'
<1> USE ThreadsAssumption, ChunkersAssumption
<1>1. CASE UNCHANGED vars
  BY <1>1 DEF OwnInv, vars
<1>2. ASSUME NEW t \in Threads, NEW list \in Lists, Call(t, list) PROVE OwnInv'
  BY <1>2 DEF TypeOK, OwnInv, Call, Goto, Busy
<1>3. ASSUME NEW t \in Threads, Build(t) PROVE OwnInv'
  BY <1>3 DEF TypeOK, OwnInv, Build, Goto, Busy
<1>4. ASSUME NEW t \in Threads, BuildRaises(t) PROVE OwnInv'
  BY <1>4 DEF TypeOK, OwnInv, BuildRaises, Goto, Busy
<1>5. ASSUME NEW t \in Threads, CallStep(t) PROVE OwnInv'
  BY <1>5, CallKeeps DEF OwnInv, Busy
<1>6. ASSUME NEW c \in Chunkers, Kill(c) PROVE OwnInv'
  BY <1>6 DEF TypeOK, OwnInv, Kill, Busy
<1> QED
  BY <1>1, <1>2, <1>3, <1>4, <1>5, <1>6 DEF Next, ThreadNext, CallStep

LEMMA FreshStep ==
  ASSUME TypeOK, OwnInv, FreshInv, [Next]_vars PROVE FreshInv'
<1> USE ThreadsAssumption, ChunkersAssumption
<1>1. CASE UNCHANGED vars
  BY <1>1 DEF FreshInv, vars
<1>2. ASSUME NEW t \in Threads, NEW list \in Lists, Call(t, list) PROVE FreshInv'
  <2>1. ASSUME field[ChunkerOf[t]] = NoInstance
        PROVE  (\A u \in Threads : instance[u] # t) /\ \A c \in Chunkers : field[c] # t
    BY <2>1 DEF OwnInv
  <2> QED
    BY <1>2, <2>1 DEF TypeOK, FreshInv, Call, Goto
<1>3. ASSUME NEW t \in Threads, Build(t) PROVE FreshInv'
  BY <1>3 DEF TypeOK, FreshInv, Build, Goto
<1>4. ASSUME NEW t \in Threads, BuildRaises(t) PROVE FreshInv'
  BY <1>4 DEF TypeOK, FreshInv, BuildRaises, Goto
<1>5. ASSUME NEW t \in Threads, CallStep(t) PROVE FreshInv'
  BY <1>5, CallKeeps DEF FreshInv, Busy
<1>6. ASSUME NEW c \in Chunkers, Kill(c) PROVE FreshInv'
  BY <1>6 DEF TypeOK, FreshInv, Kill
<1> QED
  BY <1>1, <1>2, <1>3, <1>4, <1>5, <1>6 DEF Next, ThreadNext, CallStep

\* One thread at a time is inside an instance.
LEMMA Exclusion ==
  ASSUME TypeOK, OwnInv, LockInv, NEW t \in Threads, NEW u \in Threads,
         pc[t] \in Busy, pc[u] \in Busy, instance[t] = instance[u]
  PROVE  t = u
BY DEF LockInv

LEMMA LockStep ==
  ASSUME TypeOK, OwnInv, FreshInv, LockInv, [Next]_vars PROVE LockInv'
<1> USE ThreadsAssumption, ChunkersAssumption
<1>0. ASSUME NEW t \in Threads, pc[t] \in {"lock"} \cup Busy PROVE instance[t] \in Threads
  BY <1>0 DEF TypeOK, OwnInv
<1>1. CASE UNCHANGED vars
  BY <1>1 DEF LockInv, vars
<1>2. ASSUME NEW t \in Threads, NEW list \in Lists, Call(t, list) PROVE LockInv'
  BY <1>2 DEF TypeOK, LockInv, Call, Goto, Busy
<1>3. ASSUME NEW t \in Threads, Build(t) PROVE LockInv'
  BY <1>3 DEF TypeOK, LockInv, Build, Goto, Busy
<1>4. ASSUME NEW t \in Threads, BuildRaises(t) PROVE LockInv'
  BY <1>4 DEF TypeOK, LockInv, BuildRaises, Goto, Busy
<1>5. ASSUME NEW t \in Threads, Acquire(t) PROVE LockInv'
  BY <1>0, <1>5 DEF TypeOK, LockInv, Acquire, Goto, Busy
<1>6. ASSUME NEW t \in Threads, CallStep(t), ~Acquire(t) PROVE LockInv'
  <2>1. CASE Embed(t) \/ Truncate(t)
    BY <2>1 DEF TypeOK, LockInv, Embed, Truncate, Goto, Busy
  <2>2. CASE ~(Embed(t) \/ Truncate(t))
    <3>1. /\ UNCHANGED instance /\ pc' = [pc EXCEPT ![t] = "idle"]
          /\ holder' = [holder EXCEPT ![instance[t]] = NoInstance]
      BY <1>6, <2>2 DEF CallStep, Serve, EmbedRaises, WriteFile, WriteFails, Return, Leave, Goto
    <3>2. pc[t] \in Busy \/ holder[instance[t]] = NoInstance
      BY <1>6, <2>2 DEF CallStep, Serve, EmbedRaises, WriteFile, WriteFails, Busy
    <3>3. ASSUME NEW u \in Threads, u # t, pc[u] \in Busy PROVE instance[u] # instance[t]
      BY <3>2, <3>3, Exclusion DEF LockInv
    <3> QED
      BY <3>1, <3>3 DEF TypeOK, LockInv, Busy
  <2> QED
    BY <2>1, <2>2
<1>7. ASSUME NEW c \in Chunkers, Kill(c) PROVE LockInv'
  <2>1. ASSUME NEW u \in Threads, pc'[u] \in Busy
        PROVE  ChunkerOf[u] # c /\ pc[u] \in Busy /\ instance'[u] = instance[u]
    BY <1>7, <2>1 DEF TypeOK, Kill, Busy
  <2>2. ASSUME NEW u \in Threads, pc'[u] \in Busy
        PROVE  instance[u] \in Threads /\ ChunkerOf[instance[u]] # c
    BY <1>0, <2>1, <2>2 DEF OwnInv
  <2> QED
    BY <1>7, <2>1, <2>2 DEF TypeOK, LockInv, Kill
<1> QED
  BY <1>1, <1>2, <1>3, <1>4, <1>5, <1>6, <1>7 DEF Next, ThreadNext, CallStep

----------------------------------------------------------------------------
\* What was paid for, and what was wanted.

LEMMA PaidEmbed ==
  ASSUME CacheInv, NEW t \in Threads, Embed(t) PROVE PaidInv'
<1> USE DEF CacheInv
<1> DEFINE i == instance[t]
<1>1. pc[t] = "embed" /\ i \in Threads /\ In(missing[t]) \cap cache[i] = {}
  BY DEF Embed, TypeOK, OwnInv, PaidInv, Busy
<1>2. /\ cache' = [cache EXCEPT ![i] = @ \cup In(missing[t])]
      /\ pc' = [pc EXCEPT ![t] = "flush"]
      /\ UNCHANGED <<instance, want, missing>>
  BY DEF Embed, Goto
<1>3. ASSUME NEW u \in Threads, NEW x \in Texts
      PROVE  x \notin cache'[u] => paid'[u][x] = 0
  <2>1. CASE u = i
    <3>1. paid'[u][x] = paid[u][x] + missing[t][x]
      BY <1>1, <2>1 DEF Embed, TypeOK
    <3>2. cache'[u] = cache[u] \cup In(missing[t])
      BY <1>1, <1>2, <2>1 DEF TypeOK
    <3>3. x \notin cache[u] => paid[u][x] = 0
      BY DEF PaidInv
    <3>4. x \notin In(missing[t]) => missing[t][x] = 0
      BY DEF In, TypeOK
    <3> QED
      BY <3>1, <3>2, <3>3, <3>4
  <2>2. CASE u # i
    BY <1>1, <1>2, <2>2 DEF Embed, TypeOK, PaidInv
  <2> QED
    BY <2>1, <2>2
<1>4. ASSUME NEW u \in Threads, u # t, pc[u] \in Busy
      PROVE  /\ pc'[u] = pc[u]
             /\ cache'[instance[u]] = cache[instance[u]]
  <2>1. instance[u] # i /\ instance[u] \in Threads
    BY <1>1, <1>4, Exclusion DEF Busy, TypeOK, OwnInv
  <2> QED
    BY <1>2, <1>4, <2>1 DEF TypeOK
<1>5. ASSUME NEW u \in Threads, u # t, pc[u] \notin Busy PROVE pc'[u] \notin Busy
  BY <1>2, <1>5 DEF TypeOK
<1>6. pc'[t] = "flush" /\ In(want[t]) \subseteq cache'[i]
  BY <1>1, <1>2 DEF TypeOK, PaidInv
<1> HIDE DEF i
<1> QED
  BY <1>2, <1>3, <1>4, <1>5, <1>6 DEF PaidInv, Busy, i

LEMMA PaidStep ==
  ASSUME CacheInv, [Next]_vars PROVE PaidInv'
<1> USE ThreadsAssumption, ChunkersAssumption DEF CacheInv
<1>0. ASSUME NEW t \in Threads, pc[t] \in {"lock"} \cup Busy PROVE instance[t] \in Threads
  BY <1>0 DEF TypeOK, OwnInv
<1>1. CASE UNCHANGED vars
  BY <1>1 DEF PaidInv, vars
<1>2. ASSUME NEW t \in Threads, NEW list \in Lists, Call(t, list) PROVE PaidInv'
  BY <1>2 DEF TypeOK, PaidInv, Call, Goto
<1>3. ASSUME NEW t \in Threads, Build(t) PROVE PaidInv'
  <2>1. ASSUME NEW u \in Threads, NEW x \in Texts
        PROVE  x \notin cache'[u] => paid'[u][x] = 0
    BY <1>3 DEF TypeOK, PaidInv, Build, Nothing
  <2>2. ASSUME NEW u \in Threads, pc'[u] \in Busy
        PROVE  /\ pc[u] = pc'[u] /\ want'[u] = want[u] /\ missing'[u] = missing[u]
               /\ instance'[u] = instance[u] /\ cache'[instance[u]] = cache[instance[u]]
    <3>1. u # t /\ pc[u] = pc'[u]
      BY <1>3, <2>2 DEF TypeOK, Build, Goto, Busy
    <3>2. instance[u] # t
      BY <1>3 DEF Build, FreshInv
    <3>3. instance[u] \in Threads
      BY <1>0, <2>2, <3>1
    <3> QED
      BY <1>3, <3>1, <3>2, <3>3 DEF TypeOK, Build
  <2> QED
    BY <2>1, <2>2 DEF PaidInv, Busy
<1>4. ASSUME NEW t \in Threads, BuildRaises(t) PROVE PaidInv'
  BY <1>4 DEF TypeOK, PaidInv, BuildRaises, Goto
<1>5. ASSUME NEW t \in Threads, Acquire(t) PROVE PaidInv'
  <2>1. /\ In(NotCached(t)) \cap cache[instance[t]] = {}
        /\ In(want[t]) \subseteq cache[instance[t]] \cup In(NotCached(t))
    BY DEF In, NotCached
  <2>2. /\ pc'[t] = "embed" /\ missing'[t] = NotCached(t)
        /\ UNCHANGED <<instance, cache, want, paid>>
        /\ \A u \in Threads : u # t => pc'[u] = pc[u] /\ missing'[u] = missing[u]
    BY <1>5 DEF TypeOK, Acquire, Goto
  <2> QED
    BY <2>1, <2>2 DEF PaidInv
<1>6. ASSUME NEW t \in Threads, Embed(t) PROVE PaidInv'
  BY <1>6, PaidEmbed
<1>7. ASSUME NEW t \in Threads, Truncate(t) PROVE PaidInv'
  BY <1>7 DEF TypeOK, PaidInv, Truncate, Goto
<1>8. ASSUME NEW t \in Threads, Serve(t) \/ EmbedRaises(t) \/ WriteFile(t) \/ WriteFails(t) PROVE PaidInv'
  <2>1. UNCHANGED <<instance, cache, paid>> /\ pc'[t] = "idle"
    BY <1>8 DEF TypeOK, Serve, EmbedRaises, WriteFile, WriteFails, Return, Leave, Goto
  <2>2. \A u \in Threads : u # t => pc'[u] = pc[u] /\ want'[u] = want[u] /\ missing'[u] = missing[u]
    BY <1>8, CallKeeps DEF CallStep
  <2> QED
    BY <2>1, <2>2 DEF PaidInv
<1>9. ASSUME NEW c \in Chunkers, Kill(c) PROVE PaidInv'
  <2>1. ASSUME NEW u \in Threads, NEW x \in Texts
        PROVE  x \notin cache'[u] => paid'[u][x] = 0
    BY <1>9 DEF TypeOK, PaidInv, Kill, Nothing
  <2>2. ASSUME NEW u \in Threads, pc'[u] \in Busy
        PROVE  /\ pc[u] = pc'[u] /\ want'[u] = want[u] /\ missing'[u] = missing[u]
               /\ instance'[u] = instance[u] /\ cache'[instance[u]] = cache[instance[u]]
    <3>1. ChunkerOf[u] # c /\ pc[u] = pc'[u]
      BY <1>9, <2>2 DEF TypeOK, Kill, Busy
    <3>2. instance[u] \in Threads /\ ChunkerOf[instance[u]] # c
      BY <1>0, <2>2, <3>1 DEF OwnInv
    <3> QED
      BY <1>9, <3>1, <3>2 DEF TypeOK, Kill
  <2> QED
    BY <2>1, <2>2 DEF PaidInv, Busy
<1> QED
  BY <1>1, <1>2, <1>3, <1>4, <1>5, <1>6, <1>7, <1>8, <1>9 DEF Next, ThreadNext

----------------------------------------------------------------------------
\* The file.

\* While alone there is one instance, so that one thread at a time is in any.
LEMMA AloneExclusion ==
  ASSUME CacheInv, alone, NEW t \in Threads, pc[t] \in {"lock"} \cup Busy
  PROVE  /\ instance[t] \in Threads /\ instance[t] = field[ChunkerOf[t]]
         /\ \A c \in Chunkers : field[c] # NoInstance => field[c] = instance[t]
         /\ \A u \in Threads : pc[u] \in Busy => holder[instance[t]] = u
         /\ settled \subseteq cache[instance[t]]
<1> USE ThreadsAssumption, ChunkersAssumption DEF CacheInv
<1>1. ASSUME NEW u \in Threads, pc[u] \in {"lock"} \cup Busy
      PROVE  instance[u] \in Threads /\ instance[u] = field[ChunkerOf[u]] /\ ChunkerOf[u] \in Chunkers
  BY <1>1 DEF TypeOK, OwnInv, CarryInv
<1>2. ASSUME NEW c \in Chunkers, field[c] # NoInstance, NEW u \in Threads, pc[u] \in {"lock"} \cup Busy
      PROVE  field[c] = instance[u]
  BY <1>1, <1>2 DEF CarryInv
<1>3. ASSUME NEW u \in Threads, pc[u] \in Busy PROVE holder[instance[t]] = u
  <2>1. instance[u] = instance[t]
    BY <1>1, <1>2, <1>3
  <2> QED
    BY <1>3, <2>1 DEF LockInv
<1>4. settled \subseteq cache[instance[t]]
  BY <1>1 DEF CarryInv
<1> QED
  BY <1>1, <1>2, <1>3, <1>4

LEMMA CarryStep ==
  ASSUME CacheInv, [Next]_vars PROVE CarryInv'
<1> USE ThreadsAssumption, ChunkersAssumption DEF CacheInv
<1>1. CASE UNCHANGED vars
  BY <1>1 DEF CarryInv, Loaded, vars
<1>2. ASSUME NEW t \in Threads, NEW list \in Lists, Call(t, list) PROVE CarryInv'
  <2>1. UNCHANGED <<disk, field, cache, settled, alone>>
    BY <1>2 DEF Call
  <2>2. \A u \in Threads : u # t => pc'[u] = pc[u] /\ instance'[u] = instance[u]
    BY <1>2 DEF TypeOK, Call, Goto
  <2>3. /\ pc[t] = "idle" /\ pc'[t] \in {"build", "lock"}
        /\ instance'[t] = field[ChunkerOf[t]]
    BY <1>2 DEF TypeOK, Call, Goto
  <2> QED
    BY <2>1, <2>2, <2>3 DEF CarryInv, Loaded
<1>3. ASSUME NEW t \in Threads, Build(t), alone' PROVE CarryInv'
  <2>1. alone /\ \A c \in Chunkers : field[c] = NoInstance
    BY <1>3 DEF Build
  <2>2. \A u \in Threads : instance[u] = NoInstance /\ pc[u] \notin Busy
    BY <2>1 DEF OwnInv
  <2>3. settled \subseteq Loaded
    BY <2>1, <2>2 DEF CarryInv, Busy
  <2>4. UNCHANGED <<disk, settled>> /\ cache'[t] = Loaded
    BY <1>3 DEF TypeOK, Build, Loaded
  <2>5. \A c \in Chunkers : field'[c] # NoInstance => c = ChunkerOf[t] /\ field'[c] = t
    BY <1>3, <2>1 DEF TypeOK, Build
  <2>6. \A u \in Threads : pc'[u] \notin Busy
    BY <1>3, <2>2 DEF TypeOK, Build, Goto, Busy
  <2>7. \A u \in Threads : instance'[u] # NoInstance => u = t /\ instance'[u] = t
    BY <1>3, <2>2 DEF TypeOK, Build
  <2>8. field'[ChunkerOf[t]] = t
    BY <1>3 DEF TypeOK, Build
  <2> QED
    BY <2>3, <2>4, <2>5, <2>6, <2>7, <2>8 DEF CarryInv, Loaded, Busy
<1>4. ASSUME NEW t \in Threads, BuildRaises(t) PROVE CarryInv'
  BY <1>4 DEF TypeOK, CarryInv, Loaded, BuildRaises, Goto
<1>5. ASSUME NEW t \in Threads, Serve(t), alone PROVE CarryInv'
  <2>1. \A u \in Threads : pc[u] \notin Busy
    BY <1>5, AloneExclusion DEF Serve
  <2>2. In(want[t]) \subseteq cache[instance[t]]
    <3>1. ASSUME NEW x \in Texts, want[t][x] > 0 PROVE x \in cache[instance[t]]
      <4>1. NotCached(t)[x] = 0
        BY <1>5 DEF Serve, Nothing
      <4> QED
        BY <3>1, <4>1 DEF NotCached
    <3> QED
      BY <3>1 DEF In
  <2>3. disk.whole => cache[instance[t]] \subseteq disk.keys
    <3>1. instance[t] \in Threads /\ instance[t] = field[ChunkerOf[t]] /\ ChunkerOf[t] \in Chunkers
      BY <1>5, AloneExclusion DEF Serve
    <3>2. \A u \in Threads : pc[u] # "flush"
      BY <2>1 DEF Busy
    <3> QED
      BY <1>5, <3>1, <3>2 DEF CarryInv
  <2>4. /\ UNCHANGED <<disk, field, instance, cache, alone>>
        /\ settled' = IF disk.whole THEN settled \cup In(want[t]) ELSE settled
        /\ \A u \in Threads : pc'[u] \notin Busy
    BY <1>5, <2>1, CallKeeps DEF Serve, Return, Leave, Goto, TypeOK, Busy
  <2>5. \A c \in Chunkers : field[c] # NoInstance => field[c] = instance[t]
    BY <1>5, AloneExclusion DEF Serve
  <2>6. settled \subseteq cache[instance[t]] /\ settled \subseteq Loaded
    BY <1>5, <2>1, AloneExclusion DEF Serve, CarryInv, Busy
  <2>7. settled' \subseteq cache[instance[t]] /\ settled' \subseteq Loaded
    BY <2>2, <2>3, <2>4, <2>6 DEF Loaded
  <2> QED
    BY <1>5, <2>3, <2>4, <2>5, <2>7 DEF CarryInv, Loaded, Busy
<1>6. ASSUME NEW t \in Threads, Acquire(t) PROVE CarryInv'
  BY <1>6 DEF TypeOK, CarryInv, Loaded, Acquire, Goto
<1>7. ASSUME NEW t \in Threads, Embed(t) PROVE CarryInv'
  <2>1. /\ UNCHANGED <<disk, field, instance, settled, alone>>
        /\ pc'[t] = "flush" /\ \A u \in Threads : u # t => pc'[u] = pc[u]
    BY <1>7 DEF TypeOK, Embed, Goto
  <2>2. \A u \in Threads : cache[u] \subseteq cache'[u]
    BY <1>7 DEF TypeOK, Embed
  <2>3. pc[t] = "embed"
    BY <1>7 DEF Embed
  <2> QED
    BY <2>1, <2>2, <2>3 DEF TypeOK, CarryInv, Loaded
<1>8. ASSUME NEW t \in Threads, EmbedRaises(t) PROVE CarryInv'
  BY <1>8 DEF TypeOK, CarryInv, Loaded, EmbedRaises, Leave, Goto
<1>9. ASSUME NEW t \in Threads, Truncate(t) PROVE CarryInv'
  <2>1. UNCHANGED <<field, instance, cache, settled, alone>> /\ pc'[t] = "write" /\ ~disk'.whole
    BY <1>9 DEF TypeOK, Truncate, Goto, Torn
  <2> QED
    BY <2>1 DEF CarryInv
<1>10. ASSUME NEW t \in Threads, WriteFile(t), alone PROVE CarryInv'
  <2>1. \A u \in Threads : pc[u] \in Busy => u = t
    BY <1>10, AloneExclusion DEF WriteFile, Busy
  <2>2. disk' = Whole(cache[instance[t]])
    BY <1>10, <2>1 DEF WriteFile, Busy
  <2>3. /\ UNCHANGED <<field, instance, cache, alone>> /\ settled' = settled \cup In(want[t])
        /\ \A u \in Threads : pc'[u] \notin Busy
    BY <1>10, <2>1, <2>2, CallKeeps DEF WriteFile, Return, Leave, Goto, Whole, TypeOK, Busy
  <2>4. \A c \in Chunkers : field[c] # NoInstance => field[c] = instance[t]
    BY <1>10, AloneExclusion DEF WriteFile, Busy
  <2>5. settled \subseteq cache[instance[t]] /\ In(want[t]) \subseteq cache[instance[t]]
    BY <1>10, AloneExclusion DEF WriteFile, Busy, PaidInv
  <2>6. Loaded' = cache[instance[t]] /\ disk'.keys = cache[instance[t]]
    BY <2>2 DEF Loaded, Whole
  <2> QED
    BY <1>10, <2>3, <2>4, <2>5, <2>6 DEF CarryInv, Busy
<1>11. ASSUME NEW t \in Threads, WriteFails(t), alone PROVE CarryInv'
  <2>1. UNCHANGED <<disk, field, instance, cache, alone>> /\ settled' = {}
    BY <1>11 DEF WriteFails
  <2>2. pc[t] = "write" /\ pc'[t] = "idle" /\ \A u \in Threads : u # t => pc'[u] = pc[u]
    BY <1>11 DEF TypeOK, WriteFails, Leave, Goto
  <2>3. ~disk.whole
    BY <1>11, <2>2 DEF CarryInv
  <2> QED
    BY <2>1, <2>2, <2>3 DEF CarryInv
<1>12. ASSUME NEW c \in Chunkers, Kill(c), alone' PROVE CarryInv'
  <2>1. UNCHANGED disk /\ field'[c] = NoInstance /\ \A d \in Chunkers \ {c} : field'[d] = field[d]
    BY <1>12 DEF TypeOK, Kill
  <2>2. /\ \A t \in Threads : ChunkerOf[t] = c => pc'[t] = "idle" /\ instance'[t] = NoInstance
        /\ \A t \in Threads : ChunkerOf[t] # c =>
             pc'[t] = pc[t] /\ instance'[t] = instance[t] /\ cache'[t] = cache[t]
    BY <1>12 DEF Kill
  <2>3. CASE \A d \in Chunkers \ {c} : field[d] = NoInstance
    \* the last instance is gone
    <3>1. \A d \in Chunkers : field'[d] = NoInstance
      BY <2>1, <2>3
    <3>2. \A t \in Threads : instance'[t] = NoInstance /\ pc'[t] \notin Busy
      BY <2>2, <2>3 DEF OwnInv, Busy
    <3>3. settled' \subseteq Loaded
      <4>1. CASE settled' = {}
        BY <4>1
      <4>2. CASE settled' # {}
        <5>1. settled' = settled /\ alone /\ \A t \in Threads : ChunkerOf[t] = c => pc[t] # "write"
          BY <1>12, <2>3, <4>2 DEF Kill
        <5>2. \A t \in Threads : pc[t] # "write"
          BY <2>2, <3>2, <5>1 DEF Busy
        <5> QED
          BY <5>1, <5>2 DEF CarryInv
      <4> QED
        BY <4>1, <4>2
    <3> QED
      BY <2>1, <3>1, <3>2, <3>3 DEF CarryInv, Loaded, Busy
  <2>4. CASE \E d \in Chunkers \ {c} : field[d] # NoInstance
    \* another is left, so that the dead chunker had none
    <3>1. alone /\ (settled' = settled \/ settled' = {})
      BY <1>12, <2>4 DEF Kill
    <3>2. \A t \in Threads : pc[t] \in Busy => ChunkerOf[t] # c
      BY <2>4, <3>1 DEF OwnInv, CarryInv
    <3>3. \A t \in Threads : pc[t] \in Busy \/ pc'[t] \in Busy => pc'[t] = pc[t]
      BY <2>2, <3>2 DEF Busy
    <3>4. ASSUME NEW d \in Chunkers, field'[d] # NoInstance
          PROVE  field'[d] = field[d] /\ field[d] \in Threads /\ cache'[field[d]] = cache[field[d]]
      BY <2>1, <2>2, <3>4 DEF TypeOK, OwnInv
    <3>5. \A t \in Threads : instance'[t] # NoInstance => instance'[t] = field'[ChunkerOf[t]]
      BY <2>1, <2>2, <3>1 DEF CarryInv
    <3>6. \A d, e \in Chunkers : field'[d] # NoInstance /\ field'[e] # NoInstance => d = e
      BY <3>1, <3>4 DEF CarryInv
    <3>7. ASSUME NEW d \in Chunkers, field'[d] # NoInstance
          PROVE  /\ settled' \subseteq cache'[field'[d]]
                 /\ disk.whole /\ (\A u \in Threads : pc'[u] # "flush") => cache'[field'[d]] \subseteq disk.keys
      BY <3>1, <3>3, <3>4, <3>7 DEF CarryInv, Busy
    <3>8. /\ \A u \in Threads : pc'[u] = "write" => ~disk.whole
          /\ (\A u \in Threads : pc'[u] # "write") => settled' \subseteq Loaded
      BY <3>1, <3>3 DEF CarryInv, Busy
    <3> QED
      BY <2>1, <3>5, <3>6, <3>7, <3>8 DEF CarryInv, Loaded
  <2> QED
    BY <2>3, <2>4
<1>13. ASSUME ~alone, UNCHANGED alone PROVE CarryInv'
  BY <1>13 DEF CarryInv
<1>14. ASSUME ~alone' PROVE CarryInv'
  BY <1>14 DEF CarryInv
<1>15. ASSUME NEW t \in Threads, Serve(t) \/ WriteFile(t) \/ WriteFails(t) PROVE UNCHANGED alone
  BY <1>15 DEF Serve, WriteFile, WriteFails
<1> QED
  BY <1>1, <1>2, <1>3, <1>4, <1>5, <1>6, <1>7, <1>8, <1>9, <1>10, <1>11, <1>12, <1>13, <1>14, <1>15
     DEF Next, ThreadNext

----------------------------------------------------------------------------
\* The theorems.

\* The instances of every process keep to their locks and their file, whatever
\* raises, fails or dies (chunkers/embeddings.py).
THEOREM CacheInvariance == Spec => []CacheInv
<1>1. Init => CacheInv
  <2> SUFFICES ASSUME Init PROVE CacheInv
    OBVIOUS
  <2>1. TypeOK
    BY InitType
  <2>2. OwnInv /\ FreshInv /\ LockInv
    BY DEF Init, OwnInv, FreshInv, LockInv, Busy
  <2>3. PaidInv /\ CarryInv
    BY DEF Init, PaidInv, CarryInv, Nothing, In, Loaded, Torn
  <2> QED
    BY <2>1, <2>2, <2>3 DEF CacheInv
<1>2. CacheInv /\ [Next]_vars => CacheInv'
  BY TypeStep, OwnStep, FreshStep, LockStep, PaidStep, CarryStep DEF CacheInv
<1> QED
  BY <1>1, <1>2, PTL DEF Spec

\* Every variable keeps its type.
THEOREM CacheTypeCorrect == Spec => []TypeOK
<1>1. CacheInv => TypeOK
  BY DEF CacheInv
<1> QED
  BY <1>1, CacheInvariance, PTL

\* However many threads share an instance, no two of their calls have it embed the same
\* text (embed_documents holds the lock from the lookup to the update).
THEOREM OneCallPays == Spec => []PaidByOneCall
<1>1. ASSUME CacheInv, NEW t \in Threads, pc[t] = "embed", NEW x \in In(missing[t])
      PROVE  paid[instance[t]][x] = 0
  <2>1. instance[t] \in Threads
    BY <1>1 DEF CacheInv, TypeOK, OwnInv, Busy
  <2>2. x \in Texts /\ x \notin cache[instance[t]]
    BY <1>1 DEF CacheInv, PaidInv, In
  <2> QED
    BY <1>1, <2>1, <2>2 DEF CacheInv, PaidInv
<1>2. CacheInv => PaidByOneCall
  BY <1>1 DEF PaidByOneCall
<1> QED
  BY <1>2, CacheInvariance, PTL

\* What a call has returned is not paid for again, across restarts too, as long as
\* there is one instance at a time; a flush cut short costs what the file held, and
\* nothing that is settled after it (_load and _flush).
THEOREM CarriesOver == Spec => CarriedOver
<1>1. ASSUME CacheInv, [Next]_vars, NEW t \in Threads, pc[t] = "embed", pc'[t] = "flush", alone
      PROVE  In(missing[t]) \cap settled = {}
  <2>1. settled \subseteq cache[instance[t]]
    BY <1>1, AloneExclusion DEF Busy
  <2>2. In(missing[t]) \cap cache[instance[t]] = {}
    BY <1>1 DEF CacheInv, PaidInv
  <2> QED
    BY <2>1, <2>2
<1>2. CacheInv /\ [Next]_vars =>
        [\A t \in Threads : (pc[t] = "embed" /\ pc'[t] = "flush" /\ alone)
           => In(missing[t]) \cap settled = {}]_vars
  BY <1>1
<1> QED
  BY <1>2, CacheInvariance, PTL DEF Spec, CarriedOver
=============================================================================
