------------------------ MODULE IngestDirectoryProofs ------------------------
(***************************************************************************)
(* Theorems about IngestDirectory for every directory, every number of     *)
(* threads and every set of pipelines.  The invariant says where each file *)
(* of a call is: not submitted, in the queue, in one thread's hand, done,  *)
(* or collected, and never in two of these places.                         *)
(***************************************************************************)
EXTENDS IngestDirectory, FiniteSetTheorems, TLAPS

\* The threads with work.
Busy == {t \in Threads : hand[t] # Idle}

\* Only files are on their way, and between two calls nothing is.
RouteInv ==
  /\ todo \subseteq Files
  /\ \A i \in DOMAIN queue : queue[i] \in Files
  /\ \A t \in Busy : hand[t].file \in Files
  /\ \A r \in finished : r.file \in Files
  /\ \A i \in DOMAIN results : results[i].file \in Files
  /\ call = NoCall => todo = {} /\ queue = <<>> /\ Busy = {} /\ finished = {}

\* No two places hold the same file.
OnceInv ==
  /\ \A i, j \in DOMAIN queue : queue[i] = queue[j] => i = j
  /\ \A t, u \in Busy : hand[t].file = hand[u].file => t = u
  /\ \A r, s \in finished : r.file = s.file => r = s
  /\ \A i, j \in DOMAIN results : results[i].file = results[j].file => i = j

ApartInv ==
  /\ \A i \in DOMAIN queue : queue[i] \notin todo
  /\ \A t \in Busy : /\ hand[t].file \notin todo
                     /\ \A i \in DOMAIN queue : hand[t].file # queue[i]
  /\ \A r \in finished : /\ r.file \notin todo
                         /\ \A i \in DOMAIN queue : r.file # queue[i]
                         /\ \A t \in Busy : r.file # hand[t].file
CollectedInv == call # NoCall => \A k \in DOMAIN results :
  /\ results[k].file \notin todo
  /\ \A i \in DOMAIN queue : results[k].file # queue[i]
  /\ \A t \in Busy : results[k].file # hand[t].file
  /\ \A r \in finished : results[k].file # r.file

\* A result tells of its own file.
OutcomeInv ==
  /\ \A r \in finished : r.status = "failed" <=> kind[r.file] = "broken"
  /\ \A i \in DOMAIN results : results[i].status = "failed" <=> kind[results[i].file] = "broken"

\* While a call runs the counter is the call's from the first configure() on, and
\* a thread that counts has been through one.
CounterInv ==
  /\ \A t \in Threads : hand[t] = Idle => counted[t] = {}
  /\ call # NoCall =>
       /\ \A t \in Threads : hand[t].step = "count" => active = CounterOf(call)
       /\ \A t \in Threads : counted[t] \subseteq {CounterOf(call)}
       /\ \A r \in finished : r.counters \subseteq {CounterOf(call)}

DirectoryInv ==
  TypeOK /\ RouteInv /\ OnceInv /\ ApartInv /\ CollectedInv /\ OutcomeInv /\ CounterInv

----------------------------------------------------------------------------
\* The work queue is a sequence that grows at one end and shrinks at the other.

LEMMA Grown ==
  ASSUME NEW S, NEW s \in Seq(S), NEW x \in S
  PROVE  /\ Append(s, x) \in Seq(S) /\ DOMAIN Append(s, x) = 1..(Len(s) + 1)
         /\ DOMAIN s = 1..Len(s) /\ Len(s) \in Nat
         /\ \A i \in DOMAIN s : Append(s, x)[i] = s[i]
         /\ Append(s, x)[Len(s) + 1] = x
OBVIOUS

LEMMA Shrunk ==
  ASSUME NEW S, NEW s \in Seq(S), s # <<>>
  PROVE  /\ Head(s) \in S /\ Head(s) = s[1] /\ 1 \in DOMAIN s /\ Tail(s) \in Seq(S)
         /\ \A i \in DOMAIN Tail(s) : i + 1 \in DOMAIN s /\ Tail(s)[i] = s[i + 1]
         /\ \A i \in DOMAIN Tail(s) : i \in Nat /\ i > 0
OBVIOUS

\* A thread is idle when its step says so.
LEMMA IdleStep ==
  ASSUME TypeOK, NEW t \in Threads
  PROVE  hand[t] = Idle <=> hand[t].step = "idle"
<1>1. hand[t] \in [file : Entries \cup {0}, step : {"idle", "parse", "configure", "count"}]
  BY DEF TypeOK
<1>2. hand[t].file = 0 <=> hand[t].step = "idle"
  BY DEF TypeOK
<1> QED
  BY <1>1, <1>2 DEF Idle

----------------------------------------------------------------------------
\* The steps of the calling thread.

LEMMA InitDirectory == Init => DirectoryInv
<1> SUFFICES ASSUME Init PROVE DirectoryInv
  OBVIOUS
<1>1. TypeOK
  BY DirectoryAssumption DEF Init, TypeOK, Idle, Counters, Answers, NoCall
<1>2. Busy = {}
  BY DEF Init, Busy
<1> QED
  BY <1>1, <1>2 DEF Init, DirectoryInv, RouteInv, OnceInv, ApartInv, CollectedInv, OutcomeInv,
                    CounterInv, NoCall, Idle

LEMMA BuildStep ==
  ASSUME DirectoryInv, NEW p \in Pipelines, Build(p)
  PROVE  DirectoryInv'
<1> USE DEF DirectoryInv
<1>1. Busy' = Busy /\ Files' = Files
  BY DEF Build, Busy, Files
<1>2. TypeOK'
  BY DirectoryAssumption DEF TypeOK, Build, Counters, CounterOf, NoCall
<1>3. CounterInv'
  BY DEF Build, CounterInv
<1> QED
  BY <1>1, <1>2, <1>3 DEF Build, RouteInv, OnceInv, ApartInv, CollectedInv, OutcomeInv

LEMMA StartCallStep ==
  ASSUME DirectoryInv, NEW p \in Pipelines, StartCall(p)
  PROVE  DirectoryInv'
<1> USE DEF DirectoryInv
<1>1. Busy' = Busy /\ Files' = Files /\ Busy = {}
  BY DEF StartCall, Busy, Files, RouteInv
<1>2. TypeOK'
  BY DEF TypeOK, StartCall, Files
<1>3. CounterInv'
  <2>1. \A t \in Threads : counted[t] = {} /\ hand[t] = Idle
    BY <1>1 DEF Busy, CounterInv
  <2> QED
    BY <2>1 DEF StartCall, CounterInv, RouteInv, Idle
<1>4. /\ call' # NoCall /\ todo' = Files /\ queue' = <<>> /\ finished' = {} /\ results' = <<>>
      /\ queue = <<>>
  BY DirectoryAssumption DEF StartCall, RouteInv, NoCall
<1>5. DOMAIN queue' = {} /\ DOMAIN results' = {}
  BY <1>4
<1>6. RouteInv' /\ OnceInv' /\ ApartInv' /\ CollectedInv' /\ OutcomeInv'
  BY <1>1, <1>4, <1>5 DEF RouteInv, OnceInv, ApartInv, CollectedInv, OutcomeInv
<1> QED
  BY <1>2, <1>3, <1>6

LEMMA SubmitStep ==
  ASSUME DirectoryInv, Submit
  PROVE  DirectoryInv'
<1> USE DEF DirectoryInv
<1>1. PICK e \in todo : queue' = Append(queue, e) /\ todo' = todo \ {e}
  BY DEF Submit
<1>2. /\ e \in Files /\ e \in Entries /\ Files' = Files /\ Busy' = Busy
      /\ call # NoCall
  BY <1>1 DEF TypeOK, RouteInv, Submit, Files, Busy
<1>3. /\ queue' \in Seq(Entries) /\ DOMAIN queue' = 1..(Len(queue) + 1)
      /\ DOMAIN queue = 1..Len(queue) /\ Len(queue) \in Nat
      /\ \A i \in DOMAIN queue : queue'[i] = queue[i]
      /\ queue'[Len(queue) + 1] = e
  BY <1>1, <1>2, Grown DEF TypeOK
<1>4. \A i \in DOMAIN queue' : (i \in DOMAIN queue /\ queue'[i] = queue[i]) \/ (i = Len(queue) + 1 /\ queue'[i] = e)
  BY <1>3
<1>5. TypeOK'
  BY <1>1, <1>3 DEF TypeOK, Submit
<1>6. RouteInv'
  BY <1>1, <1>2, <1>4 DEF RouteInv, Submit
<1>7. OnceInv'
  <2>1. \A i \in DOMAIN queue : queue[i] # e
    BY <1>1 DEF ApartInv
  <2> QED
    BY <1>2, <1>4, <2>1 DEF OnceInv, Submit
<1>8. ApartInv'
  BY <1>1, <1>2, <1>4 DEF ApartInv, Submit
<1>9. CollectedInv'
  BY <1>1, <1>2, <1>4 DEF CollectedInv, Submit
<1>10. OutcomeInv' /\ CounterInv'
  BY DEF OutcomeInv, CounterInv, Submit
<1> QED
  BY <1>5, <1>6, <1>7, <1>8, <1>9, <1>10

LEMMA CollectStep ==
  ASSUME DirectoryInv, NEW result \in finished, Collect(result)
  PROVE  DirectoryInv'
<1> USE DEF DirectoryInv
<1>1. /\ Files' = Files /\ Busy' = Busy /\ call # NoCall /\ call' = call /\ todo' = todo
      /\ queue' = queue /\ hand' = hand /\ finished' = finished \ {result}
      /\ kind' = kind /\ result \in Answers /\ results' = Append(results, result)
  BY DEF Collect, Files, Busy, TypeOK
<1>2. /\ results' \in Seq(Answers) /\ DOMAIN results' = 1..(Len(results) + 1)
      /\ DOMAIN results = 1..Len(results) /\ Len(results) \in Nat
      /\ \A i \in DOMAIN results : results'[i] = results[i]
      /\ results'[Len(results) + 1] = result
  BY <1>1, Grown DEF TypeOK
<1>3. \A i \in DOMAIN results' : \/ i \in DOMAIN results /\ results'[i] = results[i]
                                 \/ i = Len(results) + 1 /\ results'[i] = result
  BY <1>2
<1>4. TypeOK'
  BY <1>1, <1>2 DEF TypeOK, Collect
<1>5. RouteInv'
  BY <1>1, <1>3 DEF RouteInv
<1>6. OnceInv'
  <2>1. \A i \in DOMAIN results : results[i].file # result.file
    BY <1>1 DEF CollectedInv
  <2>2. \A i, j \in DOMAIN results' : results'[i].file = results'[j].file => i = j
    BY <1>3, <2>1 DEF OnceInv
  <2> QED
    BY <1>1, <2>2 DEF OnceInv
<1>7. ApartInv'
  BY <1>1 DEF ApartInv
<1>8. CollectedInv'
  <2>1. /\ result.file \notin todo
        /\ \A i \in DOMAIN queue : result.file # queue[i]
        /\ \A t \in Busy : result.file # hand[t].file
    BY DEF ApartInv
  <2>2. \A r \in finished' : result.file # r.file
    BY <1>1 DEF OnceInv
  <2> QED
    BY <1>1, <1>3, <2>1, <2>2 DEF CollectedInv
<1>9. OutcomeInv'
  BY <1>1, <1>3 DEF OutcomeInv
<1>10. CounterInv'
  BY <1>1 DEF CounterInv, Collect
<1> QED
  BY <1>4, <1>5, <1>6, <1>7, <1>8, <1>9, <1>10

----------------------------------------------------------------------------
\* Return.

\* A call has as many files as it has numbers, and collects a file once: when there is
\* a result for each of the files, each of the files has a result.
LEMMA EveryFileAnswered ==
  ASSUME DirectoryInv, Len(results) = Cardinality(Files)
  PROVE  \A e \in Files : \E i \in DOMAIN results : results[i].file = e
<1> USE DEF DirectoryInv
<1> DEFINE n == Len(results)
           fileOf == [i \in 1..n |-> results[i].file]
<1>1. n \in Nat /\ DOMAIN results = 1..n
  BY DEF TypeOK
<1>2. IsFiniteSet(Files)
  <2>1. IsFiniteSet(Entries)
    BY DirectoryAssumption, FS_Interval DEF Entries
  <2> QED
    BY <2>1, FS_Subset DEF Files
<1>3. IsFiniteSet(1..n) /\ Cardinality(1..n) = n
  BY <1>1, FS_Interval
<1>4. fileOf \in Injection(1..n, Files)
  BY <1>1 DEF Injection, IsInjective, RouteInv, OnceInv
<1>5. fileOf \in Surjection(1..n, Files)
  BY <1>2, <1>3, <1>4, FS_Injection
<1> QED
  BY <1>1, <1>5 DEF Surjection

\* Then nothing is left on its way.
LEMMA NothingOnItsWay ==
  ASSUME DirectoryInv, call # NoCall, Len(results) = Cardinality(Files)
  PROVE  todo = {} /\ queue = <<>> /\ Busy = {} /\ finished = {}
<1> USE DEF DirectoryInv
<1>1. \A e \in Files : \E i \in DOMAIN results : results[i].file = e
  BY EveryFileAnswered
<1>2. todo = {} /\ Busy = {} /\ finished = {}
  BY <1>1 DEF RouteInv, CollectedInv
<1>3. ASSUME NEW i \in DOMAIN queue PROVE FALSE
  <2>1. queue[i] \in Files
    BY DEF RouteInv
  <2>2. PICK k \in DOMAIN results : results[k].file = queue[i]
    BY <1>1, <2>1
  <2> QED
    BY <2>2 DEF CollectedInv
<1>4. queue = <<>>
  <2>1. queue \in Seq(Entries) /\ DOMAIN queue = 1..Len(queue) /\ Len(queue) \in Nat
    BY DEF TypeOK
  <2>2. Len(queue) = 0
    <3>1. Len(queue) > 0 => 1 \in DOMAIN queue
      BY <2>1
    <3> QED
      BY <1>3, <2>1, <3>1
  <2> QED
    BY <2>1, <2>2
<1> QED
  BY <1>2, <1>4

\* Sorting moves the results and leaves them the same.
LEMMA Sorting ==
  ASSUME NEW list \in Seq(Answers), NEW sorted \in SortedByUri(list)
  PROVE  /\ sorted \in Seq(Answers) /\ DOMAIN sorted = DOMAIN list
         /\ \A i, j \in DOMAIN list : i < j => UriRank[sorted[i].file] <= UriRank[sorted[j].file]
         /\ \E q \in Bijection(DOMAIN list, DOMAIN list) : \A i \in DOMAIN list : sorted[i] = list[q[i]]
<1> DEFINE D == DOMAIN list
<1>1. PICK q \in Bijection(D, D) :
        /\ \A i, j \in D : i < j => UriRank[list[q[i]].file] <= UriRank[list[q[j]].file]
        /\ sorted = [i \in D |-> list[q[i]]]
  BY DEF SortedByUri
<1>2. D = 1..Len(list) /\ Len(list) \in Nat
  OBVIOUS
<1>3. \A i \in D : q[i] \in D
  BY <1>1 DEF Bijection, Injection
<1>4. \A i \in D : list[q[i]] \in Answers
  BY <1>2, <1>3
<1>5. sorted \in Seq(Answers)
  BY <1>1, <1>2, <1>4
<1> QED
  BY <1>1, <1>5

LEMMA ReturnStep ==
  ASSUME DirectoryInv, Return
  PROVE  DirectoryInv'
<1> USE DEF DirectoryInv
<1>1. /\ Files' = Files /\ Busy' = Busy /\ call # NoCall /\ call' = NoCall /\ todo' = todo
      /\ queue' = queue /\ hand' = hand /\ finished' = finished /\ kind' = kind
      /\ results \in Seq(Answers) /\ results' \in SortedByUri(results)
  BY DEF Return, Files, Busy, TypeOK
<1>2. todo = {} /\ queue = <<>> /\ Busy = {} /\ finished = {}
  BY NothingOnItsWay DEF Return
<1>3. results' \in Seq(Answers) /\ DOMAIN results' = DOMAIN results
  BY <1>1, Sorting
<1>4. PICK q \in Bijection(DOMAIN results, DOMAIN results) :
        \A i \in DOMAIN results : results'[i] = results[q[i]]
  BY <1>1, Sorting
<1>5. /\ \A i \in DOMAIN results : q[i] \in DOMAIN results
      /\ \A i, j \in DOMAIN results : q[i] = q[j] => i = j
  BY <1>4 DEF Bijection, Injection, IsInjective
<1>6. TypeOK'
  BY <1>1, <1>2, <1>3 DEF TypeOK, Return, Busy
<1>7. RouteInv'
  <2>1. \A i \in DOMAIN results' : results'[i].file \in Files
    BY <1>3, <1>4, <1>5 DEF RouteInv
  <2> QED
    BY <1>1, <1>2, <2>1 DEF RouteInv
<1>8. OnceInv'
  <2>1. \A i, j \in DOMAIN results' : results'[i].file = results'[j].file => i = j
    <3> SUFFICES ASSUME NEW i \in DOMAIN results, NEW j \in DOMAIN results,
                        results'[i].file = results'[j].file
                 PROVE  i = j
      BY <1>3
    <3>1. /\ q[i] \in DOMAIN results /\ q[j] \in DOMAIN results
          /\ results[q[i]].file = results[q[j]].file
      BY <1>4, <1>5
    <3>2. q[i] = q[j]
      BY <3>1 DEF OnceInv
    <3> QED
      BY <1>5, <3>2
  <2>2. /\ \A i, j \in DOMAIN queue' : queue'[i] = queue'[j] => i = j
        /\ \A t, u \in Busy' : hand'[t].file = hand'[u].file => t = u
        /\ \A r, s \in finished' : r.file = s.file => r = s
    BY <1>1 DEF OnceInv
  <2> QED
    BY <2>1, <2>2 DEF OnceInv
<1>9. OutcomeInv'
  BY <1>1, <1>3, <1>4, <1>5 DEF OutcomeInv
<1>10. ApartInv' /\ CollectedInv' /\ CounterInv'
  BY <1>1 DEF ApartInv, CollectedInv, CounterInv, Return
<1> QED
  BY <1>6, <1>7, <1>8, <1>9, <1>10

\* What a call returns.
LEMMA ReturnSorted ==
  ASSUME DirectoryInv, Return
  PROVE  /\ \A i, j \in DOMAIN results' : i < j => UriRank[results'[i].file] < UriRank[results'[j].file]
         /\ {r.file : r \in ToSet(results')} = {e \in Entries : kind[e] \in {"sound", "broken"}}
         /\ \A r \in ToSet(results') : r.status = "failed" <=> kind[r.file] = "broken"
<1>1. DirectoryInv' /\ kind' = kind /\ Files' = Files
  BY ReturnStep DEF Return, Files
<1>2. results \in Seq(Answers) /\ results' \in SortedByUri(results)
  BY DEF DirectoryInv, TypeOK, Return
<1>3. DOMAIN results' = DOMAIN results /\ DOMAIN results \subseteq Nat
  BY <1>2, Sorting
<1>4. \A i, j \in DOMAIN results : i < j => UriRank[results'[i].file] <= UriRank[results'[j].file]
  BY <1>2, Sorting
<1>5. PICK q \in Bijection(DOMAIN results, DOMAIN results) :
        \A i \in DOMAIN results : results'[i] = results[q[i]]
  BY <1>2, Sorting
<1>6. \A i \in DOMAIN results' : results'[i].file \in Files /\ results'[i].file \in Entries
  BY <1>1 DEF DirectoryInv, RouteInv, Files
<1>7. \A i, j \in DOMAIN results' : results'[i].file = results'[j].file => i = j
  BY <1>1 DEF DirectoryInv, OnceInv
<1>8. ASSUME NEW i \in DOMAIN results', NEW j \in DOMAIN results', i < j
      PROVE  UriRank[results'[i].file] < UriRank[results'[j].file]
  <2> DEFINE e == results'[i].file
             f == results'[j].file
  <2>1. e \in Entries /\ f \in Entries /\ e # f
    BY <1>3, <1>6, <1>7, <1>8
  <2>2. UriRank[e] <= UriRank[f]
    BY <1>3, <1>4, <1>8
  <2>3. UriRank[e] \in Nat /\ UriRank[f] \in Nat /\ UriRank[e] # UriRank[f]
    BY <2>1, DirectoryAssumption DEF Entries
  <2> QED
    BY <2>2, <2>3
<1>9. \A e \in Files : \E i \in DOMAIN results' : results'[i].file = e
  <2> TAKE e \in Files
  <2>1. PICK k \in DOMAIN results : results[k].file = e
    <3>1. Len(results) = Cardinality(Files)
      BY DEF Return
    <3> QED
      BY <3>1, EveryFileAnswered
  <2>2. PICK i \in DOMAIN results : q[i] = k
    BY <1>5 DEF Bijection, Surjection
  <2> QED
    BY <1>3, <1>5, <2>1, <2>2
<1>10. ToSet(results') = {results'[i] : i \in DOMAIN results'}
  BY DEF ToSet
<1>11. {r.file : r \in ToSet(results')} = Files
  BY <1>6, <1>9, <1>10
<1>12. \A r \in ToSet(results') : r.status = "failed" <=> kind[r.file] = "broken"
  BY <1>1, <1>10 DEF DirectoryInv, OutcomeInv
<1> QED
  BY <1>8, <1>11, <1>12 DEF Files

----------------------------------------------------------------------------
\* The steps of a thread of the pool.

\* What a thread in a step holds.
LEMMA InHand ==
  ASSUME DirectoryInv, NEW t \in Threads, hand[t].step # "idle"
  PROVE  t \in Busy /\ hand[t].file \in Files /\ hand[t].file # 0 /\ call # NoCall
<1> USE DEF DirectoryInv
<1>1. t \in Busy
  BY IdleStep DEF Busy
<1> QED
  BY <1>1 DEF RouteInv, TypeOK

\* A step that leaves the files where they are.
LEMMA StayingKeeps ==
  ASSUME DirectoryInv, NEW t \in Threads, hand[t].step # "idle",
         NEW step \in {"parse", "configure", "count"}, Go(t, step),
         UNCHANGED <<kind, call, todo, queue, finished, results>>
  PROVE  RouteInv' /\ OnceInv' /\ ApartInv' /\ CollectedInv' /\ OutcomeInv'
<1> USE DEF DirectoryInv
<1>1. hand \in [Threads -> [file : Entries \cup {0}, step : {"idle", "parse", "configure", "count"}]]
  BY DEF TypeOK
<1>2. /\ \A u \in Threads : hand'[u].file = hand[u].file
      /\ \A u \in Threads : u # t => hand'[u] = hand[u]
      /\ hand'[t].step = step
  BY <1>1 DEF Go
<1>3. Busy' = Busy /\ Files' = Files
  <2>1. t \in Busy /\ hand'[t] # Idle
    BY <1>2, InHand DEF Idle
  <2> QED
    BY <1>2, <2>1 DEF Busy, Files
<1>4. \A u \in Busy' : u \in Threads
  BY <1>3 DEF Busy
<1> QED
  BY <1>2, <1>3, <1>4 DEF RouteInv, OnceInv, ApartInv, CollectedInv, OutcomeInv

LEMMA StayingType ==
  ASSUME DirectoryInv, NEW t \in Threads, hand[t].step # "idle",
         NEW step \in {"parse", "configure", "count"}, Go(t, step),
         UNCHANGED <<kind, built, call, todo, queue, counted, finished, results>>,
         active' \in Counters
  PROVE  TypeOK'
<1> USE DEF DirectoryInv
<1>1. hand \in [Threads -> [file : Entries \cup {0}, step : {"idle", "parse", "configure", "count"}]]
  BY DEF TypeOK
<1>2. hand' \in [Threads -> [file : Entries \cup {0}, step : {"idle", "parse", "configure", "count"}]]
  BY <1>1 DEF Go
<1>3. \A u \in Threads : hand'[u].file = 0 <=> hand'[u].step = "idle"
  BY <1>1, InHand DEF TypeOK, Go
<1> QED
  BY <1>2, <1>3, InHand DEF TypeOK

LEMMA ParseStep ==
  ASSUME DirectoryInv, NEW t \in Threads, Parse(t)
  PROVE  DirectoryInv'
<1> USE DEF DirectoryInv
<1>1. hand[t].step = "parse" /\ Go(t, "configure")
  BY DEF Parse, At
<1>2. RouteInv' /\ OnceInv' /\ ApartInv' /\ CollectedInv' /\ OutcomeInv'
  BY <1>1, StayingKeeps DEF Parse
<1>3. TypeOK'
  BY <1>1, StayingType DEF Parse, TypeOK
<1>4. CounterInv'
  <2>1. \A u \in Threads : u # t => hand'[u] = hand[u]
    BY DEF Parse, Go, TypeOK
  <2>2. hand'[t].step = "configure"
    BY DEF Parse, Go, TypeOK
  <2> QED
    BY <2>1, <2>2 DEF CounterInv, Parse, Idle
<1> QED
  BY <1>2, <1>3, <1>4

LEMMA ConfigureStep ==
  ASSUME DirectoryInv, NEW t \in Threads, Configure(t)
  PROVE  DirectoryInv'
<1> USE DEF DirectoryInv
<1>1. hand[t].step = "configure" /\ Go(t, "count")
  BY DEF Configure, At
<1>2. RouteInv' /\ OnceInv' /\ ApartInv' /\ CollectedInv' /\ OutcomeInv'
  BY <1>1, StayingKeeps DEF Configure
<1>3. TypeOK'
  BY <1>1, StayingType DEF Configure, CounterOf, Counters
<1>4. CounterInv'
  <2>1. \A u \in Threads : u # t => hand'[u] = hand[u]
    BY DEF Configure, Go, TypeOK
  <2>2. hand'[t].step = "count"
    BY DEF Configure, Go, TypeOK
  <2>3. active' = CounterOf(call) /\ CounterOf(call)' = CounterOf(call)
    BY DEF Configure, CounterOf
  <2> QED
    BY <2>1, <2>2, <2>3 DEF CounterInv, Configure, Idle
<1> QED
  BY <1>2, <1>3, <1>4

LEMMA CountStep ==
  ASSUME DirectoryInv, NEW t \in Threads, Count(t)
  PROVE  DirectoryInv'
<1> USE DEF DirectoryInv
<1>1. hand[t].step = "count" /\ hand[t] # Idle /\ call # NoCall
  BY InHand DEF Count, At, Idle
<1>2. Busy' = Busy /\ Files' = Files
  BY DEF Count, Busy, Files
<1>3. TypeOK'
  BY DEF TypeOK, Count
<1>4. active = CounterOf(call) /\ CounterOf(call)' = CounterOf(call)
  BY <1>1 DEF CounterInv, Count, CounterOf
<1>5. \A u \in Threads : counted'[u] = IF u = t THEN counted[t] \cup {active} ELSE counted[u]
  BY DEF Count, TypeOK
<1>6. CounterInv'
  BY <1>1, <1>4, <1>5 DEF CounterInv, Count
<1> QED
  BY <1>2, <1>3, <1>6 DEF RouteInv, OnceInv, ApartInv, CollectedInv, OutcomeInv, Count

LEMMA TakeStep ==
  ASSUME DirectoryInv, NEW t \in Threads, Take(t)
  PROVE  DirectoryInv'
<1> USE DEF DirectoryInv
<1> DEFINE e == queue[1]
<1>1. hand \in [Threads -> [file : Entries \cup {0}, step : {"idle", "parse", "configure", "count"}]]
  BY DEF TypeOK
<1>2. /\ queue \in Seq(Entries) /\ queue # <<>> /\ hand[t].step = "idle" /\ queue' = Tail(queue)
      /\ hand' = [hand EXCEPT ![t] = [file |-> Head(queue), step |-> "parse"]]
  BY DEF TypeOK, Take, At
<1>3. /\ Head(queue) = e /\ e \in Entries /\ 1 \in DOMAIN queue /\ queue' \in Seq(Entries)
      /\ \A i \in DOMAIN queue' : i + 1 \in DOMAIN queue /\ queue'[i] = queue[i + 1]
      /\ \A i \in DOMAIN queue' : i \in Nat /\ i > 0
  BY <1>2, Shrunk
<1>4. e \in Files /\ call # NoCall /\ hand[t] = Idle /\ t \notin Busy
  BY <1>2, <1>3, IdleStep DEF RouteInv, Busy
<1>5. e # 0
  BY <1>3, DirectoryAssumption DEF Entries
<1>6. /\ \A u \in Threads : u # t => hand'[u] = hand[u]
      /\ hand'[t].file = e /\ hand'[t].step = "parse"
      /\ hand' \in [Threads -> [file : Entries \cup {0}, step : {"idle", "parse", "configure", "count"}]]
  BY <1>1, <1>2, <1>3
<1>7. Busy' = Busy \cup {t} /\ Files' = Files
  <2>1. hand'[t] # Idle
    BY <1>6 DEF Idle
  <2> QED
    BY <1>6, <2>1 DEF Busy, Files, Take
<1>8. \A u \in Busy' : u = t \/ (u \in Busy /\ u # t /\ hand'[u] = hand[u])
  BY <1>4, <1>6, <1>7 DEF Busy
<1>9. \A i \in DOMAIN queue' : queue'[i] # e
  BY <1>3 DEF OnceInv
<1>10. \A u \in Busy : hand[u].file # e
  BY <1>3 DEF ApartInv
<1>11. TypeOK'
  <2>1. \A u \in Threads : hand'[u].file = 0 <=> hand'[u].step = "idle"
    BY <1>5, <1>6 DEF TypeOK
  <2> QED
    BY <1>3, <1>4, <1>6, <2>1 DEF TypeOK, Take
<1>12. RouteInv'
  <2>1. \A i \in DOMAIN queue' : queue'[i] \in Files
    BY <1>3 DEF RouteInv
  <2>2. \A u \in Busy' : hand'[u].file \in Files
    BY <1>4, <1>6, <1>8 DEF RouteInv
  <2> QED
    BY <1>4, <1>7, <2>1, <2>2 DEF RouteInv, Take
<1>13. OnceInv'
  <2>1. \A i, j \in DOMAIN queue' : queue'[i] = queue'[j] => i = j
    BY <1>3 DEF OnceInv
  <2>2. \A u, v \in Busy' : hand'[u].file = hand'[v].file => u = v
    BY <1>6, <1>8, <1>10 DEF OnceInv
  <2> QED
    BY <2>1, <2>2 DEF OnceInv, Take
<1>14. ApartInv'
  <2>1. \A i \in DOMAIN queue' : queue'[i] \notin todo
    BY <1>3 DEF ApartInv
  <2>2. \A u \in Busy' : /\ hand'[u].file \notin todo
                         /\ \A i \in DOMAIN queue' : hand'[u].file # queue'[i]
    BY <1>3, <1>6, <1>8, <1>9 DEF ApartInv
  <2>3. \A r \in finished : /\ r.file \notin todo
                            /\ \A i \in DOMAIN queue' : r.file # queue'[i]
                            /\ \A u \in Busy' : r.file # hand'[u].file
    BY <1>3, <1>6, <1>8 DEF ApartInv
  <2> QED
    BY <2>1, <2>2, <2>3 DEF ApartInv, Take
<1>15. CollectedInv'
  <2> SUFFICES ASSUME NEW k \in DOMAIN results
               PROVE  /\ \A i \in DOMAIN queue' : results[k].file # queue'[i]
                      /\ \A u \in Busy' : results[k].file # hand'[u].file
    BY <1>4 DEF CollectedInv, Take
  <2> QED
    BY <1>3, <1>4, <1>6, <1>8 DEF CollectedInv
<1>16. CounterInv'
  BY <1>6 DEF CounterInv, Take, Idle, CounterOf
<1>17. OutcomeInv'
  BY DEF OutcomeInv, Take
<1> QED
  BY <1>11, <1>12, <1>13, <1>14, <1>15, <1>16, <1>17

LEMMA AnswerStep ==
  ASSUME DirectoryInv, NEW t \in Threads, hand[t].step # "idle",
         NEW status \in {"success", "failed"}, status = "failed" <=> kind[hand[t].file] = "broken",
         Answer(t, status)
  PROVE  DirectoryInv'
<1> USE DEF DirectoryInv
<1> DEFINE e == hand[t].file
           answer == [file |-> e, status |-> status, counters |-> counted[t]]
<1>1. /\ hand \in [Threads -> [file : Entries \cup {0}, step : {"idle", "parse", "configure", "count"}]]
      /\ hand' = [hand EXCEPT ![t] = Idle] /\ finished' = finished \cup {answer}
      /\ counted' = [counted EXCEPT ![t] = {}] /\ counted \in [Threads -> SUBSET Counters]
      /\ UNCHANGED <<kind, active, built, call, todo, queue, results>>
  BY DEF TypeOK, Answer
<1>2. t \in Busy /\ e \in Files /\ e # 0 /\ call # NoCall
  BY InHand
<1>3. e \in Entries /\ answer \in Answers
  BY <1>1, <1>2 DEF Files, Answers
<1>4. /\ \A u \in Threads : u # t => hand'[u] = hand[u] /\ counted'[u] = counted[u]
      /\ hand'[t] = Idle /\ counted'[t] = {}
  BY <1>1
<1>5. Busy' = Busy \ {t} /\ Files' = Files
  BY <1>1, <1>4 DEF Busy, Files
<1>6. \A u \in Busy' : u \in Busy /\ u # t /\ hand'[u] = hand[u] /\ hand[u].file # e
  <2> SUFFICES ASSUME NEW u \in Busy'
               PROVE  u \in Busy /\ u # t /\ hand'[u] = hand[u] /\ hand[u].file # e
    OBVIOUS
  <2>1. u \in Busy /\ u # t /\ u \in Threads
    BY <1>5 DEF Busy
  <2> QED
    BY <1>2, <1>4, <2>1 DEF OnceInv
<1>7. \A r \in finished : r.file # e
  BY <1>2 DEF ApartInv
<1>8. TypeOK'
  <2>1. hand' \in [Threads -> [file : Entries \cup {0}, step : {"idle", "parse", "configure", "count"}]]
    BY <1>1 DEF Idle
  <2>2. \A u \in Threads : hand'[u].file = 0 <=> hand'[u].step = "idle"
    <3>1. hand'[t].file = 0 /\ hand'[t].step = "idle"
      BY <1>4 DEF Idle
    <3>2. \A u \in Threads : hand[u].file = 0 <=> hand[u].step = "idle"
      BY DEF TypeOK
    <3> QED
      BY <1>4, <3>1, <3>2
  <2>3. counted' \in [Threads -> SUBSET Counters]
    BY <1>1
  <2> QED
    BY <1>1, <1>2, <1>3, <2>1, <2>2, <2>3 DEF TypeOK
<1>9. RouteInv'
  BY <1>1, <1>2, <1>5, <1>6 DEF RouteInv
<1>10. OnceInv'
  <2>1. \A u, v \in Busy' : hand'[u].file = hand'[v].file => u = v
    BY <1>6 DEF OnceInv
  <2>2. \A r, s \in finished' : r.file = s.file => r = s
    BY <1>1, <1>7 DEF OnceInv
  <2> QED
    BY <1>1, <2>1, <2>2 DEF OnceInv
<1>11. ApartInv'
  <2>1. /\ e \notin todo
        /\ \A i \in DOMAIN queue : e # queue[i]
    BY <1>2 DEF ApartInv
  <2>2. \A r \in finished' : /\ r.file \notin todo
                             /\ \A i \in DOMAIN queue : r.file # queue[i]
                             /\ \A u \in Busy' : r.file # hand'[u].file
    BY <1>1, <1>6, <2>1 DEF ApartInv
  <2>3. \A u \in Busy' : /\ hand'[u].file \notin todo
                         /\ \A i \in DOMAIN queue : hand'[u].file # queue[i]
    BY <1>6 DEF ApartInv
  <2> QED
    BY <1>1, <2>2, <2>3 DEF ApartInv
<1>12. CollectedInv'
  BY <1>1, <1>2, <1>6 DEF CollectedInv
<1>13. OutcomeInv'
  BY <1>1 DEF OutcomeInv
<1>14. CounterInv'
  <2>1. CounterOf(call)' = CounterOf(call)
    BY <1>1 DEF CounterOf
  <2>2. \A u \in Threads : hand'[u].step = "count" => u # t /\ hand[u].step = "count"
    BY <1>4 DEF Idle
  <2>3. counted[t] \subseteq {CounterOf(call)}
    BY <1>2 DEF CounterInv
  <2>4. \A u \in Threads : counted'[u] \subseteq {CounterOf(call)}
    BY <1>2, <1>4 DEF CounterInv
  <2>5. \A r \in finished' : r.counters \subseteq {CounterOf(call)}
    BY <1>1, <1>2, <2>3 DEF CounterInv
  <2>6. \A u \in Threads : hand'[u] = Idle => counted'[u] = {}
    BY <1>4 DEF CounterInv
  <2> QED
    BY <1>1, <1>2, <2>1, <2>2, <2>4, <2>5, <2>6 DEF CounterInv
<1> QED
  BY <1>8, <1>9, <1>10, <1>11, <1>12, <1>13, <1>14

----------------------------------------------------------------------------
\* The theorems.

LEMMA DirectoryStep ==
  ASSUME DirectoryInv, [Next]_vars
  PROVE  DirectoryInv'
<1>1. ASSUME NEW p \in Pipelines, Build(p) \/ StartCall(p) PROVE DirectoryInv'
  BY <1>1, BuildStep, StartCallStep
<1>2. CASE CallerNext
  BY <1>2, SubmitStep, CollectStep, ReturnStep DEF CallerNext
<1>3. ASSUME NEW t \in Threads, ThreadNext(t) PROVE DirectoryInv'
  <2>1. CASE Take(t)
    BY <2>1, TakeStep
  <2>2. CASE Parse(t)
    BY <2>2, ParseStep
  <2>3. CASE Configure(t)
    BY <2>3, ConfigureStep
  <2>4. CASE Count(t)
    BY <2>4, CountStep
  <2>5. CASE Succeeds(t)
    BY <2>5, AnswerStep DEF Succeeds, At
  <2>6. CASE Fails(t)
    BY <2>6, AnswerStep DEF Fails, At
  <2> QED
    BY <1>3, <2>1, <2>2, <2>3, <2>4, <2>5, <2>6 DEF ThreadNext
<1>4. CASE UNCHANGED vars
  <2>1. Busy' = Busy /\ Files' = Files /\ CounterOf(call)' = CounterOf(call)
    BY <1>4 DEF vars, Busy, Files, CounterOf
  <2> QED
    BY <1>4, <2>1 DEF DirectoryInv, TypeOK, RouteInv, OnceInv, ApartInv, CollectedInv, OutcomeInv,
                      CounterInv, vars
<1> QED
  BY <1>1, <1>2, <1>3, <1>4 DEF Next

\* In every state a file of the call is in exactly one place of its way, nothing is on
\* its way between two calls, and the counter is the call's while a thread counts.
THEOREM DirectoryInvariance == Spec => []DirectoryInv
<1>1. Init => DirectoryInv
  BY InitDirectory
<1>2. DirectoryInv /\ [Next]_vars => DirectoryInv'
  BY DirectoryStep
<1> QED
  BY <1>1, <1>2, PTL DEF Spec

\* Type correctness of ingest_directory and its pool, and: threads work only during a call.
THEOREM DirectoryTypeCorrect == Spec => []TypeOK
<1>1. DirectoryInv => TypeOK
  BY DEF DirectoryInv
<1> QED
  BY <1>1, DirectoryInvariance, PTL

\* However many threads share the process-wide token counter, a chunk is counted with
\* the counter of the pipeline that runs, because chunk() configures it again.
THEOREM CountedByItsOwn == Spec => []ChunksCountedRight
<1>1. DirectoryInv => ChunksCountedRight
  BY DEF DirectoryInv, CounterInv, ChunksCountedRight
<1> QED
  BY <1>1, DirectoryInvariance, PTL

\* ingest_directory returns one result for each supported file of any directory, sorted
\* by URI, whichever of the files are broken and whichever thread was first.
THEOREM DirectoryIsAnswered == Spec => DirectoryResults
<1> DEFINE Returned ==
      (call # NoCall /\ call' = NoCall) =>
        /\ \A i, j \in DOMAIN results' : i < j => UriRank[results'[i].file] < UriRank[results'[j].file]
        /\ {r.file : r \in ToSet(results')} = {e \in Entries : kind[e] \in {"sound", "broken"}}
        /\ \A r \in ToSet(results') : r.status = "failed" <=> kind[r.file] = "broken"
<1>1. DirectoryInv /\ [Next]_vars => [Returned]_vars
  <2> SUFFICES ASSUME DirectoryInv, [Next]_vars, call # NoCall, call' = NoCall
               PROVE  Returned
    OBVIOUS
  <2>1. Return
    BY DirectoryAssumption
       DEF Next, vars, Build, StartCall, CallerNext, Submit, Collect, ThreadNext, Take, Parse,
           Configure, Count, Succeeds, Fails, Answer, NoCall
  <2> QED
    BY <2>1, ReturnSorted
<1> QED
  BY <1>1, DirectoryInvariance, PTL DEF Spec, DirectoryResults
=============================================================================
