--------------------------- MODULE IngestFileProofs ---------------------------
(***************************************************************************)
(* Theorems about IngestFile: the three chunkers and the file they chunk.  *)
(*                                                                         *)
(* Each chunker has an inductive invariant, TextInv, SlideInv and RowInv,  *)
(* that says of the chunks emitted so far and of what is still to come     *)
(* that together they are the document; FileInv says which of the three    *)
(* holds of the file in hand.  The properties follow from it.              *)
(***************************************************************************)
EXTENDS IngestFile, SequenceLemmas, FiniteSetTheorems

----------------------------------------------------------------------------
\* Packing: what the model's operators take into a run.

LEMMA SplitPacks ==
  ASSUME NEW S, NEW paragraphs \in SeqOver(SeqOver(S))
  PROVE  \E T : /\ Packing(SplitByParagraphs(paragraphs), paragraphs, T)
                /\ \A r \in SeqOver(S), k \in DOMAIN paragraphs : <<r, k>> \in T <=> Len(r) + Len(paragraphs[k]) <= MaxParentTokens
<1> DEFINE N == Len(paragraphs)
           D == SeqOver(SeqOver(S))
           takes(r, k) == Len(r) + Len(paragraphs[k]) <= MaxParentTokens
           T == {x \in SeqOver(S) \X (DOMAIN paragraphs) : takes(x[1], x[2])}
           at(F, n) == IF n = 0 THEN <<>>
                       ELSE IF F[n - 1] # <<>> /\ takes(Last(F[n - 1]), n)
                            THEN [F[n - 1] EXCEPT ![Len(F[n - 1])] = @ \o paragraphs[n]] ELSE Append(F[n - 1], paragraphs[n])
           F == CHOOSE F : F = [n \in 0..N |-> at(F, n)]
<1>1. /\ paragraphs \in D /\ N \in Nat /\ DOMAIN paragraphs = 1..N
      /\ \A r \in SeqOver(S), k \in DOMAIN paragraphs : <<r, k>> \in T <=> takes(r, k)
  <2>1. paragraphs \in D
    OBVIOUS
  <2> QED
    BY <2>1, Items
<1>2. SplitByParagraphs(paragraphs) = F[N]
  BY Zenon DEF SplitByParagraphs, Pack
<1> HIDE DEF T, takes
<1>3. PICK H : IsPacked(H, paragraphs, T) /\ H \in [0..N -> D]
  BY <1>1, PackingExists
<1>4. ASSUME NEW n \in 0..N PROVE H[n] = at(H, n)
  <2>1. /\ n # 0 /\ H[n - 1] # <<>> => n \in DOMAIN paragraphs /\ Last(H[n - 1]) \in SeqOver(S)
        /\ H[n] = IF n = 0 THEN <<>>
                  ELSE IF H[n - 1] # <<>> /\ <<Last(H[n - 1]), n>> \in T
                       THEN [H[n - 1] EXCEPT ![Len(H[n - 1])] = @ \o paragraphs[n]] ELSE Append(H[n - 1], paragraphs[n])
    BY <1>1, <1>3, PackedIs
  <2>2. n # 0 /\ H[n - 1] # <<>> => (<<Last(H[n - 1]), n>> \in T <=> takes(Last(H[n - 1]), n))
    BY <1>1, <2>1
  <2> QED
    BY <2>1, <2>2, Zenon
<1>5. F = [n \in 0..N |-> at(F, n)]
  <2>1. H = [n \in 0..N |-> at(H, n)]
    <3> HIDE DEF at, N, D
    <3> QED
      BY <1>3, <1>4
  <2> HIDE DEF at
  <2> QED
    BY <2>1, Zenon
<1> HIDE DEF F, D
<1>6. F[0] = H[0] /\ \A n \in 1..N : F[n - 1] = H[n - 1] => F[n] = H[n]
  <2>1. 0 \in 0..N /\ \A n \in 1..N : n \in 0..N
    BY <1>1
  <2>2. at(F, 0) = at(H, 0) /\ \A n \in 1..N : F[n - 1] = H[n - 1] => at(F, n) = at(H, n)
    OBVIOUS
  <2> HIDE DEF at
  <2> QED
    BY <1>4, <1>5, <2>1, <2>2
<1>7. F[N] = H[N]
  <2> HIDE DEF at
  <2> QED
    BY <1>1, <1>6, Agree
<1> QED
  BY <1>1, <1>2, <1>3, <1>7 DEF Packing, takes

LEMMA MergePacks ==
  ASSUME NEW S, NEW pieces \in SeqOver(SeqOver(S))
  PROVE  \E T : /\ Packing(MergeForward(pieces), pieces, T)
                /\ \A r \in SeqOver(S), k \in DOMAIN pieces : <<r, k>> \in T <=> Len(r) < MinChildTokens
<1> DEFINE N == Len(pieces)
           D == SeqOver(SeqOver(S))
           takes(r, k) == Len(r) < MinChildTokens
           T == {x \in SeqOver(S) \X (DOMAIN pieces) : takes(x[1], x[2])}
           at(F, n) == IF n = 0 THEN <<>>
                       ELSE IF F[n - 1] # <<>> /\ takes(Last(F[n - 1]), n)
                            THEN [F[n - 1] EXCEPT ![Len(F[n - 1])] = @ \o pieces[n]] ELSE Append(F[n - 1], pieces[n])
           F == CHOOSE F : F = [n \in 0..N |-> at(F, n)]
<1>1. /\ pieces \in D /\ N \in Nat /\ DOMAIN pieces = 1..N
      /\ \A r \in SeqOver(S), k \in DOMAIN pieces : <<r, k>> \in T <=> takes(r, k)
  <2>1. pieces \in D
    OBVIOUS
  <2> QED
    BY <2>1, Items
<1>2. MergeForward(pieces) = F[N]
  BY Zenon DEF MergeForward, Pack
<1> HIDE DEF T, takes
<1>3. PICK H : IsPacked(H, pieces, T) /\ H \in [0..N -> D]
  BY <1>1, PackingExists
<1>4. ASSUME NEW n \in 0..N PROVE H[n] = at(H, n)
  <2>1. /\ n # 0 /\ H[n - 1] # <<>> => n \in DOMAIN pieces /\ Last(H[n - 1]) \in SeqOver(S)
        /\ H[n] = IF n = 0 THEN <<>>
                  ELSE IF H[n - 1] # <<>> /\ <<Last(H[n - 1]), n>> \in T
                       THEN [H[n - 1] EXCEPT ![Len(H[n - 1])] = @ \o pieces[n]] ELSE Append(H[n - 1], pieces[n])
    BY <1>1, <1>3, PackedIs
  <2>2. n # 0 /\ H[n - 1] # <<>> => (<<Last(H[n - 1]), n>> \in T <=> takes(Last(H[n - 1]), n))
    BY <1>1, <2>1
  <2> QED
    BY <2>1, <2>2, Zenon
<1>5. F = [n \in 0..N |-> at(F, n)]
  <2>1. H = [n \in 0..N |-> at(H, n)]
    <3> HIDE DEF at, N, D
    <3> QED
      BY <1>3, <1>4
  <2> HIDE DEF at
  <2> QED
    BY <2>1, Zenon
<1> HIDE DEF F, D
<1>6. F[0] = H[0] /\ \A n \in 1..N : F[n - 1] = H[n - 1] => F[n] = H[n]
  <2>1. 0 \in 0..N /\ \A n \in 1..N : n \in 0..N
    BY <1>1
  <2>2. at(F, 0) = at(H, 0) /\ \A n \in 1..N : F[n - 1] = H[n - 1] => at(F, n) = at(H, n)
    OBVIOUS
  <2> HIDE DEF at
  <2> QED
    BY <1>4, <1>5, <2>1, <2>2
<1>7. F[N] = H[N]
  <2> HIDE DEF at
  <2> QED
    BY <1>1, <1>6, Agree
<1> QED
  BY <1>1, <1>2, <1>3, <1>7 DEF Packing, takes

LEMMA TablePacks ==
  ASSUME NEW S, NEW rows \in SeqOver(S)
  PROVE  \E T : /\ Packing(SplitTable(rows), Singles(rows), T)
                /\ \A r \in SeqOver(S), k \in DOMAIN Singles(rows) : <<r, k>> \in T <=> TableTokens(Append(r, rows[k])) <= MaxChildTokens
<1> DEFINE N == Len(Singles(rows))
           D == SeqOver(SeqOver(S))
           takes(r, k) == TableTokens(Append(r, rows[k])) <= MaxChildTokens
           T == {x \in SeqOver(S) \X (DOMAIN Singles(rows)) : takes(x[1], x[2])}
           at(F, n) == IF n = 0 THEN <<>>
                       ELSE IF F[n - 1] # <<>> /\ takes(Last(F[n - 1]), n)
                            THEN [F[n - 1] EXCEPT ![Len(F[n - 1])] = @ \o Singles(rows)[n]] ELSE Append(F[n - 1], Singles(rows)[n])
           F == CHOOSE F : F = [n \in 0..N |-> at(F, n)]
<1>1. /\ Singles(rows) \in D /\ N \in Nat /\ DOMAIN Singles(rows) = 1..N
      /\ \A r \in SeqOver(S), k \in DOMAIN Singles(rows) : <<r, k>> \in T <=> takes(r, k)
  <2>1. Singles(rows) \in D
    BY SinglesAre
  <2> QED
    BY <2>1, Items
<1>2. SplitTable(rows) = F[N]
  BY Zenon DEF SplitTable, Pack
<1> HIDE DEF T, takes
<1>3. PICK H : IsPacked(H, Singles(rows), T) /\ H \in [0..N -> D]
  BY <1>1, PackingExists
<1>4. ASSUME NEW n \in 0..N PROVE H[n] = at(H, n)
  <2>1. /\ n # 0 /\ H[n - 1] # <<>> => n \in DOMAIN Singles(rows) /\ Last(H[n - 1]) \in SeqOver(S)
        /\ H[n] = IF n = 0 THEN <<>>
                  ELSE IF H[n - 1] # <<>> /\ <<Last(H[n - 1]), n>> \in T
                       THEN [H[n - 1] EXCEPT ![Len(H[n - 1])] = @ \o Singles(rows)[n]] ELSE Append(H[n - 1], Singles(rows)[n])
    BY <1>1, <1>3, PackedIs
  <2>2. n # 0 /\ H[n - 1] # <<>> => (<<Last(H[n - 1]), n>> \in T <=> takes(Last(H[n - 1]), n))
    BY <1>1, <2>1
  <2> QED
    BY <2>1, <2>2, Zenon
<1>5. F = [n \in 0..N |-> at(F, n)]
  <2>1. H = [n \in 0..N |-> at(H, n)]
    <3> HIDE DEF at, N, D
    <3> QED
      BY <1>3, <1>4
  <2> HIDE DEF at
  <2> QED
    BY <2>1, Zenon
<1> HIDE DEF F, D
<1>6. F[0] = H[0] /\ \A n \in 1..N : F[n - 1] = H[n - 1] => F[n] = H[n]
  <2>1. 0 \in 0..N /\ \A n \in 1..N : n \in 0..N
    BY <1>1
  <2>2. at(F, 0) = at(H, 0) /\ \A n \in 1..N : F[n - 1] = H[n - 1] => at(F, n) = at(H, n)
    OBVIOUS
  <2> HIDE DEF at
  <2> QED
    BY <1>4, <1>5, <2>1, <2>2
<1>7. F[N] = H[N]
  <2> HIDE DEF at
  <2> QED
    BY <1>1, <1>6, Agree
<1> QED
  BY <1>1, <1>2, <1>3, <1>7 DEF Packing, takes

LEMMA PiecesPack ==
  ASSUME NEW S, NEW text \in SeqOver(S), NEW cuts
  PROVE  \E T : /\ Packing(Pieces(text, cuts), Singles(text), T)
                /\ \A r \in SeqOver(S), k \in DOMAIN Singles(text) : <<r, k>> \in T <=> k - 1 \notin cuts
<1> DEFINE N == Len(Singles(text))
           D == SeqOver(SeqOver(S))
           takes(r, k) == k - 1 \notin cuts
           T == {x \in SeqOver(S) \X (DOMAIN Singles(text)) : takes(x[1], x[2])}
           at(F, n) == IF n = 0 THEN <<>>
                       ELSE IF F[n - 1] # <<>> /\ takes(Last(F[n - 1]), n)
                            THEN [F[n - 1] EXCEPT ![Len(F[n - 1])] = @ \o Singles(text)[n]] ELSE Append(F[n - 1], Singles(text)[n])
           F == CHOOSE F : F = [n \in 0..N |-> at(F, n)]
<1>1. /\ Singles(text) \in D /\ N \in Nat /\ DOMAIN Singles(text) = 1..N
      /\ \A r \in SeqOver(S), k \in DOMAIN Singles(text) : <<r, k>> \in T <=> takes(r, k)
  <2>1. Singles(text) \in D
    BY SinglesAre
  <2> QED
    BY <2>1, Items
<1>2. Pieces(text, cuts) = F[N]
  BY Zenon DEF Pieces, Pack
<1> HIDE DEF T, takes
<1>3. PICK H : IsPacked(H, Singles(text), T) /\ H \in [0..N -> D]
  BY <1>1, PackingExists
<1>4. ASSUME NEW n \in 0..N PROVE H[n] = at(H, n)
  <2>1. /\ n # 0 /\ H[n - 1] # <<>> => n \in DOMAIN Singles(text) /\ Last(H[n - 1]) \in SeqOver(S)
        /\ H[n] = IF n = 0 THEN <<>>
                  ELSE IF H[n - 1] # <<>> /\ <<Last(H[n - 1]), n>> \in T
                       THEN [H[n - 1] EXCEPT ![Len(H[n - 1])] = @ \o Singles(text)[n]] ELSE Append(H[n - 1], Singles(text)[n])
    BY <1>1, <1>3, PackedIs
  <2>2. n # 0 /\ H[n - 1] # <<>> => (<<Last(H[n - 1]), n>> \in T <=> takes(Last(H[n - 1]), n))
    BY <1>1, <2>1
  <2> QED
    BY <2>1, <2>2, Zenon
<1>5. F = [n \in 0..N |-> at(F, n)]
  <2>1. H = [n \in 0..N |-> at(H, n)]
    <3> HIDE DEF at, N, D
    <3> QED
      BY <1>3, <1>4
  <2> HIDE DEF at
  <2> QED
    BY <2>1, Zenon
<1> HIDE DEF F, D
<1>6. F[0] = H[0] /\ \A n \in 1..N : F[n - 1] = H[n - 1] => F[n] = H[n]
  <2>1. 0 \in 0..N /\ \A n \in 1..N : n \in 0..N
    BY <1>1
  <2>2. at(F, 0) = at(H, 0) /\ \A n \in 1..N : F[n - 1] = H[n - 1] => at(F, n) = at(H, n)
    OBVIOUS
  <2> HIDE DEF at
  <2> QED
    BY <1>4, <1>5, <2>1, <2>2
<1>7. F[N] = H[N]
  <2> HIDE DEF at
  <2> QED
    BY <1>1, <1>6, Agree
<1> QED
  BY <1>1, <1>2, <1>3, <1>7 DEF Packing, takes

----------------------------------------------------------------------------
\* What splitting, merging and cutting into rows do to a text.

Token  == Nat \X Nat
Words  == SeqOver(Token)
Filled == {t \in Words : t # <<>>}

LEMMA WordsGrow ==
  ASSUME NEW r \in Filled, NEW t \in Words
  PROVE  Join(r, t) \in Filled /\ Len(Join(r, t)) = Len(r) + Len(t) /\ Len(r) >= 1 /\ Len(t) \in Nat
BY DEF Filled, Words, Join, SeqOver

\* _split_by_paragraphs: a parent that is too large is one paragraph.
LEMMA SplitKeeps ==
  ASSUME NEW paragraphs \in SeqOver(Filled)
  PROVE  /\ SplitByParagraphs(paragraphs) \in SeqOver(Filled)
         /\ FlattenSeq(SplitByParagraphs(paragraphs)) = FlattenSeq(paragraphs)
         /\ \A r \in ToSet(SplitByParagraphs(paragraphs)) : Len(r) <= MaxParentTokens \/ r \in ToSet(paragraphs)
<1> DEFINE G == {r \in Filled : Len(r) <= MaxParentTokens \/ r \in ToSet(paragraphs)}
           runs == SplitByParagraphs(paragraphs)
<1>1. paragraphs \in SeqOver(Words)
  BY DEF SeqOver, Filled
<1>2. PICK T : /\ Packing(runs, paragraphs, T)
               /\ \A r \in Words, k \in DOMAIN paragraphs : <<r, k>> \in T <=> Len(r) + Len(paragraphs[k]) <= MaxParentTokens
  BY <1>1, SplitPacks DEF Words
<1>3. \A k \in DOMAIN paragraphs : paragraphs[k] \in G
  BY Items DEF ToSet
<1>4. \A r \in G, k \in DOMAIN paragraphs : r \in Words /\ <<r, k>> \in T => Join(r, paragraphs[k]) \in G
  <2> SUFFICES ASSUME NEW r \in G, NEW k \in DOMAIN paragraphs, r \in Words, <<r, k>> \in T
               PROVE  Join(r, paragraphs[k]) \in G
    OBVIOUS
  <2>1. paragraphs[k] \in Words /\ r \in Filled
    BY <1>1, Items
  <2>2. Join(r, paragraphs[k]) \in Filled /\ Len(Join(r, paragraphs[k])) <= MaxParentTokens
    BY <1>2, <2>1, WordsGrow
  <2> QED
    BY <2>2
<1> HIDE DEF G, runs
<1>5. runs \in SeqOver(Words \cap G)
  BY <1>1, <1>2, <1>3, <1>4, PackedRuns DEF Words
<1>6. FlattenSeq(runs) = FlattenSeq(paragraphs)
  BY <1>1, <1>2, PackedAll DEF Words
<1>7. runs \in SeqOver(Filled) /\ \A r \in ToSet(runs) : r \in G
  BY <1>5 DEF SeqOver, G, ToSet
<1> QED
  BY <1>6, <1>7 DEF G, runs

LEMMA PiecesKeep ==
  ASSUME NEW S, NEW text \in SeqOver(S), NEW cuts
  PROVE  Pieces(text, cuts) \in SeqOver(SeqOver(S)) /\ FlattenSeq(Pieces(text, cuts)) = text
<1>1. PICK T : Packing(Pieces(text, cuts), Singles(text), T)
  BY PiecesPack
<1>2. Singles(text) \in SeqOver(SeqOver(S)) /\ FlattenSeq(Singles(text)) = text
  BY SinglesAre
<1> QED
  BY <1>1, <1>2, PackedAll, PackedFull

\* _merge_small keeps the text, and leaves no small piece unless there is only one.
LEMMA MergeKeeps ==
  ASSUME NEW pieces \in SeqOver(Words)
  PROVE  /\ MergeSmall(pieces) \in SeqOver(Words)
         /\ FlattenSeq(MergeSmall(pieces)) = FlattenSeq(pieces)
         /\ \/ \A k \in DOMAIN MergeSmall(pieces) : Len(MergeSmall(pieces)[k]) >= MinChildTokens
            \/ Len(MergeSmall(pieces)) = 1
<1> DEFINE runs == MergeForward(pieces)
           n == Len(runs)
<1>1. PICK T : /\ Packing(runs, pieces, T)
               /\ \A r \in Words, k \in DOMAIN pieces : <<r, k>> \in T <=> Len(r) < MinChildTokens
  BY MergePacks DEF Words
<1>2. runs \in SeqOver(Words) /\ FlattenSeq(runs) = FlattenSeq(pieces) /\ Refused(runs, pieces, T)
  BY <1>1, PackedAll, PackedFull DEF Words
<1> HIDE DEF runs
<1>3. n \in Nat /\ DOMAIN runs = 1..n /\ \A k \in 1..n : runs[k] \in Words /\ Len(runs[k]) \in Nat
  BY <1>2, Items DEF Words
<1> HIDE DEF n
<1>4. MinChildTokens \in Nat
  BY TextSettingsAssumption
<1>5. \A k \in 1..(n - 1) : Len(runs[k]) >= MinChildTokens
  <2> TAKE k \in 1..(n - 1)
  <2>1. PICK m \in DOMAIN pieces : <<runs[k], m>> \notin T
    BY <1>2 DEF Refused, n
  <2>2. k \in 1..n
    BY <1>3
  <2> QED
    BY <1>1, <1>3, <1>4, <2>1, <2>2
<1>6. CASE SmallTail(runs)
  <2> DEFINE b == SubSeq(runs, 1, n - 2)
             x == runs[n - 1]
             y == runs[n]
             z == Join(x, y)
  <2>1. n > 1
    BY <1>6 DEF SmallTail, n
  <2>2. /\ x \in Words /\ y \in Words /\ n - 1 \in 1..(n - 1)
        /\ b \in SeqOver(Words) /\ Len(b) = n - 2 /\ \A k \in 1..(n - 2) : b[k] = runs[k]
        /\ runs = Append(Append(b, x), y)
    BY <1>2, <2>1, LastTwo DEF n, Words
  <2>3. z \in Words /\ Len(z) = Len(x) + Len(y) /\ Len(x) \in Nat /\ Len(y) \in Nat
    BY <2>2 DEF Words, SeqOver, Join
  <2>4. MergeSmall(pieces) = Append(b, z)
    BY <1>6, Zenon DEF MergeSmall, JoinLastTwo, runs, n, Join
  <2>5. Len(x) >= MinChildTokens
    BY <1>5, <2>2
  <2> HIDE DEF b, x, y, z
  <2>6. Append(b, z) \in SeqOver(Words) /\ Append(b, x) \in SeqOver(Words)
    BY <2>2, <2>3, AppendType
  <2>7. FlattenSeq(Append(b, z)) = FlattenSeq(runs)
    <3>1. /\ FlattenSeq(b) \in Words /\ FlattenSeq(Append(b, z)) = Join(FlattenSeq(b), z)
          /\ FlattenSeq(Append(b, x)) = Join(FlattenSeq(b), x)
      BY <2>2, <2>3, FlattenGrows DEF Words
    <3>2. FlattenSeq(Append(Append(b, x), y)) = Join(FlattenSeq(Append(b, x)), y)
      BY <2>2, <2>6, FlattenGrows DEF Words
    <3>3. Join(Join(FlattenSeq(b), x), y) = Join(FlattenSeq(b), z)
      BY <2>2, <3>1, JoinAssociative DEF Words, z
    <3> QED
      BY <2>2, <3>1, <3>2, <3>3
  <2>8. \A k \in DOMAIN Append(b, z) : Len(Append(b, z)[k]) >= MinChildTokens
    <3>1. DOMAIN Append(b, z) = 1..(n - 1) /\ \A k \in 1..(n - 1) : Append(b, z)[k] = IF k = n - 1 THEN z ELSE b[k]
      BY <1>3, <2>1, <2>2 DEF SeqOver
    <3>2. Len(z) >= MinChildTokens
      BY <1>4, <2>3, <2>5
    <3>3. \A k \in 1..(n - 1) : k # n - 1 => k \in 1..(n - 2)
      BY <1>3
    <3> QED
      BY <1>5, <2>2, <3>1, <3>2, <3>3
  <2> QED
    BY <1>2, <2>4, <2>6, <2>7, <2>8
<1>7. CASE ~SmallTail(runs)
  <2>1. MergeSmall(pieces) = runs
    BY <1>7, Zenon DEF MergeSmall, runs
  <2>2. n > 1 => Len(runs[n]) >= MinChildTokens
    BY <1>3, <1>4, <1>7 DEF SmallTail, n, Last
  <2>3. CASE n > 1
    <3>1. \A k \in 1..n : k = n \/ k \in 1..(n - 1)
      BY <1>3
    <3> QED
      BY <1>2, <1>3, <1>5, <2>1, <2>2, <2>3, <3>1
  <2>4. CASE n = 1
    BY <1>2, <2>1, <2>4 DEF n
  <2>5. CASE n = 0
    <3>1. DOMAIN runs = {}
      BY <1>3, <2>5
    <3> QED
      BY <1>2, <2>1, <3>1
  <2> QED
    BY <1>3, <2>3, <2>4, <2>5
<1> QED
  BY <1>6, <1>7

\* build_table_chunks: a fragment that is too large has one row.
LEMMA FragmentsKeep ==
  ASSUME NEW rows \in Words
  PROVE  /\ Fragments(rows) \in SeqOver(Words) /\ FlattenSeq(Fragments(rows)) = rows
         /\ \A r \in ToSet(Fragments(rows)) : TableTokens(r) <= MaxChildTokens \/ Len(r) <= 1
<1>1. CASE CaptionTokens + TableTokens(rows) <= MaxChildTokens \/ rows = <<>>
  <2>1. Fragments(rows) = <<rows>>
    BY <1>1 DEF Fragments
  <2>2. <<rows>> \in SeqOver(Words) /\ FlattenSeq(<<rows>>) = rows /\ ToSet(<<rows>>) = {rows}
    BY OneType, FlattenOne DEF Words, ToSet
  <2>3. TableTokens(rows) <= MaxChildTokens \/ Len(rows) <= 1
    <3>1. Len(rows) \in Nat /\ CaptionTokens \in Nat /\ MaxChildTokens \in Nat /\ (rows = <<>> => Len(rows) = 0)
      BY SizesAssumption, ChildTokensAssumption, Items DEF Words
    <3>2. TableTokens(rows) \in Nat
      BY <3>1, SizesAssumption DEF TableTokens
    <3> QED
      BY <1>1, <3>1, <3>2
  <2> QED
    BY <2>1, <2>2, <2>3
<1>2. CASE ~(CaptionTokens + TableTokens(rows) <= MaxChildTokens \/ rows = <<>>)
  <2> DEFINE G == {r \in Words : TableTokens(r) <= MaxChildTokens \/ Len(r) <= 1}
             texts == Singles(rows)
  <2>1. Fragments(rows) = SplitTable(rows)
    BY <1>2 DEF Fragments
  <2>2. /\ texts \in SeqOver(Words) /\ DOMAIN texts = DOMAIN rows /\ FlattenSeq(texts) = rows
        /\ \A k \in DOMAIN rows : texts[k] = <<rows[k]>>
    BY SinglesAre DEF Words
  <2>3. PICK T : /\ Packing(SplitTable(rows), texts, T)
                 /\ \A r \in Words, k \in DOMAIN texts : <<r, k>> \in T <=> TableTokens(Append(r, rows[k])) <= MaxChildTokens
    BY TablePacks DEF Words
  <2>4. \A k \in DOMAIN rows : rows[k] \in Token
    BY Items DEF Words
  <2>5. \A k \in DOMAIN texts : texts[k] \in G
    <3> TAKE k \in DOMAIN texts
    <3>1. texts[k] = <<rows[k]>> /\ <<rows[k]>> \in Words /\ Len(<<rows[k]>>) = 1
      BY <2>2, <2>4, OneType DEF Words
    <3> QED
      BY <3>1
  <2>6. \A r \in G, k \in DOMAIN texts : r \in Words /\ <<r, k>> \in T => Join(r, texts[k]) \in G
    <3> TAKE r \in G, k \in DOMAIN texts
    <3>1. Join(r, <<rows[k]>>) = Append(r, rows[k]) /\ Append(r, rows[k]) \in Words
      BY <2>2, <2>4, AppendIsJoin, AppendType DEF Words
    <3> QED
      BY <2>2, <2>3, <3>1
  <2> HIDE DEF G, texts
  <2>7. SplitTable(rows) \in SeqOver(Words \cap G)
    BY <2>2, <2>3, <2>5, <2>6, PackedRuns DEF Words
  <2>8. FlattenSeq(SplitTable(rows)) = rows
    BY <2>2, <2>3, PackedAll DEF Words
  <2>9. SplitTable(rows) \in SeqOver(Words) /\ \A r \in ToSet(SplitTable(rows)) : r \in G
    BY <2>7 DEF SeqOver, ToSet, G
  <2> QED
    BY <2>1, <2>8, <2>9 DEF G
<1> QED
  BY <1>1, <1>2

----------------------------------------------------------------------------
\* Chunks: what the chunks in a set tell, and how they are numbered.

ChunkOf(X) ==
  [role : {"root", "parent", "child"}, block : {"text", "table", "slide", "row"},
   parent : Nat, ord : Nat, section : Nat, text : X]
Speaks(C, S, Y) == \A c \in C : c \in S => c.text \in SeqOver(Y)
Telling(C, S)   == [c \in C |-> IF c \in S THEN c.text ELSE <<>>]
Told(C, cs, S)  == Gather(Telling(C, S), cs)

LEMMA TellingType ==
  ASSUME NEW C, NEW S, NEW Y, Speaks(C, S, Y)
  PROVE  Telling(C, S) \in [C -> SeqOver(Y)] /\ \A c \in C : c \notin S => Telling(C, S)[c] = <<>>
BY EmptyType DEF Telling, Speaks

\* Texts is what its chunks tell.
LEMMA TextsTold ==
  ASSUME NEW C, NEW S, NEW Y, Speaks(C, S, Y), chunks \in SeqOver(C), NEW R, R = ToSet(chunks) \cap S
  PROVE  Texts(R) = Told(C, chunks, S)
<1> DEFINE those == Only(chunks, S)
           f == Telling(C, S)
<1>1. Only(chunks, R) = those
  BY OnlySame
<1>2. Texts(R) = FlattenSeq([k \in DOMAIN those |-> those[k].text])
  BY <1>1, Zenon DEF Texts
<1>3. those \in SeqOver(C) /\ those \in SeqOver(C \cap S)
  BY OnlyType
<1> HIDE DEF those
<1>4. ASSUME NEW k \in DOMAIN those PROVE those[k].text = f[those[k]]
  <2>1. those[k] \in C \cap S
    BY <1>3, Items
  <2> QED
    BY <2>1 DEF Telling
<1>5. [k \in DOMAIN those |-> those[k].text] = [k \in DOMAIN those |-> f[those[k]]]
  <2> HIDE DEF f
  <2> QED
    BY <1>4
<1>6. FlattenSeq([k \in DOMAIN those |-> those[k].text]) = Gather(f, those)
  <2> HIDE DEF f
  <2> QED
    BY <1>5, Zenon DEF Gather
<1>7. Gather(f, those) = Gather(f, chunks)
  BY GatherOnly, TellingType DEF those
<1> QED
  BY <1>2, <1>6, <1>7 DEF Told

LEMMA ToldType ==
  ASSUME NEW C, NEW S, NEW Y, Speaks(C, S, Y), NEW cs \in SeqOver(C)
  PROVE  Told(C, cs, S) \in SeqOver(Y)
BY TellingType, GatherType DEF Told

LEMMA ToldNothing == ASSUME NEW C, NEW S PROVE Told(C, <<>>, S) = <<>>
BY GatherNothing DEF Told

LEMMA ToldAppend ==
  ASSUME NEW C, NEW S, NEW Y, Speaks(C, S, Y), NEW cs \in SeqOver(C), NEW c \in C
  PROVE  Told(C, Append(cs, c), S) = IF c \in S THEN Join(Told(C, cs, S), c.text) ELSE Told(C, cs, S)
<1>1. Told(C, Append(cs, c), S) = Join(Told(C, cs, S), Telling(C, S)[c])
  BY TellingType, GatherAppend DEF Told
<1>2. Telling(C, S)[c] = IF c \in S THEN c.text ELSE <<>>
  BY DEF Telling
<1> QED
  BY <1>1, <1>2, ToldType, JoinNothing

LEMMA ToldJoin ==
  ASSUME NEW C, NEW S, NEW Y, Speaks(C, S, Y), NEW cs \in SeqOver(C), NEW new \in SeqOver(C)
  PROVE  Told(C, Join(cs, new), S) = Join(Told(C, cs, S), Told(C, new, S))
BY TellingType, GatherJoin DEF Told

LEMMA ToldNone ==
  ASSUME NEW C, NEW S, NEW Y, Speaks(C, S, Y), NEW cs \in SeqOver(C), \A i \in DOMAIN cs : cs[i] \notin S
  PROVE  Told(C, cs, S) = <<>>
<1>1. ToSet(cs) \cap S = {}
  BY DEF ToSet
<1>2. Only(cs, S) = <<>>
  BY <1>1, OnlyNone
<1>3. Gather(Telling(C, S), Only(cs, S)) = Gather(Telling(C, S), cs)
  BY TellingType, GatherOnly
<1> QED
  BY <1>2, <1>3, GatherNothing DEF Told

Kids(kids, block, parent, ord, of, texts) ==
  /\ DOMAIN kids = DOMAIN texts
  /\ \A k \in DOMAIN texts : kids[k] = Chunk("child", block, parent, ord + k - 1, of, texts[k])

LEMMA ChunkFields ==
  ASSUME NEW X, NEW cs \in SeqOver(ChunkOf(X))
  PROVE  \A i \in DOMAIN cs :
           /\ cs[i] \in ChunkOf(X) /\ cs[i].parent \in Nat /\ cs[i].ord \in Nat /\ cs[i].section \in Nat /\ cs[i].text \in X
           /\ cs[i].role \in {"root", "parent", "child"} /\ cs[i].block \in {"text", "table", "slide", "row"}
<1>1. \A i \in DOMAIN cs : cs[i] \in ChunkOf(X)
  BY Items
<1> QED
  BY <1>1 DEF ChunkOf

LEMMA ChildChunksAre ==
  ASSUME NEW X, NEW texts \in SeqOver(X), NEW block \in {"text", "table", "slide", "row"},
         NEW parent \in Nat, NEW of \in Nat, childOrd \in Nat
  PROVE  /\ ChildChunks(block, parent, of, texts) \in SeqOver(ChunkOf(X))
         /\ Kids(ChildChunks(block, parent, of, texts), block, parent, childOrd, of, texts)
         /\ Len(ChildChunks(block, parent, of, texts)) = Len(texts)
<1> DEFINE kids == ChildChunks(block, parent, of, texts)
<1>1. Len(texts) \in Nat /\ DOMAIN texts = 1..Len(texts) /\ \A k \in DOMAIN texts : texts[k] \in X
  BY Items
<1>2. Kids(kids, block, parent, childOrd, of, texts)
  BY DEF ChildChunks, Kids
<1>3. \A k \in 1..Len(texts) : Chunk("child", block, parent, childOrd + k - 1, of, texts[k]) \in ChunkOf(X)
  <2> TAKE k \in 1..Len(texts)
  <2>1. childOrd + k - 1 \in Nat /\ texts[k] \in X
    BY <1>1
  <2> QED
    BY <2>1 DEF Chunk, ChunkOf
<1>4. kids \in [1..Len(texts) -> ChunkOf(X)]
  BY <1>1, <1>3 DEF ChildChunks
<1>5. kids \in SeqOver(ChunkOf(X))
  BY <1>1, <1>4, Listed
<1> HIDE DEF kids
<1>6. Len(kids) = Len(texts)
  <2>1. Len(kids) \in Nat /\ DOMAIN kids = 1..Len(kids)
    BY <1>5, Items
  <2>2. DOMAIN kids = 1..Len(texts)
    BY <1>4
  <2> QED
    BY <1>1, <2>1, <2>2, SameLength
<1> QED
  BY <1>2, <1>5, <1>6 DEF kids

LEMMA KidFields ==
  ASSUME NEW kids, NEW block, NEW parent, NEW ord, NEW of, NEW texts, Kids(kids, block, parent, ord, of, texts),
         NEW k \in DOMAIN kids
  PROVE  /\ k \in DOMAIN texts
         /\ kids[k].role = "child" /\ kids[k].block = block /\ kids[k].parent = parent
         /\ kids[k].ord = ord + k - 1 /\ kids[k].section = of /\ kids[k].text = texts[k]
BY DEF Kids, Chunk

LEMMA ToldKids ==
  ASSUME NEW C, NEW S, NEW X, NEW texts \in SeqOver(X), NEW kids \in SeqOver(C),
         NEW block, NEW parent, NEW ord, NEW of, Kids(kids, block, parent, ord, of, texts),
         \A k \in DOMAIN kids : kids[k] \in S
  PROVE  Told(C, kids, S) = FlattenSeq(texts)
<1>1. \A k \in DOMAIN kids : Telling(C, S)[kids[k]] = texts[k]
  <2> TAKE k \in DOMAIN kids
  <2>1. kids[k] \in C /\ kids[k].text = texts[k]
    BY Items, KidFields
  <2> QED
    BY <2>1 DEF Telling
<1>2. [k \in DOMAIN kids |-> Telling(C, S)[kids[k]]] = [k \in DOMAIN texts |-> texts[k]]
  BY <1>1 DEF Kids
<1>3. texts = [k \in DOMAIN texts |-> texts[k]]
  BY DEF SeqOver
<1> QED
  BY <1>2, <1>3 DEF Told, Gather

Numbers(cs, c, p) ==
  /\ \A i \in DOMAIN cs : (cs[i].role = "child" => cs[i].ord < c) /\ (cs[i].role = "parent" => cs[i].ord < p)
  /\ \A i, j \in DOMAIN cs : cs[i].role = cs[j].role /\ cs[i].ord = cs[j].ord => i = j

LEMMA NumbersParent ==
  ASSUME NEW X, NEW cs \in SeqOver(ChunkOf(X)), NEW h \in ChunkOf(X), NEW c \in Nat, NEW p \in Nat,
         Numbers(cs, c, p), h.role = "parent", h.ord = p
  PROVE  Numbers(Append(cs, h), c, p + 1)
<1> DEFINE n == Append(cs, h)
<1>1. /\ n[Len(cs) + 1] = h /\ \A i \in DOMAIN cs : n[i] = cs[i] /\ cs[i].ord \in Nat
      /\ \A i \in DOMAIN n : i \in DOMAIN cs \/ i = Len(cs) + 1
  BY AppendItems, ChunkFields
<1> HIDE DEF n
<1>2. \A i \in DOMAIN n : (n[i].role = "child" => n[i].ord < c) /\ (n[i].role = "parent" => n[i].ord < p + 1)
  BY <1>1 DEF Numbers
<1>3. \A i, j \in DOMAIN n : n[i].role = n[j].role /\ n[i].ord = n[j].ord => i = j
  BY <1>1 DEF Numbers
<1> QED
  BY <1>2, <1>3 DEF Numbers, n

LEMMA NumbersRoot ==
  ASSUME NEW X, NEW cs \in SeqOver(ChunkOf(X)), NEW h \in ChunkOf(X), NEW c \in Nat, NEW p \in Nat,
         Numbers(cs, c, p), h.role = "root", \A i \in DOMAIN cs : cs[i].role # "root"
  PROVE  Numbers(Append(cs, h), c, p)
<1> DEFINE n == Append(cs, h)
<1>1. /\ n[Len(cs) + 1] = h /\ \A i \in DOMAIN cs : n[i] = cs[i]
      /\ \A i \in DOMAIN n : i \in DOMAIN cs \/ i = Len(cs) + 1
  BY AppendItems
<1> HIDE DEF n
<1> QED
  BY <1>1 DEF Numbers, n

LEMMA NumbersChild ==
  ASSUME NEW X, NEW cs \in SeqOver(ChunkOf(X)), NEW h \in ChunkOf(X), NEW c \in Nat, NEW p \in Nat,
         Numbers(cs, c, p), h.role = "child", h.ord = c
  PROVE  Numbers(Append(cs, h), c + 1, p)
<1> DEFINE n == Append(cs, h)
<1>1. /\ n[Len(cs) + 1] = h /\ \A i \in DOMAIN cs : n[i] = cs[i] /\ cs[i].ord \in Nat
      /\ \A i \in DOMAIN n : i \in DOMAIN cs \/ i = Len(cs) + 1
  BY AppendItems, ChunkFields
<1> HIDE DEF n
<1>2. \A i \in DOMAIN n : (n[i].role = "child" => n[i].ord < c + 1) /\ (n[i].role = "parent" => n[i].ord < p)
  BY <1>1 DEF Numbers
<1>3. \A i, j \in DOMAIN n : n[i].role = n[j].role /\ n[i].ord = n[j].ord => i = j
  BY <1>1 DEF Numbers
<1> QED
  BY <1>2, <1>3 DEF Numbers, n

LEMMA NumbersKids ==
  ASSUME NEW X, NEW cs \in SeqOver(ChunkOf(X)), NEW kids \in SeqOver(ChunkOf(X)), NEW c \in Nat, NEW p \in Nat,
         NEW block, NEW parent, NEW of, NEW texts, Kids(kids, block, parent, c, of, texts), Numbers(cs, c, p)
  PROVE  Numbers(Join(cs, kids), c + Len(kids), p)
<1> DEFINE n == Join(cs, kids)
<1>1. /\ \A i \in DOMAIN cs : n[i] = cs[i] /\ cs[i].ord \in Nat
      /\ \A k \in DOMAIN kids : n[Len(cs) + k] = kids[k]
      /\ \A i \in DOMAIN n : i \in DOMAIN cs \/ \E k \in DOMAIN kids : i = Len(cs) + k
  BY JoinItems, ChunkFields
<1>2. Len(kids) \in Nat /\ DOMAIN kids = 1..Len(kids) /\ \A k \in DOMAIN kids : kids[k].role = "child" /\ kids[k].ord = c + k - 1
  BY Items, KidFields
<1> HIDE DEF n
<1>3. \A i \in DOMAIN n : \/ i \in DOMAIN cs /\ n[i] = cs[i]
                          \/ \E k \in DOMAIN kids : i = Len(cs) + k /\ n[i].role = "child" /\ n[i].ord = c + k - 1
  BY <1>1, <1>2
<1>4. \A i \in DOMAIN n : (n[i].role = "child" => n[i].ord < c + Len(kids)) /\ (n[i].role = "parent" => n[i].ord < p)
  <2> SUFFICES ASSUME NEW i \in DOMAIN n
               PROVE  (n[i].role = "child" => n[i].ord < c + Len(kids)) /\ (n[i].role = "parent" => n[i].ord < p)
    OBVIOUS
  <2>1. CASE i \in DOMAIN cs /\ n[i] = cs[i]
    BY <1>1, <1>2, <2>1 DEF Numbers
  <2>2. ASSUME NEW k \in DOMAIN kids, n[i].role = "child", n[i].ord = c + k - 1
        PROVE  n[i].ord < c + Len(kids)
    BY <1>2, <2>2
  <2> QED
    BY <1>3, <2>1, <2>2
<1>5. \A i, j \in DOMAIN n : n[i].role = n[j].role /\ n[i].ord = n[j].ord => i = j
  <2> SUFFICES ASSUME NEW i \in DOMAIN n, NEW j \in DOMAIN n, n[i].role = n[j].role, n[i].ord = n[j].ord PROVE i = j
    OBVIOUS
  <2>1. CASE i \in DOMAIN cs /\ j \in DOMAIN cs
    BY <1>1, <2>1 DEF Numbers
  <2>2. ASSUME NEW k \in DOMAIN kids, n[i].role = "child", n[i].ord = c + k - 1, j \in DOMAIN cs, n[j] = cs[j] PROVE FALSE
    <3>1. cs[j].role = "child" /\ cs[j].ord = c + k - 1
      BY <2>2
    <3>2. cs[j].ord < c
      BY <2>2, <3>1 DEF Numbers
    <3>3. k \in Nat /\ k >= 1
      BY <1>2
    <3> QED
      BY <3>1, <3>2, <3>3
  <2>3. ASSUME NEW k \in DOMAIN kids, n[j].role = "child", n[j].ord = c + k - 1, i \in DOMAIN cs, n[i] = cs[i] PROVE FALSE
    <3>1. cs[i].role = "child" /\ cs[i].ord = c + k - 1
      BY <2>3
    <3>2. cs[i].ord < c
      BY <2>3, <3>1 DEF Numbers
    <3>3. k \in Nat /\ k >= 1
      BY <1>2
    <3> QED
      BY <3>1, <3>2, <3>3
  <2>4. ASSUME NEW k \in DOMAIN kids, NEW m \in DOMAIN kids, i = Len(cs) + k, n[i].ord = c + k - 1,
               j = Len(cs) + m, n[j].ord = c + m - 1
        PROVE  i = j
    BY <1>2, <2>4
  <2> QED
    BY <1>3, <2>1, <2>2, <2>3, <2>4
<1> QED
  BY <1>4, <1>5 DEF Numbers, n

LEMMA ToldMore ==
  ASSUME NEW C, NEW S, NEW Y, Speaks(C, S, Y), NEW X, NEW texts \in SeqOver(X),
         NEW cs \in SeqOver(C), NEW kids \in SeqOver(C),
         NEW block, NEW parent, NEW ord, NEW of, Kids(kids, block, parent, ord, of, texts)
  PROVE  /\ (\A k \in DOMAIN kids : kids[k] \in S) => Told(C, Join(cs, kids), S) = Join(Told(C, cs, S), FlattenSeq(texts))
         /\ (\A k \in DOMAIN kids : kids[k] \notin S) => Told(C, Join(cs, kids), S) = Told(C, cs, S)
<1>1. Told(C, Join(cs, kids), S) = Join(Told(C, cs, S), Told(C, kids, S)) /\ Told(C, cs, S) \in SeqOver(Y)
  BY ToldJoin, ToldType
<1>2. (\A k \in DOMAIN kids : kids[k] \in S) => Told(C, kids, S) = FlattenSeq(texts)
  BY ToldKids
<1>3. (\A k \in DOMAIN kids : kids[k] \notin S) => Told(C, kids, S) = <<>>
  BY ToldNone
<1> QED
  BY <1>1, <1>2, <1>3, JoinNothing

----------------------------------------------------------------------------
\* The semantic chunker.

TextSection == [paragraphs : SeqOver(Filled), tables : SeqOver(Words)]
TextChunk   == ChunkOf(Words)
TextKids(p)    == {c \in TextChunk : c.block = "text" /\ c.role = "child" /\ c.parent = p}
TableKids      == {c \in TextChunk : c.block = "table"}
SectionKids(s) == {c \in TextChunk : c.role = "child" /\ c.block = "text" /\ c.section = s}

LEMMA TextSpeaks == \A S : Speaks(TextChunk, S, Token)
BY DEF Speaks, TextChunk, ChunkOf, Words

\* Where the chunks cs are after section s, of which t is the first parent.
OneRoot(cs, r) == r \in 0..Len(cs) /\ \A i \in DOMAIN cs : cs[i].role = "root" <=> i = r
TextParent(c)  == c.role = "parent" /\ c.block = "text"

Placed(cs, s, t) ==
  /\ \A i \in DOMAIN cs : /\ cs[i].section <= s /\ cs[i].block \in {"text", "table"}
                          /\ cs[i].role # "child" => cs[i].block = "text"
  /\ t \in 0..Len(cs)
  /\ t # 0 => TextParent(cs[t]) /\ cs[t].section = s
  /\ t = 0 => \A i \in DOMAIN cs : TextParent(cs[i]) => cs[i].section # s
NoTables(cs, s) == \A i \in DOMAIN cs : cs[i].block = "table" => cs[i].section # s

\* A chunk c at place i resolves among cs.
Resolves(cs, i, c) ==
  /\ c.parent \in 1..(i - 1)
  /\ \/ cs[c.parent].role = "parent" /\ (cs[c.parent].section = c.section \/ c.block = "slide")
     \/ /\ cs[c.parent].role = "root" /\ c.block = "table"
        /\ \A j \in DOMAIN cs : TextParent(cs[j]) => cs[j].section # c.section
Resolved(cs) == \A i \in DOMAIN cs : cs[i].role = "child" => Resolves(cs, i, cs[i])

LEMMA ResolvedIs == ChildrenResolve <=> Resolved(chunks)
BY DEF ChildrenResolve, Resolved, Resolves, ParentsOf, TextParent

LEMMA ParentAdded ==
  ASSUME NEW X, NEW cs \in SeqOver(ChunkOf(X)), NEW h \in ChunkOf(X), TextParent(h),
         NEW s \in Nat, NEW t \in Nat, NEW r \in Nat, h.section = s,
         OneRoot(cs, r), Placed(cs, s, t), NoTables(cs, s), Resolved(cs)
  PROVE  /\ OneRoot(Append(cs, h), r) /\ NoTables(Append(cs, h), s) /\ Resolved(Append(cs, h))
         /\ Placed(Append(cs, h), s, IF t = 0 THEN Len(cs) + 1 ELSE t)
<1> DEFINE n == Append(cs, h)
<1>1. /\ n[Len(cs) + 1] = h /\ Len(n) = Len(cs) + 1 /\ \A i \in DOMAIN cs : n[i] = cs[i] /\ i \in DOMAIN n
      /\ Len(cs) + 1 \in DOMAIN n /\ \A i \in DOMAIN n : i \in DOMAIN cs \/ i = Len(cs) + 1
  BY AppendItems
<1>2. Len(cs) \in Nat /\ DOMAIN cs = 1..Len(cs) /\ \A i \in DOMAIN cs : cs[i] \in ChunkOf(X)
  BY Items
<1> HIDE DEF n
<1>3. OneRoot(n, r) /\ NoTables(n, s)
  BY <1>1, <1>2 DEF OneRoot, NoTables, TextParent
<1>4. Placed(n, s, IF t = 0 THEN Len(cs) + 1 ELSE t)
  BY <1>1, <1>2 DEF Placed, TextParent
<1>5. Resolved(n)
  <2> SUFFICES ASSUME NEW i \in DOMAIN n, n[i].role = "child" PROVE Resolves(n, i, n[i])
    BY DEF Resolved
  <2>1. i \in DOMAIN cs /\ n[i] = cs[i]
    BY <1>1 DEF TextParent
  <2>2. Resolves(cs, i, cs[i])
    BY <2>1 DEF Resolved
  <2>3. cs[i].parent \in DOMAIN cs
    BY <1>2, <2>1, <2>2 DEF Resolves
  <2>4. cs[i].block = "table" => cs[i].section # s
    BY <2>1 DEF NoTables
  <2> QED
    BY <1>1, <2>1, <2>2, <2>3, <2>4 DEF Resolves
<1> QED
  BY <1>3, <1>4, <1>5 DEF n

LEMMA RootAdded ==
  ASSUME NEW X, NEW cs \in SeqOver(ChunkOf(X)), NEW h \in ChunkOf(X), h.role = "root", h.block = "text",
         NEW s \in Nat, NEW t \in Nat, h.section = s,
         OneRoot(cs, 0), Placed(cs, s, t), Resolved(cs)
  PROVE  OneRoot(Append(cs, h), Len(cs) + 1) /\ Resolved(Append(cs, h)) /\ Placed(Append(cs, h), s, t)
<1> DEFINE n == Append(cs, h)
<1>1. /\ n[Len(cs) + 1] = h /\ Len(n) = Len(cs) + 1 /\ \A i \in DOMAIN cs : n[i] = cs[i] /\ i \in DOMAIN n
      /\ Len(cs) + 1 \in DOMAIN n /\ \A i \in DOMAIN n : i \in DOMAIN cs \/ i = Len(cs) + 1
  BY AppendItems
<1>2. Len(cs) \in Nat /\ DOMAIN cs = 1..Len(cs) /\ \A i \in DOMAIN cs : cs[i] \in ChunkOf(X)
  BY Items
<1> HIDE DEF n
<1>3. OneRoot(n, Len(cs) + 1)
  BY <1>1, <1>2 DEF OneRoot
<1>4. Placed(n, s, t)
  BY <1>1, <1>2 DEF Placed, TextParent
<1>5. Resolved(n)
  <2> SUFFICES ASSUME NEW i \in DOMAIN n, n[i].role = "child" PROVE Resolves(n, i, n[i])
    BY DEF Resolved
  <2>1. i \in DOMAIN cs /\ n[i] = cs[i]
    BY <1>1
  <2>2. Resolves(cs, i, cs[i])
    BY <2>1 DEF Resolved
  <2>3. cs[i].parent \in DOMAIN cs
    BY <1>2, <2>1, <2>2 DEF Resolves
  <2> QED
    BY <1>1, <2>1, <2>2, <2>3 DEF Resolves, TextParent
<1> QED
  BY <1>3, <1>4, <1>5 DEF n

LEMMA KidsAdded ==
  ASSUME NEW X, NEW cs \in SeqOver(ChunkOf(X)), NEW kids \in SeqOver(ChunkOf(X)),
         NEW s \in Nat, NEW t \in Nat, NEW r \in Nat,
         NEW block \in {"text", "table"}, NEW p \in DOMAIN cs, NEW ord, NEW texts, Kids(kids, block, p, ord, s, texts),
         OneRoot(cs, r), Placed(cs, s, t), Resolved(cs),
         \/ TextParent(cs[p]) /\ cs[p].section = s
         \/ p = r /\ block = "table" /\ t = 0
  PROVE  /\ OneRoot(Join(cs, kids), r) /\ Resolved(Join(cs, kids)) /\ Placed(Join(cs, kids), s, t)
         /\ block = "text" /\ NoTables(cs, s) => NoTables(Join(cs, kids), s)
<1> DEFINE n == Join(cs, kids)
<1>1. /\ Len(n) = Len(cs) + Len(kids) /\ \A i \in DOMAIN cs : n[i] = cs[i] /\ i \in DOMAIN n
      /\ \A k \in DOMAIN kids : n[Len(cs) + k] = kids[k]
      /\ \A i \in DOMAIN n : i \in DOMAIN cs \/ \E k \in DOMAIN kids : i = Len(cs) + k
  BY JoinItems
<1>2. /\ Len(cs) \in Nat /\ DOMAIN cs = 1..Len(cs) /\ \A i \in DOMAIN cs : cs[i] \in ChunkOf(X)
      /\ Len(kids) \in Nat /\ DOMAIN kids = 1..Len(kids)
  BY Items
<1>3. \A k \in DOMAIN kids : /\ kids[k].role = "child" /\ kids[k].block = block
                             /\ kids[k].parent = p /\ kids[k].section = s
  BY KidFields
<1> HIDE DEF n
<1>4. OneRoot(n, r)
  <2>1. \A k \in DOMAIN kids : Len(cs) + k \notin 0..Len(cs)
    BY <1>2
  <2> QED
    BY <1>1, <1>2, <1>3, <2>1 DEF OneRoot
<1>5. Placed(n, s, t)
  <2>1. \A i \in DOMAIN n : (i \in DOMAIN cs /\ n[i] = cs[i]) \/ (n[i].role = "child" /\ n[i].block = block /\ n[i].section = s)
    BY <1>1, <1>3
  <2>2. t \in 0..Len(n) /\ (t # 0 => n[t] = cs[t])
    BY <1>1, <1>2 DEF Placed
  <2> QED
    BY <2>1, <2>2 DEF Placed, TextParent
<1>6. Resolved(n)
  <2> SUFFICES ASSUME NEW i \in DOMAIN n, n[i].role = "child" PROVE Resolves(n, i, n[i])
    BY DEF Resolved
  <2>1. \A j \in DOMAIN n : TextParent(n[j]) => j \in DOMAIN cs /\ n[j] = cs[j]
    BY <1>1, <1>3 DEF TextParent
  <2>2. CASE i \in DOMAIN cs
    <3>1. Resolves(cs, i, cs[i]) /\ n[i] = cs[i]
      BY <1>1, <2>2 DEF Resolved
    <3>2. cs[i].parent \in DOMAIN cs
      BY <1>2, <2>2, <3>1 DEF Resolves
    <3> QED
      BY <1>1, <2>1, <3>1, <3>2 DEF Resolves
  <2>3. ASSUME NEW k \in DOMAIN kids, i = Len(cs) + k PROVE Resolves(n, i, n[i])
    <3>1. n[i] = kids[k] /\ n[i].parent = p /\ n[i].section = s /\ n[i].block = block
      BY <1>1, <1>3, <2>3
    <3>2. p \in 1..(i - 1) /\ n[p] = cs[p]
      BY <1>1, <1>2, <2>3
    <3>3. CASE TextParent(cs[p]) /\ cs[p].section = s
      BY <3>1, <3>2, <3>3 DEF Resolves, TextParent
    <3>4. CASE p = r /\ block = "table" /\ t = 0
      <4>1. cs[p].role = "root"
        BY <3>4 DEF OneRoot
      <4>2. \A j \in DOMAIN n : TextParent(n[j]) => n[j].section # s
        BY <2>1, <3>4 DEF Placed
      <4> QED
        BY <3>1, <3>2, <3>4, <4>1, <4>2 DEF Resolves
    <3> QED
      BY <3>3, <3>4
  <2> QED
    BY <1>1, <2>2, <2>3
<1>7. block = "text" /\ NoTables(cs, s) => NoTables(n, s)
  BY <1>1, <1>3 DEF NoTables
<1> QED
  BY <1>4, <1>5, <1>6, <1>7 DEF n

\* What the children of a parent say of it.
CutUp(cs)     == \A i \in DOMAIN cs : TextParent(cs[i]) => Told(TextChunk, cs, TextKids(i)) = cs[i].text
KidsSized(cs) ==
  \A i \in DOMAIN cs : (cs[i].role = "child" /\ cs[i].block = "text") =>
    Len(cs[i].text) >= MinChildTokens \/ cs[i].text = cs[cs[i].parent].text
ParentSized(text, s) ==
  s \in DOMAIN doc.sections /\ (Len(text) <= MaxParentTokens \/ text \in ToSet(doc.sections[s].paragraphs))
ParentsSized(cs)   == \A i \in DOMAIN cs : TextParent(cs[i]) => ParentSized(cs[i].text, cs[i].section)
FragmentsSized(cs) ==
  \A i \in DOMAIN cs : cs[i].block = "table" => TableTokens(cs[i].text) <= MaxChildTokens \/ Len(cs[i].text) <= 1

LEMMA HeaderSilent ==
  ASSUME NEW cs \in SeqOver(TextChunk), NEW h \in TextChunk, h.role # "child", h.block = "text"
  PROVE  /\ \A p : Told(TextChunk, Append(cs, h), TextKids(p)) = Told(TextChunk, cs, TextKids(p))
         /\ \A s : Told(TextChunk, Append(cs, h), SectionKids(s)) = Told(TextChunk, cs, SectionKids(s))
         /\ Told(TextChunk, Append(cs, h), TableKids) = Told(TextChunk, cs, TableKids)
<1>1. \A S : h \notin S => Told(TextChunk, Append(cs, h), S) = Told(TextChunk, cs, S)
  <2> TAKE S
  <2>1. Speaks(TextChunk, S, Token)
    BY TextSpeaks
  <2> QED
    BY <2>1, ToldAppend
<1>2. (\A p : h \notin TextKids(p)) /\ (\A s : h \notin SectionKids(s)) /\ h \notin TableKids
  BY DEF TextKids, SectionKids, TableKids
<1> QED
  BY <1>1, <1>2

LEMMA KidsSpeak ==
  ASSUME NEW cs \in SeqOver(TextChunk), NEW kids \in SeqOver(TextChunk), NEW texts \in SeqOver(Words),
         NEW block \in {"text", "table"}, NEW p, NEW ord, NEW s, Kids(kids, block, p, ord, s, texts)
  PROVE  /\ \A q : Told(TextChunk, Join(cs, kids), TextKids(q)) =
                     IF block = "text" /\ q = p THEN Join(Told(TextChunk, cs, TextKids(q)), FlattenSeq(texts))
                     ELSE Told(TextChunk, cs, TextKids(q))
         /\ \A k : Told(TextChunk, Join(cs, kids), SectionKids(k)) =
                     IF block = "text" /\ k = s THEN Join(Told(TextChunk, cs, SectionKids(k)), FlattenSeq(texts))
                     ELSE Told(TextChunk, cs, SectionKids(k))
         /\ Told(TextChunk, Join(cs, kids), TableKids) =
              IF block = "table" THEN Join(Told(TextChunk, cs, TableKids), FlattenSeq(texts))
              ELSE Told(TextChunk, cs, TableKids)
<1>1. \A S : /\ (\A k \in DOMAIN kids : kids[k] \in S) =>
                  Told(TextChunk, Join(cs, kids), S) = Join(Told(TextChunk, cs, S), FlattenSeq(texts))
             /\ (\A k \in DOMAIN kids : kids[k] \notin S) => Told(TextChunk, Join(cs, kids), S) = Told(TextChunk, cs, S)
  BY TextSpeaks, ToldMore
<1>2. \A k \in DOMAIN kids : /\ kids[k] \in TextChunk /\ kids[k].role = "child" /\ kids[k].block = block
                             /\ kids[k].parent = p /\ kids[k].section = s
  BY Items, KidFields
<1>3. /\ \A q : \A k \in DOMAIN kids : kids[k] \in TextKids(q) <=> block = "text" /\ q = p
      /\ \A q : \A k \in DOMAIN kids : kids[k] \in SectionKids(q) <=> block = "text" /\ q = s
      /\ \A k \in DOMAIN kids : kids[k] \in TableKids <=> block = "table"
  BY <1>2 DEF TextKids, SectionKids, TableKids
<1> QED
  BY <1>1, <1>3

\* A parent and its children, cut out of its text.
LEMMA ParentCut ==
  ASSUME NEW cs \in SeqOver(TextChunk), NEW h \in TextChunk, TextParent(h),
         NEW kids \in SeqOver(TextChunk), NEW texts \in SeqOver(Words), NEW ord, NEW s,
         Kids(kids, "text", Len(cs) + 1, ord, s, texts), FlattenSeq(texts) = h.text,
         \A k \in DOMAIN texts : Len(texts[k]) >= MinChildTokens \/ texts[k] = h.text,
         Resolved(cs), CutUp(cs), KidsSized(cs), ParentsSized(cs), ParentSized(h.text, h.section), FragmentsSized(cs)
  PROVE  LET new == Join(Append(cs, h), kids)
         IN  CutUp(new) /\ KidsSized(new) /\ ParentsSized(new) /\ FragmentsSized(new)
<1> DEFINE base == Append(cs, h)
           new == Join(base, kids)
<1>1. /\ base \in SeqOver(TextChunk)
      /\ base[Len(cs) + 1] = h /\ Len(base) = Len(cs) + 1 /\ \A i \in DOMAIN cs : base[i] = cs[i] /\ i \in DOMAIN base
      /\ Len(cs) + 1 \in DOMAIN base /\ \A i \in DOMAIN base : i \in DOMAIN cs \/ i = Len(cs) + 1
  BY AppendItems, AppendType
<1>2. Len(cs) \in Nat /\ DOMAIN cs = 1..Len(cs) /\ \A i \in DOMAIN cs : cs[i] \in TextChunk
  BY Items
<1>3. /\ \A p : Told(TextChunk, base, TextKids(p)) = Told(TextChunk, cs, TextKids(p))
  BY HeaderSilent DEF TextParent
<1>4. /\ \A i \in DOMAIN base : new[i] = base[i] /\ i \in DOMAIN new
      /\ \A k \in DOMAIN kids : new[Len(base) + k] = kids[k]
      /\ \A i \in DOMAIN new : i \in DOMAIN base \/ \E k \in DOMAIN kids : i = Len(base) + k
  <2>1. base \in SeqOver(TextChunk)
    BY <1>1
  <2> HIDE DEF base
  <2> QED
    BY <2>1, JoinItems
<1> HIDE DEF base
<1>5. \A q : Told(TextChunk, new, TextKids(q)) =
               IF q = Len(cs) + 1 THEN Join(Told(TextChunk, base, TextKids(q)), FlattenSeq(texts))
               ELSE Told(TextChunk, base, TextKids(q))
  BY <1>1, KidsSpeak
<1>6. \A k \in DOMAIN kids : /\ kids[k].role = "child" /\ kids[k].block = "text" /\ kids[k].parent = Len(cs) + 1
                             /\ kids[k].text = texts[k] /\ k \in DOMAIN texts
  BY KidFields
<1> HIDE DEF new
<1>7. \A i \in DOMAIN new : \/ i \in DOMAIN cs /\ new[i] = cs[i]
                            \/ i = Len(cs) + 1 /\ new[i] = h
                            \/ \E k \in DOMAIN kids : new[i] = kids[k]
  BY <1>1, <1>4
<1>8. \A i \in DOMAIN cs : cs[i].role = "child" => cs[i].parent \in DOMAIN cs
  BY <1>2 DEF Resolved, Resolves
<1>9. CutUp(new)
  <2> SUFFICES ASSUME NEW i \in DOMAIN new, TextParent(new[i]) PROVE Told(TextChunk, new, TextKids(i)) = new[i].text
    BY DEF CutUp
  <2>1. CASE i \in DOMAIN cs /\ new[i] = cs[i]
    <3>1. i # Len(cs) + 1
      BY <1>2, <2>1
    <3> QED
      BY <1>3, <1>5, <2>1, <3>1 DEF CutUp
  <2>2. CASE i = Len(cs) + 1 /\ new[i] = h
    <3>1. \A j \in DOMAIN cs : cs[j] \notin TextKids(Len(cs) + 1)
      <4> TAKE j \in DOMAIN cs
      <4>1. Len(cs) + 1 \notin DOMAIN cs
        BY <1>2
      <4> QED
        BY <1>8, <4>1 DEF TextKids
    <3>2. Told(TextChunk, cs, TextKids(Len(cs) + 1)) = <<>>
      BY <3>1, TextSpeaks, ToldNone
    <3>3. Told(TextChunk, new, TextKids(i)) = Join(<<>>, h.text)
      BY <1>3, <1>5, <2>2, <3>2
    <3>4. h.text \in SeqOver(Token)
      BY DEF TextChunk, ChunkOf, Words
    <3> QED
      BY <2>2, <3>3, <3>4, JoinNothing
  <2>3. ASSUME NEW k \in DOMAIN kids, new[i] = kids[k] PROVE FALSE
    BY <1>6, <2>3 DEF TextParent
  <2> QED
    BY <1>7, <2>1, <2>2, <2>3
<1>10. KidsSized(new)
  <2> SUFFICES ASSUME NEW i \in DOMAIN new, new[i].role = "child", new[i].block = "text"
               PROVE  Len(new[i].text) >= MinChildTokens \/ new[i].text = new[new[i].parent].text
    BY DEF KidsSized
  <2>1. CASE i \in DOMAIN cs /\ new[i] = cs[i]
    <3>1. cs[i].parent \in DOMAIN cs
      BY <1>8, <2>1
    <3>2. new[cs[i].parent] = cs[cs[i].parent]
      BY <1>1, <1>4, <3>1
    <3> QED
      BY <2>1, <3>2 DEF KidsSized
  <2>2. ASSUME NEW k \in DOMAIN kids, new[i] = kids[k]
        PROVE  Len(new[i].text) >= MinChildTokens \/ new[i].text = new[new[i].parent].text
    <3>1. new[Len(cs) + 1] = h
      BY <1>1, <1>4
    <3> QED
      BY <1>6, <2>2, <3>1
  <2> QED
    BY <1>7, <2>1, <2>2 DEF TextParent
<1>11. ParentsSized(new)
  BY <1>6, <1>7 DEF ParentsSized, TextParent
<1>12. FragmentsSized(new)
  BY <1>6, <1>7 DEF FragmentsSized, TextParent
<1> QED
  BY <1>9, <1>10, <1>11, <1>12 DEF new, base

LEMMA RootCut ==
  ASSUME NEW cs \in SeqOver(TextChunk), NEW h \in TextChunk, h.role = "root", h.block = "text",
         Resolved(cs), CutUp(cs), KidsSized(cs), ParentsSized(cs), FragmentsSized(cs)
  PROVE  LET new == Append(cs, h)
         IN  CutUp(new) /\ KidsSized(new) /\ ParentsSized(new) /\ FragmentsSized(new)
<1> DEFINE new == Append(cs, h)
<1>1. /\ new[Len(cs) + 1] = h /\ \A i \in DOMAIN cs : new[i] = cs[i] /\ i \in DOMAIN new
      /\ \A i \in DOMAIN new : i \in DOMAIN cs \/ i = Len(cs) + 1
  BY AppendItems
<1>2. Len(cs) \in Nat /\ DOMAIN cs = 1..Len(cs)
  BY Items
<1>3. \A p : Told(TextChunk, new, TextKids(p)) = Told(TextChunk, cs, TextKids(p))
  BY HeaderSilent
<1> HIDE DEF new
<1>4. \A i \in DOMAIN cs : cs[i].role = "child" => cs[i].parent \in DOMAIN cs
  BY <1>2 DEF Resolved, Resolves
<1>5. CutUp(new) /\ KidsSized(new) /\ ParentsSized(new) /\ FragmentsSized(new)
  BY <1>1, <1>3, <1>4 DEF CutUp, KidsSized, ParentsSized, FragmentsSized, TextParent
<1> QED
  BY <1>5 DEF new

LEMMA TableCut ==
  ASSUME NEW cs \in SeqOver(TextChunk), NEW kids \in SeqOver(TextChunk), NEW texts \in SeqOver(Words),
         NEW p, NEW ord, NEW s, Kids(kids, "table", p, ord, s, texts),
         \A k \in DOMAIN texts : TableTokens(texts[k]) <= MaxChildTokens \/ Len(texts[k]) <= 1,
         Resolved(cs), CutUp(cs), KidsSized(cs), ParentsSized(cs), FragmentsSized(cs)
  PROVE  LET new == Join(cs, kids)
         IN  CutUp(new) /\ KidsSized(new) /\ ParentsSized(new) /\ FragmentsSized(new)
<1> DEFINE new == Join(cs, kids)
<1>1. /\ \A i \in DOMAIN cs : new[i] = cs[i] /\ i \in DOMAIN new
      /\ \A k \in DOMAIN kids : new[Len(cs) + k] = kids[k]
      /\ \A i \in DOMAIN new : i \in DOMAIN cs \/ \E k \in DOMAIN kids : i = Len(cs) + k
  BY JoinItems
<1>2. Len(cs) \in Nat /\ DOMAIN cs = 1..Len(cs)
  BY Items
<1>3. \A q : Told(TextChunk, new, TextKids(q)) = Told(TextChunk, cs, TextKids(q))
  BY KidsSpeak
<1>4. \A k \in DOMAIN kids : /\ kids[k].role = "child" /\ kids[k].block = "table"
                             /\ kids[k].text = texts[k] /\ k \in DOMAIN texts
  BY KidFields
<1> HIDE DEF new
<1>5. \A i \in DOMAIN new : (i \in DOMAIN cs /\ new[i] = cs[i]) \/ \E k \in DOMAIN kids : new[i] = kids[k]
  BY <1>1
<1>6. \A i \in DOMAIN cs : cs[i].role = "child" => cs[i].parent \in DOMAIN cs
  BY <1>2 DEF Resolved, Resolves
<1>7. CutUp(new) /\ ParentsSized(new)
  BY <1>3, <1>4, <1>5 DEF CutUp, ParentsSized, TextParent
<1>8. KidsSized(new)
  BY <1>1, <1>4, <1>5, <1>6 DEF KidsSized
<1>9. FragmentsSized(new)
  BY <1>4, <1>5 DEF FragmentsSized
<1> QED
  BY <1>7, <1>8, <1>9 DEF new

SectionTables == [x \in TextSection |-> FlattenSeq(x.tables)]
TablesRead(s) ==
  IF s <= Len(doc.sections) THEN Gather(SectionTables, SubSeq(doc.sections, 1, s))
  ELSE Join(Gather(SectionTables, doc.sections), FlattenSeq(doc.orphans))
SectionsTold(cs, s, pending) ==
  \A k \in DOMAIN doc.sections : k <= s =>
    Join(Told(TextChunk, cs, SectionKids(k)), IF k = s THEN FlattenSeq(pending) ELSE <<>>)
      = FlattenSeq(doc.sections[k].paragraphs)

TextTyped ==
  /\ doc.sections \in SeqOver(TextSection) /\ doc.orphans \in SeqOver(Words)
  /\ section \in 0..(Len(doc.sections) + 1)
  /\ childOrd \in Nat /\ parentOrd \in Nat
  /\ parents \in SeqOver(Filled) /\ tables \in SeqOver(Words)
  /\ parents # <<>> => section \in DOMAIN doc.sections
  /\ chunks \in SeqOver(TextChunk)

TextPlaced ==
  /\ OneRoot(chunks, root) /\ Placed(chunks, section, tableParent)
  /\ parents # <<>> => NoTables(chunks, section)
  /\ Resolved(chunks)
  /\ Numbers(chunks, childOrd, parentOrd)
TextCut ==
  /\ CutUp(chunks) /\ KidsSized(chunks) /\ ParentsSized(chunks) /\ FragmentsSized(chunks)
  /\ \A r \in ToSet(parents) : ParentSized(r, section)
TextTold ==
  /\ Join(Told(TextChunk, chunks, TableKids), FlattenSeq(tables)) = TablesRead(section)
  /\ SectionsTold(chunks, section, parents)
TextInv == TextTyped /\ TextPlaced /\ TextCut /\ TextTold

\* _split_by_paragraphs and _emit_children together: the children that a parent gets.
LEMMA SplitOfParent ==
  ASSUME NEW text \in Filled,
         NEW split \in IF Len(text) < MinChildTokens THEN {<<text>>} ELSE {MergeSmall(p) : p \in Splits(text)}
  PROVE  /\ split \in SeqOver(Words) /\ FlattenSeq(split) = text
         /\ \A k \in DOMAIN split : Len(split[k]) >= MinChildTokens \/ split[k] = text
<1>1. text \in Words
  BY DEF Filled
<1>2. CASE split = <<text>>
  <2>1. <<text>> \in SeqOver(Words) /\ FlattenSeq(<<text>>) = text
    BY <1>1, OneType, FlattenOne DEF Words
  <2>2. \A k \in DOMAIN <<text>> : <<text>>[k] = text
    OBVIOUS
  <2> QED
    BY <1>2, <2>1, <2>2
<1>3. CASE \E p \in Splits(text) : split = MergeSmall(p)
  <2>1. PICK p \in Splits(text) : split = MergeSmall(p)
    BY <1>3
  <2>2. PICK cuts \in Cuts(text) : p = Pieces(text, cuts)
    BY DEF Splits
  <2>3. p \in SeqOver(Words) /\ FlattenSeq(p) = text
    BY <1>1, <2>2, PiecesKeep DEF Words
  <2>4. /\ split \in SeqOver(Words) /\ FlattenSeq(split) = text
        /\ (\A k \in DOMAIN split : Len(split[k]) >= MinChildTokens) \/ Len(split) = 1
    BY <2>1, <2>3, MergeKeeps
  <2>5. ASSUME Len(split) = 1 PROVE \A k \in DOMAIN split : split[k] = text
    <3>1. DOMAIN split = 1..Len(split) /\ \A k \in DOMAIN split : split[k] \in Words
      BY <2>4, Items
    <3>2. split = <<split[1]>> /\ split[1] \in Words
      BY <2>4, <2>5, <3>1 DEF SeqOver
    <3>3. FlattenSeq(<<split[1]>>) = split[1]
      BY <3>2, FlattenOne DEF Words
    <3>4. split[1] = text
      BY <2>4, <3>2, <3>3
    <3> QED
      BY <2>5, <3>1, <3>4
  <2> QED
    BY <2>4, <2>5
<1> QED
  BY <1>2, <1>3

LEMMA BoundedType ==
  ASSUME NEW S, NEW n, NEW s \in BoundedSeq(S, n)
  PROVE  \E m \in Nat : s \in [1..m -> S]
<1>1. PICK m \in 0..n : s \in [1..m -> S]
  BY DEF BoundedSeq, SeqOf
<1> QED
  BY <1>1

LEMMA NumberedType ==
  ASSUME NEW S, S \subseteq Nat, NEW m \in Nat, NEW sizes \in [1..m -> S]
  PROVE  Numbered(sizes) \in SeqOver(Words) /\ (0 \notin S => Numbered(sizes) \in SeqOver(Filled))
<1>1. \A k \in 1..m : LET t == [j \in 1..sizes[k] |-> <<k, j>>] IN t \in Words /\ (0 \notin S => t \in Filled)
  <2> TAKE k \in 1..m
  <2> DEFINE t == [j \in 1..sizes[k] |-> <<k, j>>]
  <2>1. sizes[k] \in Nat /\ t \in [1..sizes[k] -> Token]
    <3>1. k \in Nat /\ sizes[k] \in Nat
      <4> HIDE DEF t
      <4>1. sizes[k] \in S
        OBVIOUS
      <4>2. sizes[k] \in Nat
        BY <4>1
      <4>3. k \in Nat
        OBVIOUS
      <4> QED
        BY <4>2, <4>3
    <3>2. \A j \in 1..sizes[k] : <<k, j>> \in Token
      BY <3>1 DEF Token
    <3> QED
      BY <3>1, <3>2
  <2>2. t \in Words
    BY <2>1, Listed DEF Words
  <2>3. ASSUME 0 \notin S PROVE t # <<>>
    <3>1. 1 \in 1..sizes[k] /\ DOMAIN t = 1..sizes[k]
      BY <2>1, <2>3
    <3> QED
      BY <3>1
  <2> QED
    BY <2>2, <2>3 DEF Filled
<1>2. Numbered(sizes) \in [1..m -> Words] /\ (0 \notin S => Numbered(sizes) \in [1..m -> Filled])
  BY <1>1 DEF Numbered
<1> QED
  BY <1>2, Listed

LEMMA TextStarts ==
  ASSUME ChunkingInit', TextStart', NEW type, NEW shape \in Shapes, doc' = TextDoc(type, shape)
  PROVE  TextInv'
<1>1. /\ section' = 0 /\ childOrd' = 0 /\ parentOrd' = 0 /\ chunks' = <<>>
      /\ parents' = <<>> /\ tables' = <<>> /\ tableParent' = 0 /\ root' = 0
  BY DEF ChunkingInit, TextStart, NoParent
<1>2. PICK m \in Nat : shape[1] \in [1..m -> ShapesOfSection]
  BY BoundedType DEF Shapes
<1>3. PICK o \in Nat : shape[2] \in [1..o -> TableSizes]
  BY BoundedType DEF Shapes
<1>4. doc'.orphans \in SeqOver(Words)
  BY <1>3, NumberedType, SizesAssumption DEF TextDoc
<1>5. ASSUME NEW x \in ShapesOfSection PROVE Numbered(x.paragraphs) \in SeqOver(Filled) /\ Numbered(x.tables) \in SeqOver(Words)
  <2>1. PICK a \in Nat : x.paragraphs \in [1..a -> ParagraphSizes]
    BY BoundedType DEF ShapesOfSection
  <2>2. PICK b \in Nat : x.tables \in [1..b -> TableSizes]
    BY BoundedType DEF ShapesOfSection
  <2>3. ParagraphSizes \subseteq Nat /\ 0 \notin ParagraphSizes /\ TableSizes \subseteq Nat
    BY SizesAssumption
  <2> QED
    BY <2>1, <2>2, <2>3, NumberedType
<1>6. doc'.sections \in [1..m -> TextSection]
  BY <1>2, <1>5 DEF TextDoc, TextSection
<1>7. doc'.sections \in SeqOver(TextSection)
  BY <1>6, Listed
<1>8. TextTyped'
  <2>1. Len(doc'.sections) \in Nat
    BY <1>7, Items
  <2> QED
    BY <1>1, <1>4, <1>7, <2>1, EmptyType DEF TextTyped
<1>9. Len(<<>>) = 0 /\ DOMAIN <<>> = {}
  OBVIOUS
<1>10. TextPlaced'
  BY <1>1, <1>9 DEF TextPlaced, OneRoot, Placed, Resolved, Numbers
<1>11. TextCut'
  BY <1>1, <1>9 DEF TextCut, CutUp, KidsSized, ParentsSized, FragmentsSized, ToSet
<1>12. TextTold'
  <2>1. DOMAIN doc'.sections = 1..m /\ 0 <= Len(doc'.sections)
    BY <1>6, <1>7, Items
  <2>2. SectionsTold(chunks, section, parents)'
    BY <1>1, <2>1 DEF SectionsTold
  <2>3. TablesRead(section)' = <<>>
    <3>1. SubSeq(doc'.sections, 1, 0) = <<>>
      BY <1>7, Beginnings
    <3> QED
      BY <1>1, <2>1, <3>1, GatherNothing DEF TablesRead
  <2>4. Join(Told(TextChunk, <<>>, TableKids), FlattenSeq(<<>>)) = <<>>
    BY ToldNothing, FlattenNothing DEF Join
  <2> QED
    BY <1>1, <2>2, <2>3, <2>4 DEF TextTold
<1> QED
  BY <1>8, <1>10, <1>11, <1>12 DEF TextInv

LEMMA TablesReadOn ==
  ASSUME doc.sections \in SeqOver(TextSection)
  PROVE  /\ \A s \in 0..(Len(doc.sections) - 1) :
              TablesRead(s + 1) = Join(TablesRead(s), FlattenSeq(doc.sections[s + 1].tables)) /\ TablesRead(s) \in Words
         /\ TablesRead(Len(doc.sections) + 1) = Join(TablesRead(Len(doc.sections)), FlattenSeq(doc.orphans))
         /\ TablesRead(Len(doc.sections)) \in Words
<1> DEFINE N == Len(doc.sections)
           f == SectionTables
<1>1. N \in Nat /\ DOMAIN doc.sections = 1..N
  BY Items
<1>2. f \in [TextSection -> Words]
  <2>1. \A x \in TextSection : FlattenSeq(x.tables) \in Words
    BY FlattenType DEF TextSection, Words
  <2> QED
    BY <2>1 DEF SectionTables
<1>3. \A s \in 0..N : SubSeq(doc.sections, 1, s) \in SeqOver(TextSection) /\ Gather(f, SubSeq(doc.sections, 1, s)) \in Words
  <2>1. \A s \in 0..N : SubSeq(doc.sections, 1, s) \in SeqOver(TextSection)
    BY Beginnings
  <2> HIDE DEF f, N
  <2> QED
    BY <1>2, <2>1, GatherType DEF Words
<1>4. \A s \in 0..(N - 1) : SubSeq(doc.sections, 1, s + 1) = Append(SubSeq(doc.sections, 1, s), doc.sections[s + 1])
                            /\ doc.sections[s + 1] \in TextSection
  BY Beginnings
<1>5. \A s \in 0..(N - 1) : Gather(f, SubSeq(doc.sections, 1, s + 1)) = Join(Gather(f, SubSeq(doc.sections, 1, s)), f[doc.sections[s + 1]])
  <2> TAKE s \in 0..(N - 1)
  <2>1. s \in 0..N
    BY <1>1
  <2> HIDE DEF f, N
  <2> QED
    BY <1>2, <1>3, <1>4, <2>1, GatherAppend DEF Words
<1>6. \A s \in 0..(N - 1) : f[doc.sections[s + 1]] = FlattenSeq(doc.sections[s + 1].tables)
  BY <1>4 DEF SectionTables
<1>7. SubSeq(doc.sections, 1, N) = doc.sections
  BY Beginnings
<1>8. \A s \in 0..N : TablesRead(s) = Gather(f, SubSeq(doc.sections, 1, s))
  BY <1>1 DEF TablesRead
<1>9. TablesRead(N + 1) = Join(Gather(f, doc.sections), FlattenSeq(doc.orphans))
  BY <1>1 DEF TablesRead
<1>10. \A s \in 0..(N - 1) : s \in 0..N /\ s + 1 \in 0..N
  BY <1>1
<1>11. N \in 0..N
  BY <1>1
<1> HIDE DEF f, N
<1>12. \A s \in 0..(N - 1) : TablesRead(s + 1) = Join(TablesRead(s), FlattenSeq(doc.sections[s + 1].tables)) /\ TablesRead(s) \in Words
  BY <1>3, <1>5, <1>6, <1>8, <1>10
<1>13. TablesRead(N + 1) = Join(TablesRead(N), FlattenSeq(doc.orphans)) /\ TablesRead(N) \in Words
  BY <1>3, <1>7, <1>8, <1>9, <1>11
<1> QED
  BY <1>12, <1>13 DEF N

LEMMA FutureSilent ==
  ASSUME chunks \in SeqOver(TextChunk), NEW s \in Nat, NEW t, Placed(chunks, s, t), NEW k \in Nat, k > s
  PROVE  Told(TextChunk, chunks, SectionKids(k)) = <<>>
<1>1. \A i \in DOMAIN chunks : chunks[i] \in TextChunk /\ chunks[i].section \in Nat /\ chunks[i].section <= s
  BY ChunkFields DEF Placed, TextChunk
<1>2. \A i \in DOMAIN chunks : chunks[i] \notin SectionKids(k)
  BY <1>1 DEF SectionKids
<1> QED
  BY <1>2, TextSpeaks, ToldNone

LEMMA TellsWords == ASSUME chunks \in SeqOver(TextChunk) PROVE \A S : Told(TextChunk, chunks, S) \in Words
BY TextSpeaks, ToldType DEF Words

\* The next section: nothing of it has been told, and its tables are still to come.
LEMMA SectionOpens ==
  ASSUME TextInv, OpenSection
  PROVE  TextInv'
<1> DEFINE here == doc.sections[section + 1]
<1>1. /\ parents = <<>> /\ tables = <<>> /\ section < Len(doc.sections) /\ section' = section + 1
      /\ parents' = SplitByParagraphs(here.paragraphs) /\ tables' = here.tables
      /\ tableParent' = 0 /\ doc' = doc /\ root' = root /\ childOrd' = childOrd /\ parentOrd' = parentOrd /\ chunks' = chunks
  BY DEF OpenSection, NoParent
<1>2. /\ Len(doc.sections) \in Nat /\ DOMAIN doc.sections = 1..Len(doc.sections)
      /\ section \in Nat /\ section + 1 \in DOMAIN doc.sections
      /\ doc.sections \in SeqOver(TextSection) /\ chunks \in SeqOver(TextChunk)
  BY <1>1, Items DEF TextInv, TextTyped
<1>3. here \in TextSection
  BY <1>2, Items
<1>4. here.paragraphs \in SeqOver(Filled) /\ here.tables \in SeqOver(Words)
  BY <1>3 DEF TextSection
<1>5. /\ parents' \in SeqOver(Filled) /\ FlattenSeq(parents') = FlattenSeq(here.paragraphs)
      /\ \A r \in ToSet(parents') : Len(r) <= MaxParentTokens \/ r \in ToSet(here.paragraphs)
  BY <1>1, <1>4, SplitKeeps
<1> HIDE DEF here
<1>6. TextTyped'
  BY <1>1, <1>2, <1>4, <1>5 DEF TextInv, TextTyped
<1>7. Placed(chunks, section + 1, 0) /\ NoTables(chunks, section + 1)
  <2>1. \A i \in DOMAIN chunks : chunks[i].section <= section /\ chunks[i].section \in Nat
    BY <1>2, ChunkFields DEF TextInv, TextPlaced, Placed, TextChunk
  <2>2. 0 \in 0..Len(chunks)
    BY <1>2, Items
  <2> QED
    BY <1>2, <2>1, <2>2 DEF TextInv, TextPlaced, Placed, NoTables
<1>8. TextPlaced'
  BY <1>1, <1>7 DEF TextInv, TextPlaced
<1>9. TextCut'
  <2>1. \A r \in ToSet(parents') : ParentSized(r, section)'
    BY <1>1, <1>2, <1>5 DEF ParentSized, here
  <2>2. ParentsSized(chunks)'
    BY <1>1 DEF TextInv, TextCut, ParentsSized, ParentSized
  <2> QED
    BY <1>1, <2>1, <2>2 DEF TextInv, TextCut, ParentSized
<1>10. TablesRead(section)' = TablesRead(section + 1)
  BY <1>1 DEF TablesRead
<1>11. Join(Told(TextChunk, chunks, TableKids), FlattenSeq(tables')) = TablesRead(section + 1)
  <2>1. section \in 0..(Len(doc.sections) - 1)
    BY <1>1, <1>2
  <2>2. TablesRead(section + 1) = Join(TablesRead(section), FlattenSeq(here.tables))
    BY <1>2, <2>1, TablesReadOn DEF here
  <2>3. Join(Told(TextChunk, chunks, TableKids), <<>>) = TablesRead(section)
    BY <1>1, FlattenNothing DEF TextInv, TextTold
  <2>4. Told(TextChunk, chunks, TableKids) = TablesRead(section)
    BY <1>2, <2>3, TellsWords, JoinNothing DEF Words
  <2> QED
    BY <1>1, <2>2, <2>4
<1>12. ASSUME NEW k \in DOMAIN doc.sections, k <= section + 1
       PROVE  Join(Told(TextChunk, chunks, SectionKids(k)), IF k = section + 1 THEN FlattenSeq(parents') ELSE <<>>)
                = FlattenSeq(doc.sections[k].paragraphs)
  <2>1. CASE k = section + 1
    <3>1. Told(TextChunk, chunks, SectionKids(k)) = <<>>
      <4>1. Placed(chunks, section, tableParent) /\ k \in Nat /\ k > section
        BY <1>2, <2>1 DEF TextInv, TextPlaced
      <4> QED
        BY <1>2, <4>1, FutureSilent
    <3>2. FlattenSeq(parents') \in Words
      <4>1. parents' \in SeqOver(Words)
        BY <1>5 DEF Filled, SeqOver
      <4> QED
        BY <4>1, FlattenType DEF Words
    <3>3. Join(<<>>, FlattenSeq(parents')) = FlattenSeq(parents')
      BY <3>2, JoinNothing DEF Words
    <3> QED
      BY <1>5, <2>1, <3>1, <3>3 DEF here
  <2>2. CASE k # section + 1
    <3>1. k <= section
      BY <1>2, <1>12, <2>2
    <3>2. Join(Told(TextChunk, chunks, SectionKids(k)), IF k = section THEN FlattenSeq(parents) ELSE <<>>)
            = FlattenSeq(doc.sections[k].paragraphs)
      BY <3>1 DEF TextInv, TextTold, SectionsTold
    <3>3. FlattenSeq(parents) = <<>>
      BY <1>1, FlattenNothing
    <3> QED
      BY <2>2, <3>2, <3>3
  <2> QED
    BY <2>1, <2>2
<1>13. TextTold'
  BY <1>1, <1>10, <1>11, <1>12 DEF TextTold, SectionsTold
<1> QED
  BY <1>6, <1>8, <1>9, <1>13 DEF TextInv

\* After the sections, the orphan tables.
LEMMA OrphansOpen ==
  ASSUME TextInv, OpenOrphans
  PROVE  TextInv'
<1>1. /\ parents = <<>> /\ tables = <<>> /\ section = Len(doc.sections) /\ section' = section + 1
      /\ parents' = parents /\ tables' = doc.orphans
      /\ tableParent' = 0 /\ doc' = doc /\ root' = root /\ childOrd' = childOrd /\ parentOrd' = parentOrd /\ chunks' = chunks
  BY DEF OpenOrphans, NoParent
<1>2. /\ Len(doc.sections) \in Nat /\ DOMAIN doc.sections = 1..Len(doc.sections)
      /\ section \in Nat /\ doc.sections \in SeqOver(TextSection) /\ chunks \in SeqOver(TextChunk)
  BY <1>1, Items DEF TextInv, TextTyped
<1>3. TextTyped'
  BY <1>1, <1>2 DEF TextInv, TextTyped
<1>4. Placed(chunks, section + 1, 0)
  <2>1. \A i \in DOMAIN chunks : chunks[i].section <= section /\ chunks[i].section \in Nat
    BY <1>2, ChunkFields DEF TextInv, TextPlaced, Placed, TextChunk
  <2>2. 0 \in 0..Len(chunks)
    BY <1>2, Items
  <2> QED
    BY <1>2, <2>1, <2>2 DEF TextInv, TextPlaced, Placed
<1>5. TextPlaced'
  BY <1>1, <1>4 DEF TextInv, TextPlaced
<1>6. TextCut'
  <2>1. ToSet(parents') = {}
    BY <1>1, ToSetNothing
  <2>2. ParentsSized(chunks)'
    BY <1>1 DEF TextInv, TextCut, ParentsSized, ParentSized
  <2> QED
    BY <1>1, <2>1, <2>2 DEF TextInv, TextCut
<1>7. TablesRead(section)' = TablesRead(section + 1)
  BY <1>1 DEF TablesRead
<1>8. Join(Told(TextChunk, chunks, TableKids), FlattenSeq(tables')) = TablesRead(section + 1)
  <2>1. TablesRead(section + 1) = Join(TablesRead(section), FlattenSeq(doc.orphans))
    BY <1>1, <1>2, TablesReadOn
  <2>2. Join(Told(TextChunk, chunks, TableKids), <<>>) = TablesRead(section)
    BY <1>1, FlattenNothing DEF TextInv, TextTold
  <2>3. Told(TextChunk, chunks, TableKids) = TablesRead(section)
    BY <1>2, <2>2, TellsWords, JoinNothing DEF Words
  <2> QED
    BY <1>1, <2>1, <2>3
<1>9. ASSUME NEW k \in DOMAIN doc.sections, k <= section + 1
      PROVE  Join(Told(TextChunk, chunks, SectionKids(k)), IF k = section + 1 THEN FlattenSeq(parents') ELSE <<>>)
               = FlattenSeq(doc.sections[k].paragraphs)
  <2>1. k <= section /\ k # section + 1
    BY <1>1, <1>2
  <2>2. Join(Told(TextChunk, chunks, SectionKids(k)), IF k = section THEN FlattenSeq(parents) ELSE <<>>)
          = FlattenSeq(doc.sections[k].paragraphs)
    BY <2>1 DEF TextInv, TextTold, SectionsTold
  <2>3. FlattenSeq(parents) = <<>>
    BY <1>1, FlattenNothing
  <2> QED
    BY <2>1, <2>2, <2>3
<1>10. TextTold'
  BY <1>1, <1>7, <1>8, <1>9 DEF TextTold, SectionsTold
<1> QED
  BY <1>3, <1>5, <1>6, <1>10 DEF TextInv

\* A parent and its children.
LEMMA ParentEmitted ==
  ASSUME TextInv, EmitParent
  PROVE  TextInv'
<1> DEFINE text == Head(parents)
           here == Len(chunks) + 1
           h == Chunk("parent", "text", NoParent, parentOrd, section, text)
           base == Append(chunks, h)
<1>1. PICK split \in IF Len(text) < MinChildTokens THEN {<<text>>} ELSE {MergeSmall(p) : p \in Splits(text)} :
        /\ chunks' = base \o ChildChunks("text", here, section, split)
        /\ childOrd' = childOrd + Len(split)
        /\ tableParent' = IF tableParent = 0 THEN here ELSE tableParent
  BY DEF EmitParent, NoParent
<1>2. /\ parents # <<>> /\ parentOrd' = parentOrd + 1 /\ parents' = Tail(parents)
      /\ doc' = doc /\ section' = section /\ tables' = tables /\ root' = root
  BY DEF EmitParent
<1> DEFINE kids == ChildChunks("text", here, section, split)
<1>3. /\ text \in Filled /\ text \in Words /\ parents' \in SeqOver(Filled) /\ parents = Join(<<text>>, parents')
      /\ FlattenSeq(parents) = Join(text, FlattenSeq(parents')) /\ FlattenSeq(parents') \in Words
  <2>1. parents \in SeqOver(Filled) /\ parents # <<>>
    BY <1>2 DEF TextInv, TextTyped
  <2>2. text \in Filled /\ parents' \in SeqOver(Filled) /\ parents = Join(<<text>>, parents')
    BY <1>2, <2>1, HeadTail
  <2>3. parents \in SeqOver(Words) /\ parents' \in SeqOver(Words)
    BY <2>1, <2>2 DEF Filled, SeqOver
  <2>4. FlattenSeq(parents) = Join(text, FlattenSeq(parents'))
    BY <1>2, <2>3, FlattenCons DEF Words
  <2> QED
    BY <2>2, <2>3, <2>4, FlattenType DEF Filled, Words
<1> HIDE DEF text
<1>4. /\ split \in SeqOver(Words) /\ FlattenSeq(split) = text
      /\ \A k \in DOMAIN split : Len(split[k]) >= MinChildTokens \/ split[k] = text
  BY <1>1, <1>3, SplitOfParent
<1>5. /\ Len(doc.sections) \in Nat /\ DOMAIN doc.sections = 1..Len(doc.sections) /\ section \in DOMAIN doc.sections
      /\ section \in Nat /\ doc.sections \in SeqOver(TextSection) /\ chunks \in SeqOver(TextChunk)
      /\ childOrd \in Nat /\ parentOrd \in Nat /\ Len(chunks) \in Nat /\ DOMAIN chunks = 1..Len(chunks) /\ here \in Nat
      /\ tableParent \in Nat /\ root \in Nat
  <2>1. doc.sections \in SeqOver(TextSection) /\ chunks \in SeqOver(TextChunk)
    BY DEF TextInv, TextTyped
  <2>2. /\ Len(doc.sections) \in Nat /\ DOMAIN doc.sections = 1..Len(doc.sections)
        /\ Len(chunks) \in Nat /\ DOMAIN chunks = 1..Len(chunks)
    BY <2>1, Items
  <2>3. tableParent \in 0..Len(chunks) /\ root \in 0..Len(chunks)
    BY DEF TextInv, TextPlaced, Placed, OneRoot
  <2> QED
    BY <1>2, <2>1, <2>2, <2>3 DEF TextInv, TextTyped
<1>6. h \in TextChunk /\ TextParent(h) /\ h.section = section /\ h.text = text /\ h.ord = parentOrd /\ h.role = "parent"
  BY <1>3, <1>5 DEF TextChunk, ChunkOf, Chunk, TextParent, NoParent
<1> HIDE DEF h
<1>7. /\ base \in SeqOver(TextChunk) /\ base[here] = h /\ here \in DOMAIN base /\ Len(base) = here
  BY <1>5, <1>6, AppendType, AppendItems
<1>8. kids \in SeqOver(TextChunk) /\ Kids(kids, "text", here, childOrd, section, split) /\ Len(kids) = Len(split)
  BY <1>4, <1>5, ChildChunksAre DEF TextChunk
<1>9. chunks' = Join(base, kids)
  BY <1>1 DEF Join
<1> HIDE DEF base, kids
<1>10. chunks' \in SeqOver(TextChunk)
  BY <1>7, <1>8, <1>9, JoinType
<1>11. Len(split) \in Nat
  BY <1>4, Items
<1>12. TextTyped'
  <2>1. childOrd' \in Nat /\ parentOrd' \in Nat /\ section' \in DOMAIN doc'.sections
    BY <1>1, <1>2, <1>5, <1>11
  <2> QED
    BY <1>2, <1>3, <1>10, <2>1 DEF TextInv, TextTyped
<1>13. TextPlaced'
  <2>1. OneRoot(chunks, root) /\ Placed(chunks, section, tableParent) /\ NoTables(chunks, section) /\ Resolved(chunks)
        /\ Numbers(chunks, childOrd, parentOrd)
    BY <1>2 DEF TextInv, TextPlaced
  <2>2. /\ OneRoot(base, root) /\ NoTables(base, section) /\ Resolved(base) /\ Placed(base, section, tableParent')
    BY <1>1, <1>5, <1>6, <2>1, ParentAdded DEF TextChunk, base
  <2>3. tableParent' \in Nat
    BY <1>1, <1>5
  <2>4. /\ OneRoot(chunks', root) /\ NoTables(chunks', section) /\ Resolved(chunks') /\ Placed(chunks', section, tableParent')
    BY <1>5, <1>6, <1>7, <1>8, <1>9, <2>2, <2>3, KidsAdded DEF TextChunk
  <2>5. Numbers(base, childOrd, parentOrd + 1)
    BY <1>5, <1>6, <2>1, NumbersParent DEF TextChunk, base
  <2>6. Numbers(chunks', childOrd + Len(kids), parentOrd + 1)
    <3>1. parentOrd + 1 \in Nat
      BY <1>5
    <3> QED
      BY <1>5, <1>7, <1>8, <1>9, <2>5, <3>1, NumbersKids DEF TextChunk
  <2> QED
    BY <1>1, <1>2, <1>8, <2>4, <2>6 DEF TextPlaced
<1>14. TextCut'
  <2>1. CutUp(chunks) /\ KidsSized(chunks) /\ ParentsSized(chunks) /\ FragmentsSized(chunks) /\ Resolved(chunks)
        /\ \A r \in ToSet(parents) : ParentSized(r, section)
    BY DEF TextInv, TextCut, TextPlaced
  <2>2. ToSet(parents) = {text} \cup ToSet(parents')
    <3>1. <<text>> \in SeqOver(Filled) /\ ToSet(<<text>>) = {text}
      BY <1>3, OneType DEF ToSet
    <3> QED
      BY <1>3, <3>1, ToSetJoin
  <2>3. ParentSized(h.text, h.section)
    BY <1>6, <2>1, <2>2
  <2>4. FlattenSeq(split) = h.text /\ \A k \in DOMAIN split : Len(split[k]) >= MinChildTokens \/ split[k] = h.text
    BY <1>4, <1>6
  <2>5. CutUp(chunks') /\ KidsSized(chunks') /\ ParentsSized(chunks') /\ FragmentsSized(chunks')
    BY <1>4, <1>5, <1>6, <1>8, <1>9, <2>1, <2>3, <2>4, ParentCut DEF base
  <2>6. ParentsSized(chunks)' /\ \A r \in ToSet(parents') : ParentSized(r, section)'
    BY <1>2, <2>1, <2>2, <2>5 DEF ParentsSized, ParentSized
  <2> QED
    BY <1>2, <2>5, <2>6 DEF TextCut, CutUp, KidsSized, FragmentsSized
<1>15. /\ Told(TextChunk, chunks', TableKids) = Told(TextChunk, chunks, TableKids)
       /\ \A k : Told(TextChunk, chunks', SectionKids(k)) =
                   IF k = section THEN Join(Told(TextChunk, chunks, SectionKids(k)), text)
                   ELSE Told(TextChunk, chunks, SectionKids(k))
  <2>1. /\ \A s : Told(TextChunk, base, SectionKids(s)) = Told(TextChunk, chunks, SectionKids(s))
        /\ Told(TextChunk, base, TableKids) = Told(TextChunk, chunks, TableKids)
    BY <1>5, <1>6, HeaderSilent DEF base, TextParent
  <2>2. /\ Told(TextChunk, chunks', TableKids) = Told(TextChunk, base, TableKids)
        /\ \A k : Told(TextChunk, chunks', SectionKids(k)) =
                    IF k = section THEN Join(Told(TextChunk, base, SectionKids(k)), FlattenSeq(split))
                    ELSE Told(TextChunk, base, SectionKids(k))
    BY <1>4, <1>7, <1>8, <1>9, KidsSpeak
  <2> QED
    BY <1>4, <2>1, <2>2
<1>16. TextTold'
  <2>1. TablesRead(section)' = TablesRead(section)
    BY <1>2 DEF TablesRead
  <2>2. ASSUME NEW k \in DOMAIN doc.sections, k <= section
        PROVE  Join(Told(TextChunk, chunks', SectionKids(k)), IF k = section THEN FlattenSeq(parents') ELSE <<>>)
                 = FlattenSeq(doc.sections[k].paragraphs)
    <3>1. Join(Told(TextChunk, chunks, SectionKids(k)), IF k = section THEN FlattenSeq(parents) ELSE <<>>)
            = FlattenSeq(doc.sections[k].paragraphs)
      BY <2>2 DEF TextInv, TextTold, SectionsTold
    <3>2. CASE k = section
      <4>1. Told(TextChunk, chunks, SectionKids(k)) \in Words
        BY <1>5, TellsWords
      <4>2. Join(Join(Told(TextChunk, chunks, SectionKids(k)), text), FlattenSeq(parents'))
              = Join(Told(TextChunk, chunks, SectionKids(k)), FlattenSeq(parents))
        BY <1>3, <4>1, JoinAssociative DEF Words
      <4> QED
        BY <1>15, <3>1, <3>2, <4>2
    <3>3. CASE k # section
      BY <1>15, <3>1, <3>3
    <3> QED
      BY <3>2, <3>3
  <2>3. SectionsTold(chunks, section, parents)'
    BY <1>2, <2>2 DEF SectionsTold
  <2> QED
    BY <1>2, <1>15, <2>1, <2>3 DEF TextInv, TextTold
<1> QED
  BY <1>12, <1>13, <1>14, <1>16 DEF TextInv

\* The fragments of a table, after the root if it is needed.
LEMMA TableEmitted ==
  ASSUME TextInv, EmitTable
  PROVE  TextInv'
<1> DEFINE needsRoot == tableParent = 0 /\ root = 0
           h == Chunk("root", "text", NoParent, 0, section, <<>>)
           base == IF needsRoot THEN Append(chunks, h) ELSE chunks
           under == IF tableParent # 0 THEN tableParent ELSE root'
           rows == Head(tables)
           kids == ChildChunks("table", under, section, Fragments(rows))
<1>1. /\ parents = <<>> /\ tables # <<>> /\ tables' = Tail(tables)
      /\ root' = (IF needsRoot THEN Len(chunks) + 1 ELSE root)
      /\ chunks' = base \o kids /\ childOrd' = childOrd + Len(kids)
      /\ doc' = doc /\ section' = section /\ parents' = parents /\ tableParent' = tableParent /\ parentOrd' = parentOrd
  BY DEF EmitTable, TableChunks, NoParent
<1>2. /\ rows \in Words /\ tables' \in SeqOver(Words)
      /\ FlattenSeq(tables) = Join(rows, FlattenSeq(tables')) /\ FlattenSeq(tables') \in Words
  <2>1. tables \in SeqOver(Words) /\ tables # <<>>
    BY <1>1 DEF TextInv, TextTyped
  <2>2. rows \in Words /\ tables' \in SeqOver(Words)
    BY <1>1, <2>1, HeadTail
  <2>3. FlattenSeq(tables) = Join(rows, FlattenSeq(tables'))
    BY <1>1, <2>1, FlattenCons DEF Words
  <2> QED
    BY <2>2, <2>3, FlattenType DEF Words
<1> HIDE DEF rows
<1> DEFINE texts == Fragments(rows)
<1>3. /\ texts \in SeqOver(Words) /\ FlattenSeq(texts) = rows
      /\ \A k \in DOMAIN texts : TableTokens(texts[k]) <= MaxChildTokens \/ Len(texts[k]) <= 1
  BY <1>2, FragmentsKeep DEF ToSet
<1>4. /\ section \in Nat /\ doc.sections \in SeqOver(TextSection) /\ chunks \in SeqOver(TextChunk)
      /\ childOrd \in Nat /\ parentOrd \in Nat /\ Len(chunks) \in Nat /\ DOMAIN chunks = 1..Len(chunks)
      /\ tableParent \in 0..Len(chunks) /\ root \in 0..Len(chunks) /\ tableParent \in Nat /\ root \in Nat
  <2>1. doc.sections \in SeqOver(TextSection) /\ chunks \in SeqOver(TextChunk)
    BY DEF TextInv, TextTyped
  <2>2. Len(doc.sections) \in Nat /\ Len(chunks) \in Nat /\ DOMAIN chunks = 1..Len(chunks)
    BY <2>1, Items
  <2>3. tableParent \in 0..Len(chunks) /\ root \in 0..Len(chunks)
    BY DEF TextInv, TextPlaced, Placed, OneRoot
  <2> QED
    BY <2>1, <2>2, <2>3 DEF TextInv, TextTyped
<1>5. h \in TextChunk /\ h.role = "root" /\ h.block = "text" /\ h.section = section
  <2>1. <<>> \in Words
    BY EmptyType DEF Words
  <2> QED
    BY <1>4, <2>1 DEF TextChunk, ChunkOf, Chunk, NoParent
<1> HIDE DEF h
<1>6. OneRoot(chunks, root) /\ Placed(chunks, section, tableParent) /\ Resolved(chunks) /\ Numbers(chunks, childOrd, parentOrd)
      /\ CutUp(chunks) /\ KidsSized(chunks) /\ ParentsSized(chunks) /\ FragmentsSized(chunks)
  BY DEF TextInv, TextPlaced, TextCut
<1>7. /\ base \in SeqOver(TextChunk) /\ under \in DOMAIN base /\ root' \in Nat
      /\ OneRoot(base, root') /\ Placed(base, section, tableParent) /\ Resolved(base) /\ Numbers(base, childOrd, parentOrd)
      /\ (TextParent(base[under]) /\ base[under].section = section) \/ (under = root' /\ tableParent = 0)
      /\ CutUp(base) /\ KidsSized(base) /\ ParentsSized(base) /\ FragmentsSized(base)
      /\ \A s : Told(TextChunk, base, SectionKids(s)) = Told(TextChunk, chunks, SectionKids(s))
      /\ Told(TextChunk, base, TableKids) = Told(TextChunk, chunks, TableKids)
  <2>1. CASE needsRoot
    <3>1. base = Append(chunks, h) /\ root' = Len(chunks) + 1 /\ under = Len(chunks) + 1
      BY <1>1, <2>1
    <3>2. base \in SeqOver(TextChunk) /\ Len(chunks) + 1 \in DOMAIN base
      BY <1>4, <1>5, <3>1, AppendType, AppendItems
    <3>3. OneRoot(base, root') /\ Placed(base, section, tableParent) /\ Resolved(base)
      BY <1>4, <1>5, <1>6, <2>1, <3>1, RootAdded DEF TextChunk
    <3>4. \A i \in DOMAIN chunks : chunks[i].role # "root"
      BY <1>4, <1>6, <2>1 DEF OneRoot
    <3>5. Numbers(base, childOrd, parentOrd)
      BY <1>4, <1>5, <1>6, <3>1, <3>4, NumbersRoot DEF TextChunk
    <3>6. CutUp(base) /\ KidsSized(base) /\ ParentsSized(base) /\ FragmentsSized(base)
      BY <1>4, <1>5, <1>6, <3>1, RootCut
    <3>7. /\ \A s : Told(TextChunk, base, SectionKids(s)) = Told(TextChunk, chunks, SectionKids(s))
          /\ Told(TextChunk, base, TableKids) = Told(TextChunk, chunks, TableKids)
      BY <1>4, <1>5, <3>1, HeaderSilent
    <3> HIDE DEF base, under
    <3> QED
      BY <1>4, <2>1, <3>1, <3>2, <3>3, <3>5, <3>6, <3>7
  <2>2. CASE ~needsRoot
    <3>1. base = chunks /\ root' = root
      BY <1>1, <2>2
    <3>4. under = (IF tableParent # 0 THEN tableParent ELSE root) /\ under # 0
      BY <2>2, <3>1
    <3>5. under \in 0..Len(chunks)
      BY <1>4, <3>4
    <3>6. under \in 1..Len(chunks)
      <4> HIDE DEF under
      <4> QED
        BY <1>4, <3>4, <3>5
    <3>2. tableParent # 0 => under = tableParent /\ TextParent(chunks[under]) /\ chunks[under].section = section
      BY <1>6 DEF Placed
    <3>3. tableParent = 0 => under = root'
      OBVIOUS
    <3> HIDE DEF base, under
    <3> QED
      BY <1>4, <1>6, <3>1, <3>2, <3>3, <3>6
  <2> QED
    BY <2>1, <2>2
<1> HIDE DEF base, under
<1>8. under \in Nat
  BY <1>7, Items
<1>9. kids \in SeqOver(TextChunk) /\ Kids(kids, "table", under, childOrd, section, texts) /\ Len(kids) = Len(texts)
  BY <1>3, <1>4, <1>8, ChildChunksAre DEF TextChunk
<1>10. chunks' = Join(base, kids)
  BY <1>1 DEF Join
<1>11. Len(texts) \in Nat
  BY <1>3, Items
<1> HIDE DEF kids, texts
<1>12. chunks' \in SeqOver(TextChunk)
  BY <1>7, <1>9, <1>10, JoinType
<1>13. TextTyped'
  BY <1>1, <1>2, <1>4, <1>9, <1>11, <1>12 DEF TextInv, TextTyped
<1>14. TextPlaced'
  <2>1. OneRoot(chunks', root') /\ Resolved(chunks') /\ Placed(chunks', section, tableParent)
    BY <1>4, <1>7, <1>9, <1>10, KidsAdded DEF TextChunk
  <2>2. Numbers(chunks', childOrd + Len(kids), parentOrd)
    BY <1>4, <1>7, <1>9, <1>10, NumbersKids DEF TextChunk
  <2> QED
    BY <1>1, <2>1, <2>2 DEF TextPlaced
<1>15. TextCut'
  <2>1. CutUp(chunks') /\ KidsSized(chunks') /\ ParentsSized(chunks') /\ FragmentsSized(chunks')
    BY <1>3, <1>7, <1>9, <1>10, TableCut
  <2>2. ParentsSized(chunks)'
    BY <1>1, <2>1 DEF ParentsSized, ParentSized
  <2>3. ToSet(parents') = {}
    BY <1>1, ToSetNothing
  <2> QED
    BY <2>1, <2>2, <2>3 DEF TextCut, CutUp, KidsSized, FragmentsSized
<1>16. /\ Told(TextChunk, chunks', TableKids) = Join(Told(TextChunk, chunks, TableKids), rows)
       /\ \A k : Told(TextChunk, chunks', SectionKids(k)) = Told(TextChunk, chunks, SectionKids(k))
  <2>1. /\ Told(TextChunk, chunks', TableKids) = Join(Told(TextChunk, base, TableKids), FlattenSeq(texts))
        /\ \A k : Told(TextChunk, chunks', SectionKids(k)) = Told(TextChunk, base, SectionKids(k))
    BY <1>3, <1>7, <1>9, <1>10, KidsSpeak
  <2> QED
    BY <1>3, <1>7, <2>1
<1>17. TextTold'
  <2>1. TablesRead(section)' = TablesRead(section)
    BY <1>1 DEF TablesRead
  <2>2. SectionsTold(chunks, section, parents)'
    BY <1>1, <1>16 DEF TextInv, TextTold, SectionsTold
  <2>3. Told(TextChunk, chunks, TableKids) \in Words
    BY <1>4, TellsWords
  <2>4. Join(Join(Told(TextChunk, chunks, TableKids), rows), FlattenSeq(tables'))
          = Join(Told(TextChunk, chunks, TableKids), FlattenSeq(tables))
    BY <1>2, <2>3, JoinAssociative DEF Words
  <2> QED
    BY <1>1, <1>16, <2>1, <2>2, <2>4 DEF TextInv, TextTold
<1> QED
  BY <1>13, <1>14, <1>15, <1>17 DEF TextInv

\* What the invariant says of the finished chunks.
LEMMA TextResolved == ASSUME TextInv PROVE ChildrenResolve
BY ResolvedIs DEF TextInv, TextPlaced

LEMMA NumbersDiffer == ASSUME NEW c, NEW p, Numbers(chunks, c, p) PROVE OrdinalsDistinct
BY DEF Numbers, OrdinalsDistinct

LEMMA TextIsTyped ==
  ASSUME TextInv
  PROVE  TextTypeOK /\ section <= Len(doc.sections) + 1 /\ (doc.type \in TextTypes /\ NeedsEmbeddings => ~TextDone)
<1>1. doc.sections \in SeqOver(TextSection) /\ chunks \in SeqOver(TextChunk)
  BY DEF TextInv, TextTyped
<1>2. Len(doc.sections) \in Nat /\ DOMAIN doc.sections = 1..Len(doc.sections)
  BY <1>1, Items
<1>3. \A i \in DOMAIN chunks : chunks[i].role \in {"root", "parent", "child"}
  BY <1>1, ChunkFields DEF TextChunk
<1>4. TextTypeOK
  BY <1>2, <1>3 DEF TextInv, TextTyped, TextPlaced, OneRoot, Placed, TextTypeOK
<1>5. section <= Len(doc.sections) + 1
  BY <1>2 DEF TextInv, TextTyped
<1>6. ASSUME doc.type \in TextTypes, NeedsEmbeddings PROVE ~TextDone
  <2>1. section = 0 \/ parents # <<>>
    BY <1>6 DEF NeedsEmbeddings, NextSlide, SlideTypes, TextTypes
  <2>2. parents # <<>> => section \in 1..Len(doc.sections)
    BY <1>2 DEF TextInv, TextTyped
  <2> QED
    BY <1>2, <2>1, <2>2 DEF TextDone
<1> QED
  BY <1>4, <1>5, <1>6

LEMMA TextWhole ==
  ASSUME TextInv
  PROVE  ChildrenAreTheirParent /\ SizesKept
<1>1. chunks \in SeqOver(TextChunk)
  BY DEF TextInv, TextTyped
<1>2. ToSet(chunks) \subseteq TextChunk
  BY <1>1, ToSetType
<1>3. ASSUME NEW i PROVE Texts(ChildrenOf(i)) = Told(TextChunk, chunks, TextKids(i))
  <2>1. ChildrenOf(i) = ToSet(chunks) \cap TextKids(i)
    BY <1>2 DEF ChildrenOf, TextKids
  <2>2. Speaks(TextChunk, TextKids(i), Token)
    BY TextSpeaks
  <2> QED
    BY <1>1, <2>1, <2>2, TextsTold
<1>4. ChildrenAreTheirParent
  BY <1>3 DEF TextInv, TextCut, CutUp, TextParent, ChildrenAreTheirParent, ParentsOf
<1>5. SizesKept
  BY DEF TextInv, TextCut, KidsSized, ParentsSized, ParentSized, TextParent, SizesKept, ParentsOf
<1> QED
  BY <1>4, <1>5

LEMMA AllTables ==
  ASSUME doc.sections \in SeqOver(TextSection), doc.orphans \in SeqOver(Words)
  PROVE  FlattenSeq(Tables) = Join(Gather(SectionTables, doc.sections), FlattenSeq(doc.orphans))
<1> DEFINE f == [x \in TextSection |-> x.tables]
           g == [x \in SeqOver(Token) |-> x]
           h == SectionTables
           all == Gather(f, doc.sections)
<1>1. f \in [TextSection -> SeqOver(Words)]
  BY DEF TextSection
<1>2. g \in [Words -> SeqOver(Token)]
  BY DEF Words
<1>3. \A x \in TextSection : f[x] \in SeqOver(Words) /\ h[x] = FlattenSeq(f[x])
  BY <1>1 DEF SectionTables
<1>4. ASSUME NEW ss \in SeqOver(Words) PROVE Gather(g, ss) = FlattenSeq(ss) /\ FlattenSeq(ss) \in Words
  BY FlattenIsGather, FlattenType DEF Words
<1>5. all = FlattenSeq([s \in DOMAIN doc.sections |-> doc.sections[s].tables])
  <2>1. \A s \in DOMAIN doc.sections : f[doc.sections[s]] = doc.sections[s].tables
    BY Items
  <2>2. [s \in DOMAIN doc.sections |-> f[doc.sections[s]]] = [s \in DOMAIN doc.sections |-> doc.sections[s].tables]
    <3> HIDE DEF f
    <3> QED
      BY <2>1
  <2> QED
    BY <2>2, Zenon DEF Gather
<1> HIDE DEF f, g
<1>6. all \in SeqOver(Words)
  BY <1>1, GatherType
<1>7. h \in [TextSection -> SeqOver(Token)]
  <2>1. \A x \in TextSection : FlattenSeq(x.tables) \in SeqOver(Token)
    BY FlattenType DEF TextSection, Words
  <2> QED
    BY <2>1 DEF SectionTables
<1>8. \A x \in TextSection : h[x] = Gather(g, f[x])
  BY <1>3, <1>4
<1>9. Gather(g, all) = Gather(h, doc.sections)
  <2> HIDE DEF h
  <2> QED
    BY <1>1, <1>2, <1>7, <1>8, GatherCompose
<1>10. Tables = Join(all, doc.orphans)
  BY <1>5 DEF Tables, Join
<1>11. FlattenSeq(Join(all, doc.orphans)) = Join(FlattenSeq(all), FlattenSeq(doc.orphans))
  <2> HIDE DEF all
  <2> QED
    BY <1>6, FlattenJoin DEF Words
<1> QED
  BY <1>4, <1>6, <1>9, <1>10, <1>11

LEMMA TextTables ==
  ASSUME TextInv
  PROVE  TablesAreWhole
<1> DEFINE fragments == {c \in ToSet(chunks) : c.block = "table"}
<1>1. chunks \in SeqOver(TextChunk) /\ doc.sections \in SeqOver(TextSection) /\ doc.orphans \in SeqOver(Words)
  BY DEF TextInv, TextTyped
<1>2. Len(doc.sections) \in Nat
  BY <1>1, Items
<1>3. ToSet(chunks) \subseteq TextChunk
  BY <1>1, ToSetType
<1>4. fragments = ToSet(chunks) \cap TableKids
  BY <1>3 DEF TableKids
<1>5. Texts(fragments) = Told(TextChunk, chunks, TableKids)
  <2>1. Speaks(TextChunk, TableKids, Token)
    BY TextSpeaks
  <2> HIDE DEF fragments
  <2> QED
    BY <1>1, <1>4, <2>1, TextsTold
<1>6. ASSUME TextDone PROVE Texts(fragments) = FlattenSeq(Tables)
  <2>1. section = Len(doc.sections) + 1 /\ tables = <<>>
    BY <1>6 DEF TextDone
  <2>2. Join(Told(TextChunk, chunks, TableKids), <<>>) = TablesRead(Len(doc.sections) + 1)
    BY <2>1, FlattenNothing DEF TextInv, TextTold
  <2>3. Told(TextChunk, chunks, TableKids) = TablesRead(Len(doc.sections) + 1)
    BY <1>1, <2>2, TellsWords, JoinNothing DEF Words
  <2>4. TablesRead(Len(doc.sections) + 1) = Join(Gather(SectionTables, doc.sections), FlattenSeq(doc.orphans))
    BY <1>2 DEF TablesRead
  <2> QED
    BY <1>1, <1>5, <2>3, <2>4, AllTables
<1>7. \A c \in fragments : TableTokens(c.text) <= MaxChildTokens \/ Len(c.text) <= 1
  BY DEF TextInv, TextCut, FragmentsSized, ToSet
<1> QED
  BY <1>6, <1>7 DEF TablesAreWhole

LEMMA TextOfSections ==
  ASSUME TextInv, TextDone, NEW s \in DOMAIN doc.sections
  PROVE  Texts({c \in ToSet(chunks) : c.role = "child" /\ c.block = "text" /\ c.section = s})
           = FlattenSeq(doc.sections[s].paragraphs)
<1> DEFINE kids == {c \in ToSet(chunks) : c.role = "child" /\ c.block = "text" /\ c.section = s}
<1>1. chunks \in SeqOver(TextChunk) /\ doc.sections \in SeqOver(TextSection)
  BY DEF TextInv, TextTyped
<1>2. s <= section /\ s # section
  <2>1. Len(doc.sections) \in Nat /\ s \in 1..Len(doc.sections)
    BY <1>1, Items
  <2> QED
    BY <2>1 DEF TextDone
<1>3. ToSet(chunks) \subseteq TextChunk
  BY <1>1, ToSetType
<1>4. kids = ToSet(chunks) \cap SectionKids(s)
  BY <1>3 DEF SectionKids
<1>5. Texts(kids) = Told(TextChunk, chunks, SectionKids(s))
  <2>1. Speaks(TextChunk, SectionKids(s), Token)
    BY TextSpeaks
  <2> HIDE DEF kids
  <2> QED
    BY <1>1, <1>4, <2>1, TextsTold
<1>6. Join(Told(TextChunk, chunks, SectionKids(s)), <<>>) = FlattenSeq(doc.sections[s].paragraphs)
  BY <1>2 DEF TextInv, TextTold, SectionsTold
<1> QED
  BY <1>1, <1>5, <1>6, TellsWords, JoinNothing DEF Words

----------------------------------------------------------------------------
\* The parser and the chunker of tables.

Cell      == STRING \cup {"", "int"}
Row       == {r \in SeqOver(Cell) : r # <<>>}
Header(x) == \/ x.rows = x.grid
             \/ x.rows = Tail(x.grid) /\ \E i \in DOMAIN x.grid[1] : ~IsNumeric(x.grid[1][i])
RowSheet  ==
  {x \in [grid : SeqOver(Row), columns : Nat, rows : SeqOver(Row), sparse : BOOLEAN] : Header(x)}
SheetText == [rows : Nat, columns : Nat, sparse : BOOLEAN, structured : BOOLEAN]
BatchText == [rows : SeqOver(Row), range : Nat \X Nat, sparse : BOOLEAN]

RowChunk  ==
  {c \in ChunkOf(SheetText \cup BatchText) :
     /\ c.block = "row"
     /\ \/ c.role = "parent" /\ c.text \in SheetText
        \/ c.role = "child" /\ c.text \in BatchText}

\* A row of words only has at most half of its cells numbers.
LEMMA HeaderIs ==
  ASSUME NEW grid \in SeqOver(Row), grid # <<>>, DataRows(grid) # grid
  PROVE  DataRows(grid) = Tail(grid) /\ \E i \in DOMAIN grid[1] : ~IsNumeric(grid[1][i])
<1> DEFINE r == grid[1]
<1>1. Len(grid) \in Nat /\ DOMAIN grid = 1..Len(grid) /\ 1 \in DOMAIN grid
  <2>1. Len(grid) \in Nat /\ DOMAIN grid = 1..Len(grid)
    BY Items
  <2>2. Len(grid) # 0
    BY DEF SeqOver
  <2> QED
    BY <2>1, <2>2
<1>2. r \in Row
  BY <1>1, Items
<1>3. r \in SeqOver(Cell) /\ r # <<>>
  BY <1>2 DEF Row
<1> HIDE DEF r
<1>4. Len(r) \in Nat /\ DOMAIN r = 1..Len(r) /\ Len(r) # 0
  <2>1. Len(r) \in Nat /\ DOMAIN r = 1..Len(r)
    BY <1>3, Items
  <2>2. Len(r) # 0
    BY <1>3 DEF SeqOver
  <2> QED
    BY <2>1, <2>2
<1>5. DataRows(grid) = Tail(grid) /\ ~LooksHeaderless(r)
  BY DEF DataRows, r
<1>6. ASSUME \A i \in DOMAIN r : IsNumeric(r[i]) PROVE FALSE
  <2>1. {i \in DOMAIN r : IsNumeric(r[i])} = 1..Len(r)
    BY <1>4, <1>6
  <2>2. Cardinality(1..Len(r)) = Len(r)
    <3>1. Cardinality(1..Len(r)) = IF 1 > Len(r) THEN 0 ELSE Len(r) - 1 + 1
      BY <1>4, FS_Interval
    <3> QED
      BY <1>4, <3>1
  <2>3. ~(2 * Len(r) > Len(r))
    BY <1>5, <2>1, <2>2 DEF LooksHeaderless
  <2> QED
    BY <1>4, <2>3
<1> QED
  BY <1>5, <1>6 DEF r

\* What _parse_sheet makes of rows that have a cell.
LEMMA SheetIs ==
  ASSUME NEW n \in Nat, NEW raw \in [1..n -> RowPatterns]
  PROVE  Sheet(raw) \in RowSheet
<1> DEFINE cells(r) == [i \in DOMAIN raw[r] |-> CoerceCell(raw[r][i])]
           grid == [r \in DOMAIN raw |-> [i \in DOMAIN raw[r] |-> CoerceCell(raw[r][i])]]
           rows == IF grid = <<>> THEN <<>> ELSE DataRows(grid)
<1>1. \A r \in 1..n : grid[r] \in Row
  <2> TAKE r \in 1..n
  <2>1. raw[r] \in Seq(STRING) /\ raw[r] # <<>>
    BY RowPatternsAssumption
  <2>2. Len(raw[r]) \in Nat /\ DOMAIN raw[r] = 1..Len(raw[r]) /\ Len(raw[r]) # 0
    BY <2>1
  <2>3. \A i \in DOMAIN raw[r] : CoerceCell(raw[r][i]) \in Cell
    <3>1. ASSUME NEW c \in STRING PROVE CoerceCell(c) \in Cell
      <4>1. CASE c \in {"nan", "blank"}
        BY <4>1 DEF CoerceCell, Cell
      <4>2. CASE c = "whole float"
        BY <4>2 DEF CoerceCell, Cell
      <4>3. CASE c \notin {"nan", "blank"} /\ c # "whole float"
        BY <4>3 DEF CoerceCell, Cell
      <4> QED
        BY <4>1, <4>2, <4>3
    <3>2. \A i \in DOMAIN raw[r] : raw[r][i] \in STRING
      BY <2>1
    <3> QED
      BY <3>1, <3>2
  <2>4. cells(r) \in [1..Len(raw[r]) -> Cell]
    BY <2>2, <2>3
  <2>5. cells(r) \in SeqOver(Cell)
    <3> HIDE DEF cells
    <3> QED
      BY <2>2, <2>4, Listed
  <2>6. cells(r) # <<>>
    <3>1. 1 \in DOMAIN cells(r)
      BY <2>2
    <3> QED
      BY <3>1
  <2>7. grid[r] = cells(r)
    OBVIOUS
  <2> QED
    BY <2>5, <2>6, <2>7 DEF Row
<1>2. grid \in SeqOver(Row)
  <2>1. grid \in [1..n -> Row]
    BY <1>1
  <2> QED
    BY <2>1, Listed
<1>3. Sheet(raw) = [grid |-> grid, columns |-> IF grid = <<>> THEN 0 ELSE Len(grid[1]), rows |-> rows, sparse |-> IsSparse(rows)]
  BY Zenon DEF Sheet
<1> HIDE DEF grid
<1>4. CASE grid = <<>>
  <2>1. rows = <<>> /\ rows \in SeqOver(Row)
    BY <1>4, EmptyType
  <2>2. IsSparse(rows) \in BOOLEAN
    BY DEF IsSparse
  <2> HIDE DEF rows
  <2> QED
    BY <1>2, <1>3, <1>4, <2>1, <2>2 DEF RowSheet, Header
<1>5. CASE grid # <<>>
  <2>1. rows = DataRows(grid)
    BY <1>5
  <2>2. DataRows(grid) \in {grid, Tail(grid)}
    BY DEF DataRows
  <2>3. Tail(grid) \in SeqOver(Row) /\ Len(grid[1]) \in Nat
    <3>1. Tail(grid) \in SeqOver(Row) /\ Head(grid) \in Row /\ Head(grid) = grid[1]
      BY <1>2, <1>5, HeadTail DEF SeqOver
    <3>2. grid[1] \in SeqOver(Cell)
      BY <3>1 DEF Row
    <3> QED
      BY <3>1, <3>2, Items
  <2>4. IsSparse(rows) \in BOOLEAN
    BY DEF IsSparse
  <2>5. rows = grid \/ (rows = Tail(grid) /\ \E i \in DOMAIN grid[1] : ~IsNumeric(grid[1][i]))
    <3>1. DataRows(grid) # grid => DataRows(grid) = Tail(grid) /\ \E i \in DOMAIN grid[1] : ~IsNumeric(grid[1][i])
      BY <1>2, <1>5, HeaderIs
    <3> HIDE DEF rows
    <3> QED
      BY <2>1, <3>1
  <2>6. rows \in SeqOver(Row)
    BY <1>2, <2>1, <2>2, <2>3
  <2> HIDE DEF rows
  <2> QED
    BY <1>2, <1>3, <1>5, <2>3, <2>4, <2>5, <2>6 DEF RowSheet, Header
<1> QED
  BY <1>4, <1>5

\* Rows numbered on from a.
Count(a, n) == [k \in 1..n |-> a + k]

LEMMA CountIs ==
  ASSUME NEW a \in Nat, NEW n \in Nat
  PROVE  /\ Count(a, n) \in SeqOver(Nat) /\ Len(Count(a, n)) = n /\ Count(a, 0) = <<>>
         /\ Count(a, n) = <<>> <=> n = 0
         /\ Append(Count(a, n), a + n + 1) = Count(a, n + 1)
         /\ n # 0 => /\ Head(Count(a, n)) = a + 1 /\ Tail(Count(a, n)) = Count(a + 1, n - 1)
                     /\ Last(Count(a, n)) = a + n /\ \A k \in 1..n : Count(a, n)[k] = a + k
<1>1. Count(a, n) \in [1..n -> Nat] /\ \A k \in 1..n : Count(a, n)[k] = a + k
  BY DEF Count
<1>2. Count(a, n) \in SeqOver(Nat)
  BY <1>1, Listed
<1>3. Len(Count(a, n)) = n
  <2>1. Len(Count(a, n)) \in Nat /\ DOMAIN Count(a, n) = 1..Len(Count(a, n)) /\ DOMAIN Count(a, n) = 1..n
    BY <1>1, <1>2, Items
  <2> QED
    BY <2>1, SameLength
<1>4. Count(a, 0) = <<>>
  <2>1. 1..0 = {}
    OBVIOUS
  <2> QED
    BY <2>1 DEF Count
<1>5. Count(a, n) = <<>> <=> n = 0
  BY <1>3, <1>4
<1>6. Append(Count(a, n), a + n + 1) = Count(a, n + 1)
  <2>1. Append(Count(a, n), a + n + 1) = [k \in 1..(n + 1) |-> IF k = n + 1 THEN a + n + 1 ELSE Count(a, n)[k]]
    BY <1>2, <1>3 DEF SeqOver
  <2>2. \A k \in 1..(n + 1) : (IF k = n + 1 THEN a + n + 1 ELSE Count(a, n)[k]) = a + k
    <3>1. \A k \in 1..(n + 1) : k # n + 1 => k \in 1..n
      OBVIOUS
    <3> QED
      BY <1>1, <3>1
  <2> QED
    BY <2>1, <2>2 DEF Count
<1>7. ASSUME n # 0
      PROVE  /\ Head(Count(a, n)) = a + 1 /\ Tail(Count(a, n)) = Count(a + 1, n - 1)
             /\ Last(Count(a, n)) = a + n
  <2>1. 1 \in 1..n /\ n \in 1..n
    BY <1>7
  <2>2. Head(Count(a, n)) = a + 1 /\ Last(Count(a, n)) = a + n
    BY <1>1, <1>2, <1>3, <2>1 DEF SeqOver, Last
  <2>3. Tail(Count(a, n)) = [k \in 1..(n - 1) |-> Count(a, n)[k + 1]]
    BY <1>2, <1>3, <1>5, <1>7, TailIs
  <2>4. \A k \in 1..(n - 1) : Count(a, n)[k + 1] = (a + 1) + k
    <3>1. \A k \in 1..(n - 1) : k + 1 \in 1..n
      OBVIOUS
    <3> QED
      BY <1>1, <3>1
  <2> QED
    BY <2>2, <2>3, <2>4 DEF Count
<1> QED
  BY <1>1, <1>2, <1>3, <1>4, <1>5, <1>6, <1>7

\* count_tokens of a batch.
LEMMA TokensGrow ==
  ASSUME NEW rows \in SeqOver(Row), NEW r \in Row
  PROVE  /\ BatchTokens(rows) \in Nat /\ BatchTokens(<<>>) = 0
         /\ BatchTokens(rows) <= BatchTokens(Append(rows, r)) /\ BatchTokens(Append(rows, r)) \in Nat
<1> DEFINE f == [x \in Row |-> Line(x)]
<1>1. f \in [Row -> SeqOver(Cell)]
  <2>1. ASSUME NEW x \in Row PROVE Line(x) \in SeqOver(Cell)
    <3>1. x \in SeqOver(Cell)
      BY DEF Row
    <3>2. Only(x, ToSet(x) \ {""}) \in SeqOver(Cell)
      BY <3>1, OnlyType
    <3> QED
      BY <3>1, <3>2, JoinType DEF Line, Join
  <2> QED
    BY <2>1
<1>2. ASSUME NEW s \in SeqOver(Row) PROVE BatchTokens(s) = Len(Gather(f, s)) /\ Gather(f, s) \in SeqOver(Cell)
  <2>1. \A k \in DOMAIN s : f[s[k]] = Line(s[k])
    BY Items
  <2>2. [k \in DOMAIN s |-> f[s[k]]] = [k \in DOMAIN s |-> Line(s[k])]
    <3> HIDE DEF f
    <3> QED
      BY <2>1
  <2>3. Gather(f, s) = FlattenSeq([k \in DOMAIN s |-> Line(s[k])])
    BY <2>2, Zenon DEF Gather
  <2> HIDE DEF f
  <2> QED
    BY <1>1, <2>3, GatherType DEF BatchTokens
<1>3. Append(rows, r) \in SeqOver(Row) /\ <<>> \in SeqOver(Row)
  BY AppendType, EmptyType
<1> HIDE DEF f
<1>4. Gather(f, Append(rows, r)) = Join(Gather(f, rows), f[r])
  BY <1>1, GatherAppend
<1>5. f[r] \in SeqOver(Cell) /\ Gather(f, rows) \in SeqOver(Cell)
  BY <1>1, <1>2
<1>6. Len(Join(Gather(f, rows), f[r])) = Len(Gather(f, rows)) + Len(f[r])
  BY <1>5, JoinItems
<1>7. Len(f[r]) \in Nat /\ Len(Gather(f, rows)) \in Nat
  BY <1>5, Items
<1>8. BatchTokens(<<>>) = 0
  BY <1>2, <1>3, GatherNothing
<1> QED
  BY <1>2, <1>3, <1>4, <1>6, <1>7, <1>8

BatchKids(s)   == {c \in RowChunk : c.role = "child" /\ c.section = s}
Batch          == {c \in RowChunk : c.role = "child"}
Batches(cs, s) == Only(cs, BatchKids(s))

\* The batches bs tile the first rows of a sheet; when more rows come, the last one is
\* filled too.
BatchRows  == [c \in Batch |-> c.text.rows]
Until(bs)  == IF bs = <<>> THEN 0 ELSE bs[Len(bs)].text.range[2] + 1
Chained(bs) ==
  \A b \in DOMAIN bs :
    /\ bs[b].text.range[2] - bs[b].text.range[1] + 1 = Len(bs[b].text.rows)
    /\ bs[b].text.range[1] = IF b = 1 THEN 0 ELSE bs[b - 1].text.range[2] + 1
Tiled(bs, rows) ==
  /\ Chained(bs)
  /\ Until(bs) \in 0..Len(rows)
  /\ Gather(BatchRows, bs) = SubSeq(rows, 1, Until(bs))
IsFilled(rows) == Len(rows) = MaxRowsPerChunk \/ BatchTokens(rows) >= RowBatchTargetTokens

Packed(bs) ==
  \A b \in DOMAIN bs :
    /\ Len(bs[b].text.rows) <= MaxRowsPerChunk
    /\ BatchTokens(Front(bs[b].text.rows)) < RowBatchTargetTokens
    /\ b < Len(bs) => IsFilled(bs[b].text.rows)
LastFilled(bs) == bs # <<>> => IsFilled(bs[Len(bs)].text.rows)

LEMMA BatchTyped ==
  ASSUME NEW c \in Batch
  PROVE  /\ c.text.rows \in SeqOver(Row) /\ c.text.range[1] \in Nat /\ c.text.range[2] \in Nat
         /\ c.role = "child" /\ c.section \in Nat
BY DEF Batch, RowChunk, BatchText, ChunkOf

LEMMA BatchAdded ==
  ASSUME NEW bs \in SeqOver(Batch), NEW rows \in SeqOver(Row), Tiled(bs, rows), Packed(bs), LastFilled(bs),
         NEW p \in Nat, p = Until(bs), NEW n \in Nat, n >= 1, p + n <= Len(rows), n <= MaxRowsPerChunk,
         NEW c \in Batch, c.text.rows = Run(rows, p, n), c.text.range = <<p, p + n - 1>>,
         BatchTokens(Front(c.text.rows)) < RowBatchTargetTokens
  PROVE  /\ Append(bs, c) \in SeqOver(Batch) /\ Until(Append(bs, c)) = p + n
         /\ Tiled(Append(bs, c), rows) /\ Packed(Append(bs, c))
         /\ IsFilled(c.text.rows) => LastFilled(Append(bs, c))
<1> DEFINE new == Append(bs, c)
<1>1. /\ new \in SeqOver(Batch) /\ Len(new) = Len(bs) + 1 /\ new[Len(bs) + 1] = c
      /\ Len(bs) \in Nat /\ DOMAIN bs = 1..Len(bs)
      /\ \A b \in DOMAIN bs : new[b] = bs[b]
      /\ \A b \in DOMAIN new : b \in DOMAIN bs \/ b = Len(bs) + 1
  BY AppendType, AppendItems, Items
<1>2. new # <<>>
  <2>1. Len(<<>>) = 0
    OBVIOUS
  <2> HIDE DEF new
  <2> QED
    BY <1>1, <2>1
<1>3. Gather(BatchRows, new) = SubSeq(rows, 1, p + n) /\ Len(c.text.rows) = n
  <2>1. BatchRows \in [Batch -> SeqOver(Row)]
    BY BatchTyped DEF BatchRows
  <2>2. Gather(BatchRows, new) = Join(Gather(BatchRows, bs), BatchRows[c])
    BY <2>1, GatherAppend
  <2>3. BatchRows[c] = c.text.rows
    BY DEF BatchRows
  <2>4. Gather(BatchRows, bs) = SubSeq(rows, 1, p)
    BY DEF Tiled
  <2>5. Len(Run(rows, p, n)) = n /\ Join(SubSeq(rows, 1, p), Run(rows, p, n)) = SubSeq(rows, 1, p + n)
    BY SubSeqGrows
  <2> HIDE DEF new
  <2> QED
    BY <2>2, <2>3, <2>4, <2>5
<1> HIDE DEF new
<1>4. c.text.range[1] = p /\ c.text.range[2] = p + n - 1
  OBVIOUS
<1>5. Until(new) = p + n
  BY <1>1, <1>2, <1>4 DEF Until
<1>6. Until(new) \in 0..Len(rows)
  <2>1. Len(rows) \in Nat
    BY Items
  <2> QED
    BY <1>5, <2>1
<1>7. Chained(new)
  <2> SUFFICES ASSUME NEW b \in DOMAIN new
               PROVE  /\ new[b].text.range[2] - new[b].text.range[1] + 1 = Len(new[b].text.rows)
                      /\ new[b].text.range[1] = IF b = 1 THEN 0 ELSE new[b - 1].text.range[2] + 1
    BY DEF Chained
  <2>1. CASE b \in DOMAIN bs
    <3>1. b # 1 => b - 1 \in DOMAIN bs
      BY <1>1, <2>1
    <3>2. new[b] = bs[b] /\ (b # 1 => new[b - 1] = bs[b - 1])
      BY <1>1, <2>1, <3>1
    <3>3. /\ bs[b].text.range[2] - bs[b].text.range[1] + 1 = Len(bs[b].text.rows)
          /\ bs[b].text.range[1] = IF b = 1 THEN 0 ELSE bs[b - 1].text.range[2] + 1
      BY <2>1 DEF Tiled, Chained
    <3> QED
      BY <3>2, <3>3
  <2>2. CASE b = Len(bs) + 1
    <3>1. new[b] = c /\ (p + n - 1) - p + 1 = n
      BY <1>1, <2>2
    <3>2. CASE bs = <<>>
      <4>1. b = 1 /\ p = 0
        BY <2>2, <3>2 DEF Until
      <4> QED
        BY <1>3, <1>4, <3>1, <4>1
    <3>3. CASE bs # <<>>
      <4>1. Len(bs) # 0
        BY <3>3 DEF SeqOver
      <4>2. b # 1 /\ b - 1 = Len(bs) /\ Len(bs) \in DOMAIN bs
        BY <1>1, <2>2, <4>1
      <4>3. p = bs[Len(bs)].text.range[2] + 1 /\ new[b - 1] = bs[Len(bs)]
        BY <1>1, <3>3, <4>2 DEF Until
      <4> QED
        BY <1>3, <1>4, <3>1, <4>2, <4>3
    <3> QED
      BY <3>2, <3>3
  <2> QED
    BY <1>1, <2>1, <2>2
<1>8. Packed(new)
  <2> SUFFICES ASSUME NEW b \in DOMAIN new
               PROVE  /\ Len(new[b].text.rows) <= MaxRowsPerChunk
                      /\ BatchTokens(Front(new[b].text.rows)) < RowBatchTargetTokens
                      /\ b < Len(new) => IsFilled(new[b].text.rows)
    BY DEF Packed
  <2>1. CASE b \in DOMAIN bs
    <3>1. b < Len(bs) \/ (bs # <<>> /\ b = Len(bs))
      BY <1>1, <2>1
    <3> QED
      BY <1>1, <2>1, <3>1 DEF Packed, LastFilled
  <2>2. CASE b = Len(bs) + 1
    BY <1>1, <1>3, <2>2
  <2> QED
    BY <1>1, <2>1, <2>2
<1>9. IsFilled(c.text.rows) => LastFilled(new)
  BY <1>1 DEF LastFilled
<1> QED
  BY <1>1, <1>3, <1>5, <1>6, <1>7, <1>8, <1>9 DEF Tiled, new

\* The cells of the rows numbered from p on.
LEMMA CellsAre ==
  ASSUME NEW rows \in SeqOver(Row), rows = doc.sections[section].rows,
         NEW p \in Nat, NEW n \in Nat, p + n <= Len(rows)
  PROVE  /\ CellsOf(Count(p, n)) = Run(rows, p, n)
         /\ CellsOf(Count(p, n)) \in SeqOver(Row) /\ Len(CellsOf(Count(p, n))) = n
<1>1. CellsOf(Count(p, n)) = Run(rows, p, n)
  <2>1. DOMAIN Count(p, n) = 1..n /\ \A k \in 1..n : Count(p, n)[k] = p + k
    BY DEF Count
  <2> QED
    BY <2>1 DEF CellsOf, Run
<1> QED
  BY <1>1, SubSeqGrows

LEMMA CellsGrow ==
  ASSUME NEW rows \in SeqOver(Row), rows = doc.sections[section].rows,
         NEW p \in Nat, NEW n \in Nat, p + n + 1 <= Len(rows)
  PROVE  /\ rows[p + n + 1] \in Row
         /\ CellsOf(Count(p, n + 1)) = Append(CellsOf(Count(p, n)), rows[p + n + 1])
         /\ Front(CellsOf(Count(p, n + 1))) = CellsOf(Count(p, n))
<1> DEFINE s == CellsOf(Count(p, n))
           x == rows[p + n + 1]
           t == CellsOf(Count(p, n + 1))
<1>1. Len(rows) \in Nat /\ p + n + 1 \in DOMAIN rows
  BY Items
<1>2. x \in Row
  BY <1>1, Items
<1>3. s \in SeqOver(Row) /\ Len(s) = n /\ \A k \in 1..n : s[k] = rows[p + k]
  <2>1. p + n <= Len(rows)
    BY <1>1
  <2>2. s = Run(rows, p, n) /\ s \in SeqOver(Row) /\ Len(s) = n
    BY <2>1, CellsAre
  <2> QED
    BY <2>2 DEF Run
<1>4. t \in SeqOver(Row) /\ Len(t) = n + 1 /\ \A k \in 1..(n + 1) : t[k] = rows[p + k]
  <2>1. p + (n + 1) <= Len(rows) /\ n + 1 \in Nat
    BY <1>1
  <2>2. t = Run(rows, p, n + 1) /\ t \in SeqOver(Row) /\ Len(t) = n + 1
    BY <2>1, CellsAre
  <2> QED
    BY <2>2 DEF Run
<1> HIDE DEF s, t, x
<1>5. t[n + 1] = x /\ \A k \in 1..n : t[k] = s[k]
  <2>1. n + 1 \in 1..(n + 1) /\ (\A k \in 1..n : k \in 1..(n + 1)) /\ p + (n + 1) = p + n + 1
    OBVIOUS
  <2> QED
    BY <1>3, <1>4, <2>1 DEF x
<1>6. t = Append(s, x)
  BY <1>2, <1>3, <1>4, <1>5 DEF SeqOver
<1>7. Front(Append(s, x)) = s
  BY <1>2, <1>3 DEF SeqOver, Front
<1> QED
  BY <1>2, <1>6, <1>7 DEF s, t, x

RowTyped ==
  /\ doc.sections \in SeqOver(RowSheet) /\ section \in 0..Len(doc.sections)
  /\ childOrd \in Nat /\ parentOrd \in Nat
  /\ chunks \in SeqOver(RowChunk)

RowPlaced ==
  /\ Numbers(chunks, childOrd, parentOrd)
  /\ Resolved(chunks)
  /\ \A i \in DOMAIN chunks : chunks[i].section \in 1..section
  /\ \A i \in DOMAIN chunks : chunks[i].role = "parent" =>
       (chunks[i].text.structured <=> OverScale(doc.sections[chunks[i].section]))
  /\ \A s \in 1..section : \E i \in DOMAIN chunks : chunks[i].role = "parent" /\ chunks[i].section = s
SheetPacked(cs, s, open) ==
  IF OverScale(doc.sections[s]) THEN Batches(cs, s) = <<>>
  ELSE Tiled(Batches(cs, s), doc.sections[s].rows) /\ Packed(Batches(cs, s)) /\ (open => LastFilled(Batches(cs, s)))
RowPacked ==
  \A s \in 1..section :
    /\ SheetPacked(chunks, s, s = section /\ (left # <<>> \/ batch # <<>>))
    /\ s # section /\ ~OverScale(doc.sections[s]) => Until(Batches(chunks, s)) = Len(doc.sections[s].rows)

\* Of the sheet in hand p rows are in batches, n in the next one, and m are to come.
Pending(p, n, m) ==
  /\ batch = Count(p, n) /\ left = Count(p + n, m)
  /\ p + n + m = Len(doc.sections[section].rows)
  /\ n < MaxRowsPerChunk /\ BatchTokens(CellsOf(batch)) < RowBatchTargetTokens
PendingAt(p, n, m) == p = Until(Batches(chunks, section)) /\ Pending(p, n, m)
RowPending ==
  IF section = 0 \/ OverScale(doc.sections[section]) THEN left = <<>> /\ batch = <<>>
  ELSE \E p, n, m \in Nat : PendingAt(p, n, m)
RowInv == RowTyped /\ RowPlaced /\ RowPacked /\ RowPending

LEMMA ResolvedAppend ==
  ASSUME NEW X, NEW cs \in SeqOver(ChunkOf(X)), NEW h \in ChunkOf(X), ~TextParent(h), Resolved(cs),
         h.role = "child" => Resolves(cs, Len(cs) + 1, h)
  PROVE  Resolved(Append(cs, h))
<1> DEFINE new == Append(cs, h)
<1>1. /\ Len(cs) \in Nat /\ DOMAIN cs = 1..Len(cs)
      /\ new[Len(cs) + 1] = h /\ (\A i \in DOMAIN cs : new[i] = cs[i])
      /\ \A i \in DOMAIN new : i \in DOMAIN cs \/ i = Len(cs) + 1
  BY Items, AppendItems
<1> HIDE DEF new
<1>2. ASSUME NEW i \in 1..(Len(cs) + 1), NEW c, Resolves(cs, i, c)
      PROVE  Resolves(new, i, c)
  <2>1. c.parent \in 1..(i - 1) /\ c.parent \in DOMAIN cs
    BY <1>1, <1>2 DEF Resolves
  <2>2. new[c.parent] = cs[c.parent]
    BY <1>1, <2>1
  <2>3. \A j \in DOMAIN new : TextParent(new[j]) => j \in DOMAIN cs /\ TextParent(cs[j]) /\ new[j] = cs[j]
    BY <1>1
  <2> QED
    BY <1>2, <2>1, <2>2, <2>3 DEF Resolves
<1>3. ASSUME NEW i \in DOMAIN new, new[i].role = "child" PROVE Resolves(new, i, new[i])
  <2>1. CASE i \in DOMAIN cs
    <3>1. Resolves(cs, i, cs[i]) /\ i \in 1..(Len(cs) + 1) /\ new[i] = cs[i]
      BY <1>1, <1>3, <2>1 DEF Resolved
    <3> QED
      BY <1>2, <3>1
  <2>2. CASE i = Len(cs) + 1
    <3>1. Resolves(cs, i, h) /\ i \in 1..(Len(cs) + 1) /\ new[i] = h
      BY <1>1, <1>3, <2>2
    <3> QED
      BY <1>2, <3>1
  <2> QED
    BY <1>1, <1>3, <2>1, <2>2
<1> QED
  BY <1>3 DEF Resolved, new

LEMMA RowChunksAre ==
  ASSUME NEW cs \in SeqOver(RowChunk)
  PROVE  /\ cs \in SeqOver(ChunkOf(SheetText \cup BatchText))
         /\ \A i \in DOMAIN cs :
              /\ cs[i] \in RowChunk /\ cs[i].role \in {"parent", "child"} /\ cs[i].block = "row"
              /\ cs[i].section \in Nat /\ cs[i].parent \in Nat /\ ~TextParent(cs[i])
         /\ \A s : Batches(cs, s) \in SeqOver(Batch) /\ Batches(cs, s) \in SeqOver(RowChunk)
<1>1. Len(cs) \in Nat /\ DOMAIN cs = 1..Len(cs) /\ \A i \in DOMAIN cs : cs[i] \in RowChunk
  BY Items
<1>2. \A c \in RowChunk : /\ c \in ChunkOf(SheetText \cup BatchText) /\ c.role \in {"parent", "child"} /\ c.block = "row"
                          /\ c.section \in Nat /\ c.parent \in Nat /\ ~TextParent(c)
  BY DEF RowChunk, ChunkOf, TextParent
<1>3. cs \in SeqOver(ChunkOf(SheetText \cup BatchText))
  <2>1. cs = [i \in 1..Len(cs) |-> cs[i]]
    BY DEF SeqOver
  <2>2. cs \in [1..Len(cs) -> ChunkOf(SheetText \cup BatchText)]
    BY <1>1, <1>2, <2>1
  <2> QED
    BY <1>1, <2>2, Listed
<1>4. ASSUME NEW s PROVE Batches(cs, s) \in SeqOver(Batch) /\ Batches(cs, s) \in SeqOver(RowChunk)
  <2>1. Batches(cs, s) \in SeqOver(RowChunk) /\ Batches(cs, s) \in SeqOver(RowChunk \cap BatchKids(s))
    BY OnlyType DEF Batches
  <2>2. Len(Batches(cs, s)) \in Nat /\ DOMAIN Batches(cs, s) = 1..Len(Batches(cs, s))
        /\ \A i \in DOMAIN Batches(cs, s) : Batches(cs, s)[i] \in RowChunk \cap BatchKids(s)
    BY <2>1, Items
  <2>3. \A i \in DOMAIN Batches(cs, s) : Batches(cs, s)[i] \in Batch
    BY <2>2 DEF Batch, BatchKids
  <2>4. Batches(cs, s) = [i \in 1..Len(Batches(cs, s)) |-> Batches(cs, s)[i]]
    BY <2>1 DEF SeqOver
  <2>5. Batches(cs, s) \in [1..Len(Batches(cs, s)) -> Batch]
    BY <2>2, <2>3, <2>4
  <2> QED
    BY <2>1, <2>2, <2>5, Listed
<1> QED
  BY <1>1, <1>2, <1>3, <1>4

LEMMA BatchEmits ==
  ASSUME RowTyped, RowPlaced, section # 0, NEW rows, rows = doc.sections[section].rows,
         NEW p, p = Until(Batches(chunks, section)), NEW n \in Nat, n >= 1, p + n <= Len(rows), n <= MaxRowsPerChunk,
         Tiled(Batches(chunks, section), rows), Packed(Batches(chunks, section)), LastFilled(Batches(chunks, section)),
         BatchTokens(Front(CellsOf(Count(p, n)))) < RowBatchTargetTokens,
         EmitBatch(Count(p, n)), UNCHANGED <<doc, section, parentOrd>>
  PROVE  /\ RowTyped' /\ RowPlaced'
         /\ \A s : s # section => Batches(chunks', s) = Batches(chunks, s)
         /\ Tiled(Batches(chunks', section), rows) /\ Packed(Batches(chunks', section))
         /\ IsFilled(CellsOf(Count(p, n))) => LastFilled(Batches(chunks', section))
         /\ Until(Batches(chunks', section)) = p + n
<1> DEFINE sheet == doc.sections[section]
           P == {i \in ParentsOf("row") : chunks[i].section = section}
           parent == Max(P)
           cells == CellsOf(Count(p, n))
           c == Chunk("child", "row", parent, childOrd, section,
                  [rows |-> cells, range |-> <<Head(Count(p, n)) - 1, Last(Count(p, n)) - 1>>, sparse |-> sheet.sparse])
           bs == Batches(chunks, section)
<1>1. /\ chunks \in SeqOver(RowChunk) /\ childOrd \in Nat /\ parentOrd \in Nat
      /\ section \in DOMAIN doc.sections /\ section \in Nat /\ section \in 1..section
      /\ sheet \in RowSheet
  <2>1. /\ chunks \in SeqOver(RowChunk) /\ childOrd \in Nat /\ parentOrd \in Nat
        /\ doc.sections \in SeqOver(RowSheet) /\ section \in 0..Len(doc.sections)
    BY DEF RowTyped
  <2>2. DOMAIN doc.sections = 1..Len(doc.sections) /\ Len(doc.sections) \in Nat
        /\ \A s \in DOMAIN doc.sections : doc.sections[s] \in RowSheet
    BY <2>1, Items
  <2> QED
    BY <2>1, <2>2
<1>2. chunks' = Append(chunks, c) /\ childOrd' = childOrd + 1
  BY Zenon DEF EmitBatch
<1>3. rows \in SeqOver(Row) /\ sheet.sparse \in BOOLEAN
  BY <1>1 DEF RowSheet
<1>4. /\ Len(chunks) \in Nat /\ DOMAIN chunks = 1..Len(chunks)
      /\ \A i \in DOMAIN chunks : chunks[i] \in RowChunk /\ chunks[i].block = "row"
  BY <1>1, Items, RowChunksAre
<1>5. parent \in P
  <2>1. PICK i \in DOMAIN chunks : chunks[i].role = "parent" /\ chunks[i].section = section
    BY <1>1 DEF RowPlaced
  <2>2. i \in P
    BY <1>4, <2>1 DEF ParentsOf
  <2>3. P \subseteq DOMAIN chunks
    BY DEF ParentsOf
  <2>4. P \subseteq Int /\ \A x \in P : x <= Len(chunks)
    BY <1>4, <2>3
  <2> HIDE DEF P
  <2> QED
    BY <1>4, <2>2, <2>4, MaxIs
<1>6. parent \in DOMAIN chunks /\ chunks[parent].role = "parent" /\ chunks[parent].section = section
  <2> HIDE DEF parent
  <2> QED
    BY <1>5 DEF ParentsOf
<1> HIDE DEF parent, P
<1>7. bs \in SeqOver(Batch)
  BY <1>1, RowChunksAre
<1>8. p \in Nat /\ Len(rows) \in Nat
  <2>1. Len(rows) \in Nat
    BY <1>3, Items
  <2> QED
    BY <2>1 DEF Tiled
<1>9. cells = Run(rows, p, n) /\ cells \in SeqOver(Row) /\ Len(cells) = n
  BY <1>3, <1>8, CellsAre
<1>10. Head(Count(p, n)) - 1 = p /\ Last(Count(p, n)) - 1 = p + n - 1
  <2>1. n # 0 /\ n \in Nat
    OBVIOUS
  <2>2. Head(Count(p, n)) = p + 1 /\ Last(Count(p, n)) = p + n
    BY <1>8, <2>1, CountIs
  <2> QED
    BY <1>8, <2>2
<1> HIDE DEF cells
<1>11. <<Head(Count(p, n)) - 1, Last(Count(p, n)) - 1>> = <<p, p + n - 1>> /\ p + n - 1 \in Nat
  BY <1>8, <1>10
<1>12. c.text = [rows |-> cells, range |-> <<p, p + n - 1>>, sparse |-> sheet.sparse]
  BY <1>11 DEF Chunk
<1>13. c.text \in BatchText
  <2>1. <<p, p + n - 1>> \in Nat \X Nat
    BY <1>8, <1>11
  <2> QED
    BY <1>3, <1>9, <1>12, <2>1 DEF BatchText
<1>14. /\ c.role = "child" /\ c.block = "row" /\ c.parent = parent /\ c.ord = childOrd /\ c.section = section
       /\ c = [role |-> "child", block |-> "row", parent |-> parent, ord |-> childOrd, section |-> section, text |-> c.text]
  BY DEF Chunk
<1>15. c.text.rows = cells /\ c.text.range = <<p, p + n - 1>>
  BY <1>12
<1> HIDE DEF c
<1>16. c \in RowChunk /\ c \in Batch /\ c \in BatchKids(section) /\ c \in ChunkOf(SheetText \cup BatchText)
  <2>1. parent \in Nat
    BY <1>4, <1>6
  <2>2. c \in ChunkOf(SheetText \cup BatchText)
    BY <1>1, <1>13, <1>14, <2>1 DEF ChunkOf
  <2> QED
    BY <1>13, <1>14, <2>2 DEF RowChunk, Batch, BatchKids
<1>17. \A s : Batches(chunks', s) = IF s = section THEN Append(Batches(chunks, s), c) ELSE Batches(chunks, s)
  <2> TAKE s
  <2>1. c \in BatchKids(s) <=> s = section
    BY <1>14, <1>16 DEF BatchKids
  <2>2. Only(Append(chunks, c), BatchKids(s)) =
          IF c \in BatchKids(s) THEN Append(Only(chunks, BatchKids(s)), c) ELSE Only(chunks, BatchKids(s))
    BY <1>1, <1>16, OnlyGrows
  <2> QED
    BY <1>2, <2>1, <2>2 DEF Batches
<1>18. Batches(chunks', section) = Append(bs, c) /\ \A s : s # section => Batches(chunks', s) = Batches(chunks, s)
  BY <1>17
<1>19. /\ Until(Append(bs, c)) = p + n /\ Tiled(Append(bs, c), rows) /\ Packed(Append(bs, c))
       /\ IsFilled(cells) => LastFilled(Append(bs, c))
  <2>1. BatchTokens(Front(c.text.rows)) < RowBatchTargetTokens
    BY <1>15 DEF cells
  <2>2. c.text.rows = Run(rows, p, n)
    BY <1>9, <1>15
  <2> HIDE DEF bs
  <2>3. Tiled(bs, rows) /\ Packed(bs) /\ LastFilled(bs) /\ p = Until(bs)
    BY DEF bs
  <2>4. /\ Until(Append(bs, c)) = p + n /\ Tiled(Append(bs, c), rows) /\ Packed(Append(bs, c))
        /\ IsFilled(c.text.rows) => LastFilled(Append(bs, c))
    BY <1>3, <1>7, <1>8, <1>15, <1>16, <2>1, <2>2, <2>3, BatchAdded
  <2> QED
    BY <1>15, <2>4
<1>20. RowTyped'
  <2>1. chunks' \in SeqOver(RowChunk) /\ childOrd' \in Nat /\ parentOrd' \in Nat
    BY <1>1, <1>2, <1>16, AppendType
  <2> QED
    BY <2>1 DEF RowTyped
<1>21. RowPlaced'
  <2>1. /\ Len(chunks) \in Nat /\ DOMAIN chunks = 1..Len(chunks)
        /\ chunks'[Len(chunks) + 1] = c /\ (\A i \in DOMAIN chunks : i \in DOMAIN chunks' /\ chunks'[i] = chunks[i])
        /\ \A i \in DOMAIN chunks' : i \in DOMAIN chunks \/ i = Len(chunks) + 1
    BY <1>1, <1>2, <1>4, <1>16, AppendItems
  <2>2. Numbers(chunks', childOrd + 1, parentOrd)
    <3>1. Numbers(chunks, childOrd, parentOrd) /\ chunks \in SeqOver(ChunkOf(SheetText \cup BatchText))
      BY <1>1, RowChunksAre DEF RowPlaced
    <3> QED
      BY <1>1, <1>2, <1>14, <1>16, <3>1, NumbersChild
  <2>3. Resolved(chunks')
    <3>1. Resolved(chunks) /\ chunks \in SeqOver(ChunkOf(SheetText \cup BatchText))
      BY <1>1, RowChunksAre DEF RowPlaced
    <3>2. ~TextParent(c)
      BY <1>14 DEF TextParent
    <3>3. Resolves(chunks, Len(chunks) + 1, c)
      <4>1. parent \in 1..((Len(chunks) + 1) - 1)
        BY <1>4, <1>6
      <4> QED
        BY <1>6, <1>14, <4>1 DEF Resolves
    <3> QED
      BY <1>2, <1>16, <3>1, <3>2, <3>3, ResolvedAppend
  <2>4. \A i \in DOMAIN chunks' : chunks'[i].section \in 1..section
    BY <1>1, <1>14, <2>1 DEF RowPlaced
  <2>5. \A i \in DOMAIN chunks' : chunks'[i].role = "parent" =>
          (chunks'[i].text.structured <=> OverScale(doc.sections[chunks'[i].section]))
    BY <1>14, <2>1 DEF RowPlaced
  <2>6. \A s \in 1..section : \E i \in DOMAIN chunks' : chunks'[i].role = "parent" /\ chunks'[i].section = s
    <3> TAKE s \in 1..section
    <3>1. PICK i \in DOMAIN chunks : chunks[i].role = "parent" /\ chunks[i].section = s
      BY DEF RowPlaced
    <3> QED
      BY <2>1, <3>1
  <2> QED
    BY <1>2, <2>2, <2>3, <2>4, <2>5, <2>6 DEF RowPlaced
<1> QED
  BY <1>18, <1>19, <1>20, <1>21 DEF cells

LEMMA RowFacts ==
  ASSUME RowTyped
  PROVE  /\ doc.sections \in SeqOver(RowSheet) /\ Len(doc.sections) \in Nat
         /\ \A s \in 1..Len(doc.sections) :
              /\ s \in DOMAIN doc.sections /\ doc.sections[s] \in RowSheet /\ doc.sections[s].rows \in SeqOver(Row)
              /\ Len(doc.sections[s].rows) \in Nat
         /\ section \in Nat /\ section <= Len(doc.sections) /\ \A s \in 1..section : s \in 1..Len(doc.sections)
         /\ childOrd \in Nat /\ parentOrd \in Nat /\ chunks \in SeqOver(RowChunk)
<1>1. /\ doc.sections \in SeqOver(RowSheet) /\ section \in 0..Len(doc.sections)
      /\ childOrd \in Nat /\ parentOrd \in Nat /\ chunks \in SeqOver(RowChunk)
  BY DEF RowTyped
<1>2. Len(doc.sections) \in Nat /\ DOMAIN doc.sections = 1..Len(doc.sections)
      /\ \A s \in DOMAIN doc.sections : doc.sections[s] \in RowSheet
  BY <1>1, Items
<1>3. \A x \in RowSheet : x.rows \in SeqOver(Row) /\ Len(x.rows) \in Nat
  <2> TAKE x \in RowSheet
  <2>1. x.rows \in SeqOver(Row)
    BY DEF RowSheet
  <2> QED
    BY <2>1, Items
<1> QED
  BY <1>1, <1>2, <1>3

LEMMA FreshBatches ==
  /\ Until(<<>>) = 0 /\ Packed(<<>>) /\ LastFilled(<<>>)
  /\ \A rows : rows \in SeqOver(Row) => Tiled(<<>>, rows)
<1>1. DOMAIN <<>> = {}
  OBVIOUS
<1>2. Until(<<>>) = 0
  BY DEF Until
<1>3. ASSUME NEW rows \in SeqOver(Row) PROVE Tiled(<<>>, rows)
  <2>1. Chained(<<>>)
    BY <1>1 DEF Chained
  <2>2. Gather(BatchRows, <<>>) = <<>> /\ SubSeq(rows, 1, 0) = <<>>
    BY GatherNothing, Beginnings
  <2>3. 0 \in 0..Len(rows)
    <3>1. Len(rows) \in Nat
      BY Items
    <3> QED
      BY <3>1
  <2> QED
    BY <1>2, <2>1, <2>2, <2>3 DEF Tiled
<1> QED
  BY <1>1, <1>2, <1>3 DEF Packed, LastFilled

\* With no row left and none pending, a sheet's batches have all its rows.
LEMMA SheetClosed ==
  ASSUME RowInv, left = <<>>, batch = <<>>, section # 0, ~OverScale(doc.sections[section])
  PROVE  Until(Batches(chunks, section)) = Len(doc.sections[section].rows)
<1>1. PICK p, n, m \in Nat : PendingAt(p, n, m)
  BY DEF RowInv, RowPending
<1>2. batch = Count(p, n) /\ left = Count(p + n, m) /\ p + n + m = Len(doc.sections[section].rows)
      /\ p = Until(Batches(chunks, section))
  BY <1>1 DEF PendingAt, Pending
<1>3. p + n \in Nat
  OBVIOUS
<1>4. (Count(p, n) = <<>> <=> n = 0) /\ (Count(p + n, m) = <<>> <=> m = 0)
  BY <1>3, CountIs
<1>5. n = 0 /\ m = 0
  BY <1>2, <1>4
<1>6. p = Len(doc.sections[section].rows)
  BY <1>2, <1>5
<1> QED
  BY <1>2, <1>6

\* A sheet that is still to come has no batch.
LEMMA FutureBatches ==
  ASSUME RowTyped, RowPlaced, NEW s \in Nat, s > section
  PROVE  Batches(chunks, s) = <<>>
<1>1. chunks \in SeqOver(RowChunk) /\ section \in Nat
  BY RowFacts
<1>2. ASSUME NEW c \in ToSet(chunks), c \in BatchKids(s) PROVE FALSE
  <2>1. PICK i \in DOMAIN chunks : chunks[i] = c
    BY <1>2 DEF ToSet
  <2>2. c.section \in 1..section /\ c.section = s
    BY <1>2, <2>1 DEF RowPlaced, BatchKids
  <2> QED
    BY <1>1, <2>2
<1>3. ToSet(chunks) \cap BatchKids(s) = {}
  BY <1>2
<1> QED
  BY <1>1, <1>3, OnlyNone DEF Batches

\* A sheet's parent comes before its rows.
LEMMA SheetOpens ==
  ASSUME RowInv, OpenSheet
  PROVE  RowInv'
<1> DEFINE k == section + 1
           sheet == doc.sections[k]
           h == SheetParent(k, sheet)
<1>1. /\ left = <<>> /\ batch = <<>> /\ section < Len(doc.sections) /\ section' = k
      /\ chunks' = Append(chunks, h) /\ left' = IF OverScale(sheet) THEN <<>> ELSE [r \in DOMAIN sheet.rows |-> r]
      /\ parentOrd' = parentOrd + 1 /\ doc' = doc /\ childOrd' = childOrd /\ batch' = batch
  BY Zenon DEF OpenSheet
<1>2. RowTyped /\ RowPlaced /\ RowPacked /\ RowPending
  BY DEF RowInv
<1>3. /\ doc.sections \in SeqOver(RowSheet) /\ Len(doc.sections) \in Nat
      /\ \A s \in 1..Len(doc.sections) :
           /\ s \in DOMAIN doc.sections /\ doc.sections[s] \in RowSheet /\ doc.sections[s].rows \in SeqOver(Row)
           /\ Len(doc.sections[s].rows) \in Nat
      /\ section \in Nat /\ section <= Len(doc.sections) /\ \A s \in 1..section : s \in 1..Len(doc.sections)
      /\ childOrd \in Nat /\ parentOrd \in Nat /\ chunks \in SeqOver(RowChunk)
  BY <1>2, RowFacts
<1>4. k \in 1..Len(doc.sections) /\ k \in 0..Len(doc.sections) /\ k \in Nat /\ k # 0 /\ k \in 1..k
      /\ \A s \in 1..k : s \in 1..section \/ s = k
  BY <1>1, <1>3
<1>5. sheet \in RowSheet /\ sheet.rows \in SeqOver(Row) /\ Len(sheet.rows) \in Nat
  BY <1>3, <1>4
<1>6. /\ h.role = "parent" /\ h.block = "row" /\ h.ord = parentOrd /\ h.section = k /\ h.parent = 0
      /\ h.text = [rows |-> Len(sheet.rows), columns |-> sheet.columns, sparse |-> sheet.sparse,
                   structured |-> OverScale(sheet)]
      /\ h = [role |-> "parent", block |-> "row", parent |-> 0, ord |-> parentOrd, section |-> k, text |-> h.text]
  BY DEF SheetParent, Chunk, NoParent
<1>7. h.text \in SheetText /\ h.text.structured = OverScale(sheet)
  <2>1. sheet.columns \in Nat /\ sheet.sparse \in BOOLEAN /\ OverScale(sheet) \in BOOLEAN
    BY <1>5 DEF RowSheet, OverScale
  <2> HIDE DEF h, sheet
  <2> QED
    BY <1>5, <1>6, <2>1 DEF SheetText
<1> HIDE DEF h
<1>8. h \in ChunkOf(SheetText \cup BatchText) /\ h \in RowChunk /\ ~TextParent(h) /\ \A s : h \notin BatchKids(s)
  <2>1. h \in ChunkOf(SheetText \cup BatchText)
    BY <1>3, <1>4, <1>6, <1>7 DEF ChunkOf
  <2> QED
    BY <1>6, <1>7, <2>1 DEF RowChunk, TextParent, BatchKids
<1>9. /\ Len(chunks) \in Nat /\ DOMAIN chunks = 1..Len(chunks)
      /\ chunks'[Len(chunks) + 1] = h /\ Len(chunks) + 1 \in DOMAIN chunks'
      /\ (\A i \in DOMAIN chunks : i \in DOMAIN chunks' /\ chunks'[i] = chunks[i])
      /\ \A i \in DOMAIN chunks' : i \in DOMAIN chunks \/ i = Len(chunks) + 1
  BY <1>1, <1>3, <1>8, Items, AppendItems
<1>10. RowTyped'
  <2>1. chunks' \in SeqOver(RowChunk)
    BY <1>1, <1>3, <1>8, AppendType
  <2> QED
    BY <1>1, <1>3, <1>4, <2>1 DEF RowTyped
<1>11. RowPlaced'
  <2>1. Numbers(chunks, childOrd, parentOrd) /\ Resolved(chunks) /\ chunks \in SeqOver(ChunkOf(SheetText \cup BatchText))
    BY <1>2, <1>3, RowChunksAre DEF RowPlaced
  <2>2. Numbers(chunks', childOrd, parentOrd + 1)
    BY <1>1, <1>3, <1>6, <1>8, <2>1, NumbersParent
  <2>3. Resolved(chunks')
    BY <1>1, <1>6, <1>8, <2>1, ResolvedAppend
  <2>4. \A i \in DOMAIN chunks' : chunks'[i].section \in 1..k
    <3>1. \A i \in DOMAIN chunks : chunks[i].section \in 1..section
      BY <1>2 DEF RowPlaced
    <3>2. \A s \in 1..section : s \in 1..k
      BY <1>3
    <3> QED
      BY <1>4, <1>6, <1>9, <3>1, <3>2
  <2>5. \A i \in DOMAIN chunks' : chunks'[i].role = "parent" =>
          (chunks'[i].text.structured <=> OverScale(doc.sections[chunks'[i].section]))
    BY <1>2, <1>6, <1>7, <1>9 DEF RowPlaced
  <2>6. \A s \in 1..k : \E i \in DOMAIN chunks' : chunks'[i].role = "parent" /\ chunks'[i].section = s
    <3> TAKE s \in 1..k
    <3>1. CASE s \in 1..section
      <4>1. PICK i \in DOMAIN chunks : chunks[i].role = "parent" /\ chunks[i].section = s
        BY <1>2, <3>1 DEF RowPlaced
      <4> QED
        BY <1>9, <4>1
    <3>2. CASE s = k
      BY <1>6, <1>9, <3>2
    <3> QED
      BY <1>4, <3>1, <3>2
  <2> QED
    BY <1>1, <2>2, <2>3, <2>4, <2>5, <2>6 DEF RowPlaced
<1>12. \A s : Batches(chunks', s) = Batches(chunks, s)
  <2> TAKE s
  <2>1. Only(Append(chunks, h), BatchKids(s)) =
          IF h \in BatchKids(s) THEN Append(Only(chunks, BatchKids(s)), h) ELSE Only(chunks, BatchKids(s))
    BY <1>3, <1>8, OnlyGrows
  <2> QED
    BY <1>1, <1>8, <2>1 DEF Batches
<1>13. Batches(chunks, k) = <<>>
  <2>1. k > section
    BY <1>3
  <2> QED
    BY <1>2, <1>4, <2>1, FutureBatches
<1>14. RowPacked'
  <2>1. ASSUME NEW s \in 1..k
        PROVE  /\ IF OverScale(doc.sections[s]) THEN Batches(chunks, s) = <<>>
                  ELSE /\ Tiled(Batches(chunks, s), doc.sections[s].rows)
                       /\ Packed(Batches(chunks, s))
                       /\ (s = k /\ (left' # <<>> \/ batch' # <<>>) => LastFilled(Batches(chunks, s)))
               /\ s # k /\ ~OverScale(doc.sections[s]) => Until(Batches(chunks, s)) = Len(doc.sections[s].rows)
    <3>1. CASE s = k
      BY <1>5, <1>13, <3>1, FreshBatches
    <3>2. CASE s # k
      <4>1. s \in 1..section
        BY <1>4, <3>2
      <4>2. CASE s # section
        BY <1>2, <3>2, <4>1, <4>2 DEF RowPacked, SheetPacked
      <4>3. CASE s = section
        <5>1. section # 0
          BY <1>3, <4>1, <4>3
        <5>2. ~OverScale(doc.sections[section]) => Until(Batches(chunks, section)) = Len(doc.sections[section].rows)
          BY <1>1, <5>1, SheetClosed
        <5> QED
          BY <1>2, <3>2, <4>1, <4>3, <5>2 DEF RowPacked, SheetPacked
      <4> QED
        BY <4>2, <4>3
    <3> QED
      BY <3>1, <3>2
  <2> QED
    BY <1>1, <1>12, <2>1 DEF RowPacked, SheetPacked
<1>15. RowPending'
  <2>1. CASE OverScale(sheet)
    BY <1>1, <1>4, <2>1 DEF RowPending
  <2>2. CASE ~OverScale(sheet)
    <3>0. PICK m \in Nat : m = Len(sheet.rows)
      BY <1>5
    <3>1. left' = Count(0, m)
      <4>1. left' = [r \in DOMAIN sheet.rows |-> r] /\ DOMAIN sheet.rows = 1..m
        BY <1>1, <1>5, <2>2, <3>0, Items
      <4>2. \A r \in 1..m : r = 0 + r
        OBVIOUS
      <4> QED
        BY <4>1, <4>2 DEF Count
    <3>2. batch' = Count(0, 0) /\ Count(0, 0) = <<>>
      BY <1>1, CountIs
    <3>3. BatchTokens(CellsOf(batch)') = 0
      <4>1. batch' = <<>>
        BY <1>1
      <4>2. CellsOf(batch)' = <<>>
        BY <4>1 DEF CellsOf
      <4>3. BatchTokens(<<>>) = 0
        BY DEF BatchTokens, FlattenSeq
      <4> QED
        BY <4>2, <4>3
    <3>4. 0 + 0 + m = Len(doc'.sections[section'].rows) /\ 0 + 0 = 0
      BY <1>1, <3>0
    <3>5. 0 < MaxRowsPerChunk /\ 0 < RowBatchTargetTokens
      BY RowSettingsAssumption
    <3>6. Until(Batches(chunks', k)) = 0
      BY <1>12, <1>13, FreshBatches
    <3>7. PendingAt(0, 0, m)'
      <4>1. left' = Count(0 + 0, m)
        BY <3>1, <3>4
      <4>2. (BatchTokens(CellsOf(batch)) < RowBatchTargetTokens)'
        BY <3>3, <3>5
      <4> QED
        BY <1>1, <3>2, <3>4, <3>5, <3>6, <4>1, <4>2 DEF PendingAt, Pending
    <3> QED
      BY <1>1, <1>4, <2>2, <3>7 DEF RowPending
  <2> QED
    BY <2>1, <2>2
<1> QED
  BY <1>10, <1>11, <1>14, <1>15 DEF RowInv

LEMMA NoTokens == BatchTokens(<<>>) = 0
BY DEF BatchTokens, FlattenSeq

\* What has been said of the sheet in hand, with rows still to come.
LEMMA SheetInHand ==
  ASSUME RowInv, left # <<>> \/ batch # <<>>
  PROVE  /\ section # 0 /\ section \in 1..section /\ ~OverScale(doc.sections[section])
         /\ doc.sections[section].rows \in SeqOver(Row)
         /\ Tiled(Batches(chunks, section), doc.sections[section].rows)
         /\ Packed(Batches(chunks, section)) /\ LastFilled(Batches(chunks, section))
         /\ \E p, n, m \in Nat : PendingAt(p, n, m)
<1>1. RowTyped /\ RowPacked /\ RowPending
  BY DEF RowInv
<1>2. section # 0 /\ ~OverScale(doc.sections[section]) /\ \E p, n, m \in Nat : PendingAt(p, n, m)
  BY <1>1 DEF RowPending
<1>3. section \in 1..section /\ doc.sections[section].rows \in SeqOver(Row)
  <2>1. section \in Nat /\ (\A s \in 1..section : s \in 1..Len(doc.sections))
        /\ \A s \in 1..Len(doc.sections) : doc.sections[s].rows \in SeqOver(Row)
    BY <1>1, RowFacts
  <2>2. section \in 1..section
    BY <1>2, <2>1
  <2> QED
    BY <2>1, <2>2
<1>4. SheetPacked(chunks, section, section = section /\ (left # <<>> \/ batch # <<>>))
  BY <1>1, <1>3 DEF RowPacked
<1> QED
  BY <1>2, <1>3, <1>4 DEF SheetPacked

\* A batch is emitted, and m rows of the sheet are left.
LEMMA BatchClosed ==
  ASSUME RowInv, left # <<>> \/ batch # <<>>,
         NEW p \in Nat, NEW n \in Nat, NEW m \in Nat, p = Until(Batches(chunks, section)),
         n >= 1, n <= MaxRowsPerChunk, p + n + m = Len(doc.sections[section].rows),
         BatchTokens(Front(CellsOf(Count(p, n)))) < RowBatchTargetTokens,
         m # 0 => IsFilled(CellsOf(Count(p, n))),
         EmitBatch(Count(p, n)), left' = Count(p + n, m), batch' = <<>>, UNCHANGED <<doc, section, parentOrd>>
  PROVE  RowInv'
<1>1. RowTyped /\ RowPlaced /\ RowPacked
  BY DEF RowInv
<1>2. /\ section # 0 /\ ~OverScale(doc.sections[section])
      /\ doc.sections[section].rows \in SeqOver(Row)
      /\ Tiled(Batches(chunks, section), doc.sections[section].rows)
      /\ Packed(Batches(chunks, section)) /\ LastFilled(Batches(chunks, section))
  BY SheetInHand
<1>3. p + n <= Len(doc.sections[section].rows)
  BY SMT
<1>4. /\ RowTyped' /\ RowPlaced'
      /\ \A s : s # section => Batches(chunks', s) = Batches(chunks, s)
      /\ Tiled(Batches(chunks', section), doc.sections[section].rows) /\ Packed(Batches(chunks', section))
      /\ IsFilled(CellsOf(Count(p, n))) => LastFilled(Batches(chunks', section))
      /\ Until(Batches(chunks', section)) = p + n
  BY <1>1, <1>2, <1>3, BatchEmits
<1>5. p + n \in Nat /\ (left' = <<>> <=> m = 0)
  <2>1. p + n \in Nat
    OBVIOUS
  <2>2. Count(p + n, m) = <<>> <=> m = 0
    BY <2>1, CountIs
  <2> QED
    BY <2>1, <2>2
<1>6. RowPacked'
  <2>1. ASSUME NEW s \in 1..section
        PROVE  /\ SheetPacked(chunks', s, s = section /\ (left' # <<>> \/ batch' # <<>>))
               /\ s # section /\ ~OverScale(doc.sections[s]) => Until(Batches(chunks', s)) = Len(doc.sections[s].rows)
    <3>1. CASE s = section
      BY <1>2, <1>4, <1>5, <3>1 DEF SheetPacked
    <3>2. CASE s # section
      <4>1. Batches(chunks', s) = Batches(chunks, s)
        BY <1>4, <3>2
      <4> QED
        BY <1>1, <3>2, <4>1 DEF RowPacked, SheetPacked
    <3> QED
      BY <3>1, <3>2
  <2> QED
    BY <2>1 DEF RowPacked, SheetPacked
<1>7. PendingAt(p + n, 0, m)'
  <2>1. batch' = Count(p + n, 0) /\ (p + n) + 0 = p + n
    <3>1. Count(p + n, 0) = <<>>
      BY <1>5, CountIs
    <3> QED
      BY <3>1
  <2>2. (p + n) + 0 + m = Len(doc'.sections[section'].rows)
    BY <2>1
  <2>3. 0 < MaxRowsPerChunk /\ 0 < RowBatchTargetTokens
    BY RowSettingsAssumption
  <2>4. (BatchTokens(CellsOf(batch)) < RowBatchTargetTokens)'
    <3>1. CellsOf(batch)' = <<>>
      BY DEF CellsOf
    <3> QED
      BY <2>3, <3>1, NoTokens
  <2>5. left' = Count((p + n) + 0, m)
    BY <2>1
  <2> QED
    BY <1>4, <2>1, <2>2, <2>3, <2>4, <2>5 DEF PendingAt, Pending
<1>8. RowPending'
  <2>1. p + n \in Nat /\ 0 \in Nat
    BY <1>5
  <2>2. \E p1, n1, m1 \in Nat : PendingAt(p1, n1, m1)'
    BY <1>7, <2>1
  <2>3. ~(section' = 0 \/ OverScale(doc'.sections[section']))
    BY <1>2
  <2> QED
    BY <2>2, <2>3 DEF RowPending
<1> QED
  BY <1>4, <1>6, <1>8 DEF RowInv

LEMMA RowTaken ==
  ASSUME RowInv, TakeRow
  PROVE  RowInv'
<1> DEFINE current == Append(batch, Head(left))
<1>1. /\ left # <<>> /\ left' = Tail(left) /\ UNCHANGED <<doc, section, parentOrd>>
      /\ IF IsFull(CellsOf(current)) THEN EmitBatch(current) /\ batch' = <<>>
         ELSE batch' = current /\ UNCHANGED <<chunks, childOrd>>
  BY Zenon DEF TakeRow
<1>2. /\ section # 0 /\ section \in 1..section /\ ~OverScale(doc.sections[section])
      /\ doc.sections[section].rows \in SeqOver(Row)
      /\ Packed(Batches(chunks, section)) /\ LastFilled(Batches(chunks, section))
      /\ \E p, n, m \in Nat : PendingAt(p, n, m)
  BY <1>1, SheetInHand
<1>3. PICK p, n, m0 \in Nat : PendingAt(p, n, m0)
  BY <1>2
<1>4. /\ batch = Count(p, n) /\ left = Count(p + n, m0) /\ p + n + m0 = Len(doc.sections[section].rows)
      /\ n < MaxRowsPerChunk /\ BatchTokens(CellsOf(batch)) < RowBatchTargetTokens
      /\ p = Until(Batches(chunks, section))
  BY <1>3 DEF PendingAt, Pending
<1>5. m0 # 0 /\ p + n \in Nat
  <2>1. p + n \in Nat
    OBVIOUS
  <2>2. Count(p + n, m0) = <<>> <=> m0 = 0
    BY <2>1, CountIs
  <2> QED
    BY <1>1, <1>4, <2>1, <2>2
<1>6. PICK m \in Nat : m = m0 - 1
  BY <1>5
<1>7. /\ Head(left) = p + n + 1 /\ left' = Count(p + n + 1, m)
      /\ current = Count(p, n + 1)
  <2>1. Head(Count(p + n, m0)) = p + n + 1 /\ Tail(Count(p + n, m0)) = Count(p + n + 1, m0 - 1)
    BY <1>5, CountIs
  <2>2. Append(Count(p, n), p + n + 1) = Count(p, n + 1)
    BY CountIs
  <2> QED
    BY <1>1, <1>4, <1>6, <2>1, <2>2
<1>8. p + n + 1 <= Len(doc.sections[section].rows) /\ p + (n + 1) + m = Len(doc.sections[section].rows)
      /\ p + (n + 1) = p + n + 1 /\ n + 1 \in Nat /\ n + 1 >= 1 /\ p + (n + 1) <= Len(doc.sections[section].rows)
  BY <1>4, <1>5, <1>6
<1>9. Front(CellsOf(current)) = CellsOf(batch) /\ CellsOf(current) \in SeqOver(Row) /\ Len(CellsOf(current)) = n + 1
  <2>1. Front(CellsOf(Count(p, n + 1))) = CellsOf(Count(p, n))
    BY <1>2, <1>8, CellsGrow
  <2>2. CellsOf(Count(p, n + 1)) \in SeqOver(Row) /\ Len(CellsOf(Count(p, n + 1))) = n + 1
    BY <1>2, <1>8, CellsAre
  <2> QED
    BY <1>4, <1>7, <2>1, <2>2
<1> HIDE DEF current
<1>10. MaxRowsPerChunk \in Nat
  BY RowSettingsAssumption
<1>11. CASE IsFull(CellsOf(current))
  <2>1. EmitBatch(Count(p, n + 1)) /\ batch' = <<>>
    BY <1>1, <1>7, <1>11
  <2>2. IsFilled(CellsOf(Count(p, n + 1)))
    BY <1>4, <1>7, <1>9, <1>10, <1>11 DEF IsFull, IsFilled
  <2>3. n + 1 <= MaxRowsPerChunk
    BY <1>4, <1>10
  <2>4. BatchTokens(Front(CellsOf(Count(p, n + 1)))) < RowBatchTargetTokens
    BY <1>4, <1>7, <1>9
  <2>5. left' = Count(p + (n + 1), m)
    BY <1>7, <1>8
  <2> QED
    BY <1>1, <1>4, <1>8, <2>1, <2>2, <2>3, <2>4, <2>5, BatchClosed
<1>12. CASE ~IsFull(CellsOf(current))
  <2>1. batch' = Count(p, n + 1) /\ chunks' = chunks /\ childOrd' = childOrd /\ doc' = doc /\ section' = section
        /\ parentOrd' = parentOrd
    BY <1>1, <1>7, <1>12
  <2>2. RowTyped /\ RowPlaced /\ RowPacked
    BY DEF RowInv
  <2>3. RowTyped' /\ RowPlaced'
    BY <2>1, <2>2 DEF RowTyped, RowPlaced
  <2>4. RowPacked'
    <3>1. ASSUME NEW s \in 1..section
          PROVE  /\ SheetPacked(chunks, s, s = section /\ (left' # <<>> \/ batch' # <<>>))
                 /\ s # section /\ ~OverScale(doc.sections[s]) => Until(Batches(chunks, s)) = Len(doc.sections[s].rows)
      <4>1. SheetPacked(chunks, s, s = section /\ (left # <<>> \/ batch # <<>>))
            /\ (s # section /\ ~OverScale(doc.sections[s]) => Until(Batches(chunks, s)) = Len(doc.sections[s].rows))
        BY <2>2 DEF RowPacked
      <4> QED
        BY <1>2, <4>1 DEF SheetPacked
    <3> QED
      BY <2>1, <3>1 DEF RowPacked, SheetPacked
  <2>5. PendingAt(p, n + 1, m)'
    <3>1. n + 1 < MaxRowsPerChunk /\ BatchTokens(CellsOf(current)) < RowBatchTargetTokens
      <4>1. BatchTokens(CellsOf(current)) \in Nat /\ RowBatchTargetTokens \in Nat
        <5>1. <<>> \in SeqOver(Row) /\ CellsOf(batch) \in SeqOver(Row)
          <6>1. p + n <= Len(doc.sections[section].rows)
            BY <1>4
          <6> QED
            BY <1>2, <1>4, <6>1, CellsAre, EmptyType
        <5>2. CellsOf(Count(p, n + 1)) = Append(CellsOf(Count(p, n)), doc.sections[section].rows[p + n + 1])
              /\ doc.sections[section].rows[p + n + 1] \in Row
          BY <1>2, <1>8, CellsGrow
        <5>3. BatchTokens(Append(CellsOf(batch), doc.sections[section].rows[p + n + 1])) \in Nat
          BY <5>1, <5>2, TokensGrow
        <5> QED
          BY <1>4, <1>7, <5>2, <5>3, RowSettingsAssumption
      <4> QED
        BY <1>9, <1>10, <1>12, <4>1 DEF IsFull
    <3>2. (BatchTokens(CellsOf(batch)) < RowBatchTargetTokens)'
      <4>1. CellsOf(batch)' = CellsOf(current)
        BY <1>7, <2>1 DEF CellsOf
      <4> QED
        BY <3>1, <4>1
    <3>3. left' = Count(p + (n + 1), m)
      BY <1>7, <1>8
    <3>4. p + (n + 1) + m = Len(doc'.sections[section'].rows)
      BY <1>8, <2>1
    <3> QED
      BY <1>4, <2>1, <3>1, <3>2, <3>3, <3>4 DEF PendingAt, Pending
  <2>6. RowPending'
    <3>1. \E p1, n1, m1 \in Nat : PendingAt(p1, n1, m1)'
      BY <1>8, <2>5
    <3>2. ~(section' = 0 \/ OverScale(doc'.sections[section']))
      BY <1>2, <2>1
    <3> QED
      BY <3>1, <3>2 DEF RowPending
  <2> QED
    BY <2>3, <2>4, <2>6 DEF RowInv
<1> QED
  BY <1>11, <1>12

LEMMA BatchFlushed ==
  ASSUME RowInv, FlushBatch
  PROVE  RowInv'
<1>1. left = <<>> /\ batch # <<>> /\ EmitBatch(batch) /\ batch' = <<>> /\ UNCHANGED <<doc, section, parentOrd, left>>
  BY DEF FlushBatch
<1>2. doc.sections[section].rows \in SeqOver(Row) /\ \E p, n, m \in Nat : PendingAt(p, n, m)
  BY <1>1, SheetInHand
<1>3. PICK p, n0, m \in Nat : PendingAt(p, n0, m)
  BY <1>2
<1>4. /\ batch = Count(p, n0) /\ left = Count(p + n0, m) /\ p + n0 + m = Len(doc.sections[section].rows)
      /\ n0 < MaxRowsPerChunk /\ BatchTokens(CellsOf(batch)) < RowBatchTargetTokens
      /\ p = Until(Batches(chunks, section))
  BY <1>3 DEF PendingAt, Pending
<1>5. m = 0 /\ n0 # 0
  <2>1. p + n0 \in Nat
    OBVIOUS
  <2>2. (Count(p + n0, m) = <<>> <=> m = 0) /\ (Count(p, n0) = <<>> <=> n0 = 0)
    BY <2>1, CountIs
  <2> QED
    BY <1>1, <1>4, <2>2
<1>6. PICK n \in Nat : n0 = n + 1
  <2>1. n0 - 1 \in Nat /\ n0 = (n0 - 1) + 1
    BY <1>5
  <2> QED
    BY <2>1
<1>7. p + n + 1 <= Len(doc.sections[section].rows) /\ p + n <= Len(doc.sections[section].rows) /\ n + 1 = n0
  BY <1>4, <1>5, <1>6
<1>8. BatchTokens(Front(CellsOf(Count(p, n0)))) < RowBatchTargetTokens
  <2>1. /\ doc.sections[section].rows[p + n + 1] \in Row
        /\ CellsOf(Count(p, n + 1)) = Append(CellsOf(Count(p, n)), doc.sections[section].rows[p + n + 1])
        /\ Front(CellsOf(Count(p, n + 1))) = CellsOf(Count(p, n))
    BY <1>2, <1>7, CellsGrow
  <2>2. CellsOf(Count(p, n)) \in SeqOver(Row)
    BY <1>2, <1>7, CellsAre
  <2>3. /\ BatchTokens(CellsOf(Count(p, n))) \in Nat
        /\ BatchTokens(CellsOf(Count(p, n))) <= BatchTokens(CellsOf(Count(p, n + 1)))
        /\ BatchTokens(CellsOf(Count(p, n + 1))) \in Nat
    BY <2>1, <2>2, TokensGrow
  <2>4. BatchTokens(CellsOf(Count(p, n + 1))) < RowBatchTargetTokens /\ RowBatchTargetTokens \in Nat
    BY <1>4, <1>7, RowSettingsAssumption
  <2>5. BatchTokens(CellsOf(Count(p, n))) < RowBatchTargetTokens
    BY <2>3, <2>4
  <2> QED
    BY <1>7, <2>1, <2>5
<1>9. n0 >= 1 /\ n0 <= MaxRowsPerChunk
  <2>1. MaxRowsPerChunk \in Nat
    BY RowSettingsAssumption
  <2> QED
    BY <1>4, <1>5, <2>1
<1>10. EmitBatch(Count(p, n0)) /\ left' = Count(p + n0, m)
  BY <1>1, <1>4
<1> QED
  BY <1>1, <1>4, <1>5, <1>8, <1>9, <1>10, BatchClosed

\* The parser: one sheet, or the two parts of a grid.
LEMMA BooksAre ==
  ASSUME NEW type, NEW book \in Books(type)
  PROVE  \E k \in Nat : DOMAIN book = 1..k /\ \A s \in 1..k : \E n \in Nat : book[s] \in [1..n -> RowPatterns]
<1> DEFINE grids == BoundedSeq(RowPatterns, MaxGridRows)
           pairs == {<<SubSeq(c[1], 1, c[2]), SubSeq(c[1], c[2] + 1, Len(c[1]))>> :
                       c \in {d \in grids \X (0..MaxGridRows) : d[2] <= Len(d[1])}}
<1>1. (\E g \in grids : book = <<g>>) \/ book \in pairs
  BY DEF Books
<1>2. CASE \E g \in grids : book = <<g>>
  <2>1. PICK g \in grids : book = <<g>>
    BY <1>2
  <2>2. \E n \in Nat : g \in [1..n -> RowPatterns]
    BY BoundedType
  <2>3. DOMAIN book = 1..1 /\ \A s \in 1..1 : book[s] = g
    BY <2>1
  <2> QED
    BY <2>2, <2>3
<1>3. CASE book \in pairs
  <2>1. PICK d \in grids \X (0..MaxGridRows) :
          d[2] <= Len(d[1]) /\ book = <<SubSeq(d[1], 1, d[2]), SubSeq(d[1], d[2] + 1, Len(d[1]))>>
    BY <1>3
  <2>2. PICK g \in grids, c \in 0..MaxGridRows :
          c <= Len(g) /\ book = <<SubSeq(g, 1, c), SubSeq(g, c + 1, Len(g))>>
    <3>1. d[1] \in grids /\ d[2] \in 0..MaxGridRows
      BY <2>1
    <3> QED
      BY <2>1, <3>1
  <2>3. PICK n \in Nat : g \in [1..n -> RowPatterns]
    BY BoundedType
  <2>4. g \in Seq(RowPatterns) /\ Len(g) = n
    BY <2>3
  <2>5. c \in Nat
    <3>1. \A x \in 0..MaxGridRows : x \in Int /\ x >= 0
      OBVIOUS
    <3> QED
      BY <3>1
  <2>6. SubSeq(g, 1, c) \in Seq(RowPatterns)
    <3>1. g \in SeqOver(RowPatterns) /\ c \in 0..Len(g)
      BY <2>2, <2>4, <2>5 DEF SeqOver
    <3>2. SubSeq(g, 1, c) \in SeqOver(RowPatterns)
      BY <3>1, Beginnings
    <3> QED
      BY <3>2 DEF SeqOver
  <2>7. SubSeq(g, c + 1, Len(g)) \in Seq(RowPatterns)
    BY <2>4, <2>5
  <2>10. \A t \in Seq(RowPatterns) : \E m \in Nat : t \in [1..m -> RowPatterns]
    OBVIOUS
  <2>11. (\E m \in Nat : SubSeq(g, 1, c) \in [1..m -> RowPatterns])
         /\ \E m \in Nat : SubSeq(g, c + 1, Len(g)) \in [1..m -> RowPatterns]
    BY <2>6, <2>7, <2>10, Zenon
  <2>8. DOMAIN book = 1..2 /\ book[1] = SubSeq(g, 1, c) /\ book[2] = SubSeq(g, c + 1, Len(g))
    BY <2>2
  <2>9. \A s \in 1..2 : s = 1 \/ s = 2
    OBVIOUS
  <2>12. \A s \in 1..2 : \E m \in Nat : book[s] \in [1..m -> RowPatterns]
    BY <2>8, <2>9, <2>11, Zenon
  <2> QED
    BY <2>8, <2>12
<1> QED
  BY <1>1, <1>2, <1>3

LEMMA RowStarts ==
  ASSUME ChunkingInit', RowStart', NEW type, NEW book \in Books(type), doc' = Workbook(type, book)
  PROVE  RowInv'
<1>1. section' = 0 /\ childOrd' = 0 /\ parentOrd' = 0 /\ chunks' = <<>> /\ left' = <<>> /\ batch' = <<>>
  BY DEF ChunkingInit, RowStart
<1>2. doc'.sections = [s \in DOMAIN book |-> Sheet(book[s])]
  BY DEF Workbook
<1>3. doc'.sections \in SeqOver(RowSheet)
  <2>1. PICK k \in Nat : DOMAIN book = 1..k /\ \A s \in 1..k : \E n \in Nat : book[s] \in [1..n -> RowPatterns]
    BY BooksAre
  <2>2. \A s \in 1..k : Sheet(book[s]) \in RowSheet
    BY <2>1, SheetIs
  <2>3. doc'.sections \in [1..k -> RowSheet]
    BY <1>2, <2>1, <2>2
  <2> QED
    BY <2>3, Listed
<1>4. RowTyped'
  <2>1. Len(doc'.sections) \in Nat
    BY <1>3, Items
  <2>2. 0 \in 0..Len(doc'.sections) /\ 0 \in Nat
    BY <2>1
  <2>3. chunks' \in SeqOver(RowChunk)
    BY <1>1, EmptyType
  <2> QED
    BY <1>1, <1>3, <2>2, <2>3 DEF RowTyped
<1>5. RowPlaced' /\ RowPacked'
  <2>1. DOMAIN <<>> = {} /\ 1..0 = {}
    OBVIOUS
  <2> QED
    BY <1>1, <2>1 DEF RowPlaced, RowPacked, Numbers, Resolved
<1>6. RowPending'
  BY <1>1 DEF RowPending
<1> QED
  BY <1>4, <1>5, <1>6 DEF RowInv

LEMMA RowResolved ==
  ASSUME RowInv
  PROVE  ChildrenResolve /\ OrdinalsDistinct
<1>1. RowPlaced
  BY DEF RowInv
<1>2. ChildrenResolve
  BY <1>1, ResolvedIs DEF RowPlaced
<1>3. OrdinalsDistinct
  BY <1>1, NumbersDiffer DEF RowPlaced
<1> QED
  BY <1>2, <1>3

LEMMA RowsAreTyped ==
  ASSUME RowInv
  PROVE  RowTypeOK /\ section <= Len(doc.sections)
<1>1. section <= Len(doc.sections)
  BY RowFacts DEF RowInv
<1>2. MaxRowsPerChunk \in Nat /\ 0 < MaxRowsPerChunk
  BY RowSettingsAssumption
<1>3. CASE left = <<>> /\ batch = <<>>
  <2>1. <<>> \in Seq(Nat) /\ Len(<<>>) = 0
    OBVIOUS
  <2> QED
    BY <1>1, <1>2, <1>3, <2>1 DEF RowTypeOK
<1>4. CASE left # <<>> \/ batch # <<>>
  <2>1. \E p, n, m \in Nat : PendingAt(p, n, m)
    BY <1>4, SheetInHand
  <2>2. PICK p, n, m \in Nat : PendingAt(p, n, m)
    BY <2>1
  <2>3. batch = Count(p, n) /\ left = Count(p + n, m) /\ n < MaxRowsPerChunk
    BY <2>2 DEF PendingAt, Pending
  <2>4. p + n \in Nat
    OBVIOUS
  <2>5. Count(p, n) \in SeqOver(Nat) /\ Len(Count(p, n)) = n /\ Count(p + n, m) \in SeqOver(Nat)
    BY <2>4, CountIs
  <2> QED
    BY <1>1, <2>3, <2>5 DEF RowTypeOK, SeqOver
<1> QED
  BY <1>3, <1>4

LEMMA BatchesAre ==
  ASSUME RowInv, NEW s
  PROVE  BatchesOf(s) = Batches(chunks, s)
<1> DEFINE T == {c \in ToSet(chunks) : c.block = "row" /\ c.role = "child" /\ c.section = s}
<1>1. chunks \in SeqOver(RowChunk)
  BY RowFacts DEF RowInv
<1>2. ToSet(chunks) \subseteq RowChunk
  BY <1>1, ToSetType
<1>3. \A c \in RowChunk : c.block = "row"
  BY DEF RowChunk
<1>4. ToSet(chunks) \cap T = ToSet(chunks) \cap BatchKids(s)
  BY <1>2, <1>3 DEF BatchKids
<1>5. Only(chunks, T) = Only(chunks, BatchKids(s))
  <2> HIDE DEF T
  <2> QED
    BY <1>1, <1>4, OnlySame
<1> QED
  BY <1>5 DEF BatchesOf, Batches

LEMMA SheetPackedIs ==
  ASSUME RowInv, NEW s \in DOMAIN doc.sections
  PROVE  Packed(Batches(chunks, s))
<1>1. RowTyped /\ RowPlaced /\ RowPacked
  BY DEF RowInv
<1>2. s \in Nat /\ (s \in 1..section \/ s > section)
  <2>1. section \in Nat /\ doc.sections \in SeqOver(RowSheet)
    BY <1>1, RowFacts
  <2>2. Len(doc.sections) \in Nat /\ DOMAIN doc.sections = 1..Len(doc.sections)
    BY <2>1, Items
  <2> QED
    BY <2>1, <2>2
<1>3. CASE s \in 1..section
  BY <1>1, <1>3, FreshBatches DEF RowPacked, SheetPacked
<1>4. CASE s > section
  BY <1>1, <1>2, <1>4, FutureBatches, FreshBatches
<1> QED
  BY <1>2, <1>3, <1>4

LEMMA RowsFull ==
  ASSUME RowInv
  PROVE  BatchesFull
<1>1. ASSUME NEW s \in DOMAIN doc.sections, NEW b \in DOMAIN BatchesOf(s)
      PROVE  LET rows == BatchesOf(s)[b].text.rows
             IN  /\ Len(rows) <= MaxRowsPerChunk
                 /\ BatchTokens(Front(rows)) < RowBatchTargetTokens
                 /\ b < Len(BatchesOf(s)) => Len(rows) = MaxRowsPerChunk \/ BatchTokens(rows) >= RowBatchTargetTokens
  <2>1. BatchesOf(s) = Batches(chunks, s) /\ Packed(Batches(chunks, s))
    BY BatchesAre, SheetPackedIs
  <2>2. Packed(BatchesOf(s))
    BY <2>1
  <2> QED
    BY <1>1, <2>2 DEF Packed, IsFilled
<1> QED
  BY <1>1 DEF BatchesFull

\* The batches of a finished sheet.
LEMMA SheetTiled ==
  ASSUME RowInv, RowDone, NEW s \in DOMAIN doc.sections
  PROVE  /\ doc.sections[s] \in RowSheet
         /\ OverScale(doc.sections[s]) =>
              BatchesOf(s) = <<>> /\ \E c \in ToSet(chunks) : c.block = "row" /\ c.role = "parent" /\ c.text.structured
         /\ ~OverScale(doc.sections[s]) =>
              Chained(BatchesOf(s)) /\ Gather(BatchRows, BatchesOf(s)) = doc.sections[s].rows
<1>1. RowTyped /\ RowPlaced /\ RowPacked /\ section = Len(doc.sections) /\ left = <<>> /\ batch = <<>>
  BY DEF RowInv, RowDone
<1>2. /\ doc.sections \in SeqOver(RowSheet) /\ chunks \in SeqOver(RowChunk)
      /\ \A k \in 1..Len(doc.sections) : doc.sections[k] \in RowSheet /\ doc.sections[k].rows \in SeqOver(Row)
  BY <1>1, RowFacts
<1>3. s \in 1..section /\ s \in 1..Len(doc.sections) /\ (s = section => section # 0)
  <2>1. Len(doc.sections) \in Nat /\ DOMAIN doc.sections = 1..Len(doc.sections)
    BY <1>2, Items
  <2> QED
    BY <1>1, <2>1
<1>4. BatchesOf(s) = Batches(chunks, s)
  BY BatchesAre
<1>5. ASSUME OverScale(doc.sections[s])
      PROVE  BatchesOf(s) = <<>> /\ \E c \in ToSet(chunks) : c.block = "row" /\ c.role = "parent" /\ c.text.structured
  <2>1. PICK i \in DOMAIN chunks : chunks[i].role = "parent" /\ chunks[i].section = s
    BY <1>1, <1>3 DEF RowPlaced
  <2>2. chunks[i].text.structured
    BY <1>1, <1>5, <2>1 DEF RowPlaced
  <2>3. chunks[i] \in ToSet(chunks) /\ chunks[i].block = "row"
    BY <1>2, RowChunksAre DEF ToSet
  <2>4. Batches(chunks, s) = <<>>
    BY <1>1, <1>3, <1>5 DEF RowPacked, SheetPacked
  <2> QED
    BY <1>4, <2>1, <2>2, <2>3, <2>4
<1>6. ASSUME ~OverScale(doc.sections[s])
      PROVE  Chained(BatchesOf(s)) /\ Gather(BatchRows, BatchesOf(s)) = doc.sections[s].rows
  <2>1. Tiled(Batches(chunks, s), doc.sections[s].rows)
    BY <1>1, <1>3, <1>6 DEF RowPacked, SheetPacked
  <2>2. Until(Batches(chunks, s)) = Len(doc.sections[s].rows)
    <3>1. CASE s = section
      BY <1>1, <1>3, <1>6, <3>1, SheetClosed
    <3>2. CASE s # section
      BY <1>1, <1>3, <1>6, <3>2 DEF RowPacked
    <3> QED
      BY <3>1, <3>2
  <2>3. SubSeq(doc.sections[s].rows, 1, Len(doc.sections[s].rows)) = doc.sections[s].rows
    BY <1>2, <1>3, Beginnings
  <2> QED
    BY <1>4, <2>1, <2>2, <2>3 DEF Tiled
<1> QED
  BY <1>2, <1>3, <1>5, <1>6

\* The rows of batches, as the properties put them together.
LEMMA RowsOfBatches ==
  ASSUME RowInv, NEW s
  PROVE  FlattenSeq([b \in DOMAIN BatchesOf(s) |-> BatchesOf(s)[b].text.rows]) = Gather(BatchRows, BatchesOf(s))
<1>1. chunks \in SeqOver(RowChunk)
  BY RowFacts DEF RowInv
<1>2. BatchesOf(s) \in SeqOver(Batch)
  BY <1>1, BatchesAre, RowChunksAre
<1>3. \A b \in DOMAIN BatchesOf(s) : BatchRows[BatchesOf(s)[b]] = BatchesOf(s)[b].text.rows
  <2>1. \A b \in DOMAIN BatchesOf(s) : BatchesOf(s)[b] \in Batch
    BY <1>2, Items
  <2> QED
    BY <2>1 DEF BatchRows
<1>4. [b \in DOMAIN BatchesOf(s) |-> BatchRows[BatchesOf(s)[b]]] = [b \in DOMAIN BatchesOf(s) |-> BatchesOf(s)[b].text.rows]
  BY <1>3
<1> QED
  BY <1>4, Zenon DEF Gather

LEMMA RowsAreTiled ==
  ASSUME RowInv
  PROVE  RowsTiled
<1> SUFFICES ASSUME RowDone, NEW s \in DOMAIN doc.sections
             PROVE  /\ \/ FlattenSeq([b \in DOMAIN BatchesOf(s) |-> BatchesOf(s)[b].text.rows]) = doc.sections[s].grid
                       \/ /\ FlattenSeq([b \in DOMAIN BatchesOf(s) |-> BatchesOf(s)[b].text.rows]) = Tail(doc.sections[s].grid)
                          /\ \E i \in DOMAIN doc.sections[s].grid[1] : ~IsNumeric(doc.sections[s].grid[1][i])
                       \/ BatchesOf(s) = <<>> /\ Len(doc.sections[s].rows) > MaxRowsForRowChunking
                    /\ \A b \in DOMAIN BatchesOf(s) :
                         /\ BatchesOf(s)[b].text.range[2] - BatchesOf(s)[b].text.range[1] + 1 = Len(BatchesOf(s)[b].text.rows)
                         /\ BatchesOf(s)[b].text.range[1] = IF b = 1 THEN 0 ELSE BatchesOf(s)[b - 1].text.range[2] + 1
  <2>1. ASSUME NEW bs, NEW b \in DOMAIN bs, b - 1 \in DOMAIN bs \/ b = 1
        PROVE  /\ [k \in DOMAIN bs |-> bs[k].text.range][b] = bs[b].text.range
               /\ b # 1 => [k \in DOMAIN bs |-> bs[k].text.range][b - 1] = bs[b - 1].text.range
    BY <2>1
  <2>2. chunks \in SeqOver(RowChunk)
    BY RowFacts DEF RowInv
  <2>3. ASSUME NEW s \in DOMAIN doc.sections, NEW b \in DOMAIN BatchesOf(s)
        PROVE  b - 1 \in DOMAIN BatchesOf(s) \/ b = 1
    <3>1. BatchesOf(s) \in SeqOver(Batch)
      BY <2>2, BatchesAre, RowChunksAre
    <3>2. Len(BatchesOf(s)) \in Nat /\ DOMAIN BatchesOf(s) = 1..Len(BatchesOf(s))
      BY <3>1, Items
    <3> QED
      BY <3>2
  <2> QED
    BY <2>1, <2>3, Zenon DEF RowsTiled
<1>1. /\ doc.sections[s] \in RowSheet
      /\ OverScale(doc.sections[s]) => BatchesOf(s) = <<>>
      /\ ~OverScale(doc.sections[s]) => Chained(BatchesOf(s)) /\ Gather(BatchRows, BatchesOf(s)) = doc.sections[s].rows
  BY SheetTiled
<1>2. CASE OverScale(doc.sections[s])
  <2>1. BatchesOf(s) = <<>> /\ DOMAIN BatchesOf(s) = {}
    BY <1>1, <1>2
  <2> QED
    BY <1>2, <2>1 DEF OverScale
<1>3. CASE ~OverScale(doc.sections[s])
  <2>1. FlattenSeq([b \in DOMAIN BatchesOf(s) |-> BatchesOf(s)[b].text.rows]) = doc.sections[s].rows
    BY <1>1, <1>3, RowsOfBatches
  <2>2. Header(doc.sections[s])
    BY <1>1 DEF RowSheet
  <2>3. Chained(BatchesOf(s))
    BY <1>1, <1>3
  <2> QED
    BY <2>1, <2>2, <2>3 DEF Header, Chained
<1> QED
  BY <1>2, <1>3

LEMMA RowsReturned ==
  ASSUME RowInv, RowDone, NEW s \in DOMAIN doc.sections
  PROVE  /\ FlattenSeq([b \in DOMAIN BatchesOf(s) |-> BatchesOf(s)[b].text.rows]) \in {doc.sections[s].rows, <<>>}
         /\ Warnings = {} => FlattenSeq([b \in DOMAIN BatchesOf(s) |-> BatchesOf(s)[b].text.rows]) = doc.sections[s].rows
<1>1. /\ OverScale(doc.sections[s]) =>
           BatchesOf(s) = <<>> /\ \E c \in ToSet(chunks) : c.block = "row" /\ c.role = "parent" /\ c.text.structured
      /\ ~OverScale(doc.sections[s]) => Gather(BatchRows, BatchesOf(s)) = doc.sections[s].rows
  BY SheetTiled
<1>2. FlattenSeq([b \in DOMAIN BatchesOf(s) |-> BatchesOf(s)[b].text.rows]) = Gather(BatchRows, BatchesOf(s))
  BY RowsOfBatches
<1>3. CASE OverScale(doc.sections[s])
  <2>1. Gather(BatchRows, BatchesOf(s)) = <<>>
    BY <1>1, <1>3, GatherNothing
  <2>2. "scale guard" \in Warnings
    BY <1>1, <1>3 DEF Warnings
  <2> QED
    BY <1>2, <2>1, <2>2
<1>4. CASE ~OverScale(doc.sections[s])
  BY <1>1, <1>2, <1>4
<1> QED
  BY <1>3, <1>4

----------------------------------------------------------------------------
\* The slide chunker: the windows and the groups.

SlideWords == SeqOver(STRING)

LEMMA SlideTextIs ==
  ASSUME NEW x \in Slides
  PROVE  /\ SlideText(x) \in SlideWords
         /\ SlideText(x) = <<>> <=> IsEmptySlide(x)
         /\ SlideText(x) # <<>> /\ x.body = <<>> <=> IsDivider(x)
<1>1. x.heading \in Seq(STRING) /\ x.body \in Seq(STRING)
  BY SlidesAssumption
<1>2. \A h, b \in Seq(STRING) : h \o b \in Seq(STRING) /\ (h \o b = <<>> <=> h = <<>> /\ b = <<>>)
  OBVIOUS
<1> QED
  BY <1>1, <1>2 DEF SlideText, IsEmptySlide, IsDivider, SlideWords, SeqOver

LEMMA PlacesAre ==
  ASSUME NEW S, NEW s \in SeqOver(S)
  PROVE  /\ Places(s) \in SeqOver(Nat) /\ Rising(Places(s)) /\ ToSet(Places(s)) = DOMAIN s /\ Len(Places(s)) = Len(s)
         /\ \A T : /\ Only(Places(s), T) \in SeqOver(Nat) /\ Rising(Only(Places(s), T))
                   /\ ToSet(Only(Places(s), T)) = DOMAIN s \cap T
<1>1. Len(s) \in Nat /\ DOMAIN s = 1..Len(s)
  BY Items
<1>2. Places(s) \in [1..Len(s) -> Nat] /\ \A k \in 1..Len(s) : Places(s)[k] = k
  BY <1>1 DEF Places
<1>3. Places(s) \in SeqOver(Nat)
  BY <1>1, <1>2, Listed
<1>4. Rising(Places(s)) /\ ToSet(Places(s)) = DOMAIN s
  BY <1>1, <1>2 DEF Rising, ToSet
<1>5. Len(Places(s)) = Len(s)
  <2>1. Len(Places(s)) \in Nat /\ DOMAIN Places(s) = 1..Len(Places(s)) /\ DOMAIN Places(s) = 1..Len(s)
    BY <1>2, <1>3, Items
  <2> QED
    BY <1>1, <2>1, SameLength
<1>6. ASSUME NEW T
      PROVE  /\ Only(Places(s), T) \in SeqOver(Nat) /\ Rising(Only(Places(s), T))
             /\ ToSet(Only(Places(s), T)) = DOMAIN s \cap T
  BY <1>3, <1>4, OnlyType, OnlyRange, RisingOnly
<1> QED
  BY <1>3, <1>4, <1>5, <1>6

LEMMA KeptIs ==
  ASSUME doc.sections \in SeqOver(Slides)
  PROVE  /\ Kept \in SeqOver(Nat) /\ Rising(Kept) /\ Len(Kept) \in Nat /\ DOMAIN Kept = 1..Len(Kept)
         /\ \A j \in DOMAIN Kept : /\ Kept[j] \in Nat /\ Kept[j] \in DOMAIN doc.sections
                                   /\ ~IsEmptySlide(doc.sections[Kept[j]])
         /\ \A s \in DOMAIN doc.sections : ~IsEmptySlide(doc.sections[s]) => \E j \in DOMAIN Kept : Kept[j] = s
<1> DEFINE T == {k \in DOMAIN doc.sections : ~IsEmptySlide(doc.sections[k])}
<1>1. Kept = Only(Places(doc.sections), T)
  BY DEF Kept
<1>2. Kept \in SeqOver(Nat) /\ Rising(Kept) /\ ToSet(Kept) = DOMAIN doc.sections \cap T
  <2> HIDE DEF T
  <2> QED
    BY <1>1, PlacesAre
<1>3. Len(Kept) \in Nat /\ DOMAIN Kept = 1..Len(Kept) /\ \A j \in DOMAIN Kept : Kept[j] \in Nat /\ Kept[j] \in ToSet(Kept)
  BY <1>2, Items DEF ToSet
<1>4. \A s \in ToSet(Kept) : \E j \in DOMAIN Kept : Kept[j] = s
  BY DEF ToSet
<1> QED
  BY <1>2, <1>3, <1>4

LEMMA KeptRises ==
  ASSUME doc.sections \in SeqOver(Slides), NEW i \in DOMAIN Kept, NEW j \in DOMAIN Kept
  PROVE  (i < j <=> Kept[i] < Kept[j]) /\ (i = j <=> Kept[i] = Kept[j]) /\ i \in Nat /\ j \in Nat
<1>1. /\ Rising(Kept) /\ Len(Kept) \in Nat /\ DOMAIN Kept = 1..Len(Kept) /\ Kept[i] \in Nat /\ Kept[j] \in Nat
  BY KeptIs
<1>2. i \in Nat /\ j \in Nat
  BY <1>1
<1>3. (i < j => Kept[i] < Kept[j]) /\ (j < i => Kept[j] < Kept[i])
  BY <1>1 DEF Rising
<1> QED
  BY <1>1, <1>2, <1>3

DividesAt(x) == IsDivider(doc.sections[Kept[x]])

LEMMA GroupsDiffer ==
  ASSUME doc.sections \in SeqOver(Slides), NEW j \in DOMAIN Kept, NEW a \in DOMAIN Kept, j <= a
  PROVE  GroupOf(j) = GroupOf(a) <=> \A x \in (j + 1)..a : ~DividesAt(x)
<1> DEFINE Starts(i) == {1} \cup {x \in 2..i : DividesAt(x)}
<1>1. j \in Nat /\ a \in Nat /\ 1 <= j
  <2>1. DOMAIN Kept = 1..Len(Kept) /\ Len(Kept) \in Nat
    BY KeptIs
  <2> QED
    BY <2>1
<1>2. \A i : GroupOf(i) = Max(Starts(i))
  BY DEF GroupOf, DividesAt
<1>3. ASSUME NEW i \in {j, a} PROVE GroupOf(i) \in Starts(i) /\ GroupOf(i) <= i /\ \A x \in Starts(i) : x <= GroupOf(i)
  <2>1. Starts(i) \subseteq Int /\ Starts(i) # {} /\ i \in Int /\ \A x \in Starts(i) : x <= i
    BY <1>1, <1>3
  <2> HIDE DEF Starts
  <2>2. Max(Starts(i)) \in Starts(i) /\ \A x \in Starts(i) : x <= Max(Starts(i))
    BY <2>1, MaxIs
  <2> QED
    BY <1>2, <2>1, <2>2
<1>4. ASSUME NEW x \in (j + 1)..a, DividesAt(x) PROVE GroupOf(j) # GroupOf(a)
  <2>1. x \in 2..a /\ x \in Int /\ x > j
    BY <1>1, <1>4
  <2>2. x \in Starts(a)
    BY <1>4, <2>1
  <2>3. x <= GroupOf(a) /\ GroupOf(j) <= j /\ GroupOf(j) \in Int /\ GroupOf(a) \in Int
    <3>1. \A i \in {j, a} : GroupOf(i) \in Starts(i)
      BY <1>3
    <3>2. \A i \in {j, a} : Starts(i) \subseteq Int
      BY <1>1
    <3> QED
      BY <1>3, <2>2, <3>1, <3>2
  <2> QED
    BY <1>1, <2>1, <2>3
<1>5. ASSUME \A x \in (j + 1)..a : ~DividesAt(x) PROVE GroupOf(j) = GroupOf(a)
  <2>1. \A x \in 2..a : x \in 2..j \/ x \in (j + 1)..a
    BY <1>1
  <2>2. \A x \in 2..j : x \in 2..a
    BY <1>1
  <2>3. Starts(j) = Starts(a)
    BY <1>5, <2>1, <2>2
  <2> QED
    BY <1>2, <2>3
<1> QED
  BY <1>4, <1>5

WithText == {s \in DOMAIN doc.sections : SlideText(doc.sections[s]) # <<>>}
Dividers == {s \in WithText : doc.sections[s].body = <<>>}

LEMMA WithTextIs ==
  ASSUME doc.sections \in SeqOver(Slides)
  PROVE  /\ \A j \in DOMAIN Kept : Kept[j] \in WithText /\ (Kept[j] \in Dividers <=> DividesAt(j))
         /\ \A s \in WithText : \E j \in DOMAIN Kept : Kept[j] = s
         /\ Dividers # {} <=> UseSections
<1>1. \A s \in DOMAIN doc.sections : doc.sections[s] \in Slides
  BY Items
<1>2. \A s \in DOMAIN doc.sections : /\ s \in WithText <=> ~IsEmptySlide(doc.sections[s])
                                     /\ s \in Dividers <=> IsDivider(doc.sections[s])
  BY <1>1, SlideTextIs DEF WithText, Dividers
<1>3. \A j \in DOMAIN Kept : Kept[j] \in DOMAIN doc.sections /\ ~IsEmptySlide(doc.sections[Kept[j]])
  BY KeptIs
<1>4. \A s \in WithText : \E j \in DOMAIN Kept : Kept[j] = s
  BY <1>2, KeptIs DEF WithText
<1>5. Dividers # {} <=> UseSections
  <2>1. ASSUME NEW s \in Dividers PROVE UseSections
    <3>1. s \in WithText /\ s \in DOMAIN doc.sections /\ IsDivider(doc.sections[s])
      BY <1>2 DEF WithText, Dividers
    <3> QED
      BY <1>4, <3>1 DEF UseSections
  <2>2. ASSUME UseSections PROVE Dividers # {}
    BY <1>2, <1>3, <2>2 DEF UseSections
  <2> QED
    BY <2>1, <2>2
<1> QED
  BY <1>2, <1>3, <1>4, <1>5 DEF DividesAt

LEMMA DividersBetween ==
  ASSUME doc.sections \in SeqOver(Slides), NEW j \in DOMAIN Kept, NEW a \in DOMAIN Kept, j <= a
  PROVE  {s \in Dividers : Kept[j] < s /\ s <= Kept[a]} = {} <=> GroupOf(j) = GroupOf(a)
<1>1. DOMAIN Kept = 1..Len(Kept) /\ Len(Kept) \in Nat /\ \A i \in DOMAIN Kept : Kept[i] \in Nat
  BY KeptIs
<1>2. ASSUME NEW x \in DOMAIN Kept
      PROVE  x \in (j + 1)..a <=> Kept[j] < Kept[x] /\ Kept[x] <= Kept[a]
  <2>1. j < x <=> Kept[j] < Kept[x]
    BY KeptRises
  <2>2. (x < a <=> Kept[x] < Kept[a]) /\ (x = a <=> Kept[x] = Kept[a])
    BY KeptRises
  <2>3. x \in Nat /\ j \in Nat /\ a \in Nat /\ Kept[x] \in Nat /\ Kept[a] \in Nat
    BY <1>1
  <2>4. Kept[x] <= Kept[a] <=> Kept[x] < Kept[a] \/ Kept[x] = Kept[a]
    BY <2>3
  <2>5. x \in (j + 1)..a <=> j < x /\ (x < a \/ x = a)
    BY <2>3
  <2> QED
    BY <2>1, <2>2, <2>4, <2>5
<1>3. \A x \in (j + 1)..a : x \in DOMAIN Kept
  BY <1>1
<1>4. ASSUME NEW x \in (j + 1)..a, DividesAt(x) PROVE Kept[x] \in Dividers /\ Kept[j] < Kept[x] /\ Kept[x] <= Kept[a]
  BY <1>2, <1>3, <1>4, WithTextIs
<1>5. ASSUME NEW s \in Dividers, Kept[j] < s, s <= Kept[a] PROVE \E x \in (j + 1)..a : DividesAt(x)
  <2>1. s \in WithText
    BY DEF Dividers
  <2>2. PICK x \in DOMAIN Kept : Kept[x] = s
    BY <2>1, WithTextIs
  <2>3. DividesAt(x)
    BY <2>2, WithTextIs
  <2>4. x \in (j + 1)..a
    BY <1>2, <1>5, <2>2
  <2> QED
    BY <2>3, <2>4
<1>6. GroupOf(j) = GroupOf(a) <=> \A x \in (j + 1)..a : ~DividesAt(x)
  BY GroupsDiffer
<1> QED
  BY <1>4, <1>5, <1>6

LEMMA CountBetween ==
  ASSUME doc.sections \in SeqOver(Slides), NEW j \in DOMAIN Kept, NEW a \in DOMAIN Kept, j < a
  PROVE  Cardinality({s \in WithText : Kept[j] < s /\ s < Kept[a]}) = a - j - 1
<1> DEFINE B == {s \in WithText : Kept[j] < s /\ s < Kept[a]}
           I == (j + 1)..(a - 1)
           f == [x \in I |-> Kept[x]]
<1>1. DOMAIN Kept = 1..Len(Kept) /\ Len(Kept) \in Nat /\ j \in Nat /\ a \in Nat
  <2>1. DOMAIN Kept = 1..Len(Kept) /\ Len(Kept) \in Nat
    BY KeptIs
  <2> QED
    BY <2>1
<1>2. \A x \in I : x \in DOMAIN Kept /\ j < x /\ x < a
  BY <1>1
<1>3. \A x \in DOMAIN Kept : j < x /\ x < a => x \in I
  BY <1>1
<1>4. \A x \in DOMAIN Kept : (j < x <=> Kept[j] < Kept[x]) /\ (x < a <=> Kept[x] < Kept[a])
  BY KeptRises
<1>5. f \in [I -> B]
  <2>1. \A x \in I : Kept[x] \in B
    BY <1>2, <1>4, WithTextIs
  <2> HIDE DEF B, I
  <2> QED
    BY <2>1
<1>6. \A x, y \in I : f[x] = f[y] => x = y
  BY <1>2, KeptRises
<1>7. \A s \in B : \E x \in I : f[x] = s
  <2> TAKE s \in B
  <2>1. PICK x \in DOMAIN Kept : Kept[x] = s
    BY WithTextIs
  <2>2. x \in I
    BY <1>3, <1>4, <2>1
  <2> QED
    BY <2>1, <2>2
<1> HIDE DEF f, B
<1>8. ExistsBijection(I, B)
  <2> HIDE DEF I
  <2>1. DOMAIN f = I
    BY <1>5
  <2>2. IsInjective(f)
    BY <1>6, <2>1 DEF IsInjective
  <2>3. f \in Bijection(I, B)
    BY <1>5, <1>7, <2>2 DEF Bijection, Injection, Surjection
  <2> QED
    BY <2>3 DEF ExistsBijection
<1>9. IsFiniteSet(I) /\ Cardinality(I) = a - j - 1
  <2>1. j + 1 \in Int /\ a - 1 \in Int
    BY <1>1
  <2>2. IsFiniteSet(I) /\ Cardinality(I) = IF j + 1 > a - 1 THEN 0 ELSE (a - 1) - (j + 1) + 1
    BY <2>1, FS_Interval
  <2> HIDE DEF I
  <2> QED
    BY <1>1, <2>2
<1>10. Cardinality(B) = Cardinality(I)
  <2> HIDE DEF I
  <2> QED
    BY <1>8, <1>9, FS_Bijection
<1> QED
  BY <1>9, <1>10 DEF B

Near(j, a) == Max({1, a - SlideWindow}) <= j /\ j <= Min({Len(Kept), a + SlideWindow})

LEMMA TogetherIs ==
  ASSUME doc.sections \in SeqOver(Slides), NEW j \in DOMAIN Kept, NEW a \in DOMAIN Kept
  PROVE  Together(Kept[j], Kept[a]) <=> IF UseSections THEN GroupOf(j) = GroupOf(a) ELSE Near(j, a)
<1> DEFINE u == Kept[j]
           v == Kept[a]
           Cut == {s \in Dividers : Min({u, v}) < s /\ s <= Max({u, v})}
           In  == {s \in WithText : Min({u, v}) < s /\ s < Max({u, v})}
<1>1. /\ DOMAIN Kept = 1..Len(Kept) /\ Len(Kept) \in Nat /\ j \in Nat /\ a \in Nat
      /\ u \in Nat /\ v \in Nat /\ 1 <= j /\ j <= Len(Kept) /\ 1 <= a /\ a <= Len(Kept)
  <2>1. DOMAIN Kept = 1..Len(Kept) /\ Len(Kept) \in Nat /\ u \in Nat /\ v \in Nat
    BY KeptIs
  <2> QED
    BY <2>1
<1>2. u \in WithText /\ (Dividers # {} <=> UseSections)
  BY WithTextIs
<1>3. (u = v <=> j = a) /\ (u < v <=> j < a) /\ (v < u <=> a < j)
  BY KeptRises
<1> HIDE DEF u, v
<1>4. Together(u, v) <=> IF UseSections THEN Cut = {} ELSE u = v \/ Cardinality(In) < SlideWindow
  BY <1>2 DEF Together, WithText, Dividers
<1>5. j <= a => Min({u, v}) = u /\ Max({u, v}) = v
  <2> SUFFICES ASSUME j <= a PROVE Min({u, v}) = u /\ Max({u, v}) = v
    OBVIOUS
  <2>1. u <= v /\ u \in Int /\ v \in Int
    BY <1>1, <1>3
  <2> QED
    BY <2>1, PairIs
<1>6. a <= j => Min({u, v}) = v /\ Max({u, v}) = u
  <2> SUFFICES ASSUME a <= j PROVE Min({u, v}) = v /\ Max({u, v}) = u
    OBVIOUS
  <2>1. v <= u /\ u \in Int /\ v \in Int
    BY <1>1, <1>3
  <2>2. {u, v} = {v, u}
    OBVIOUS
  <2> QED
    BY <2>1, <2>2, PairIs
<1>7. Cut = {} <=> GroupOf(j) = GroupOf(a)
  <2>1. CASE j <= a
    <3>1. {s \in Dividers : u < s /\ s <= v} = {} <=> GroupOf(j) = GroupOf(a)
      BY <2>1, DividersBetween DEF u, v
    <3> QED
      BY <1>5, <2>1, <3>1
  <2>2. CASE a <= j
    <3>1. {s \in Dividers : v < s /\ s <= u} = {} <=> GroupOf(a) = GroupOf(j)
      BY <2>2, DividersBetween DEF u, v
    <3> QED
      BY <1>6, <2>2, <3>1
  <2> HIDE DEF Cut
  <2>3. j <= a \/ a <= j
    BY <1>1
  <2> QED
    BY <2>1, <2>2, <2>3
<1>8. j < a => Cardinality(In) = a - j - 1
  <2> SUFFICES ASSUME j < a PROVE Cardinality(In) = a - j - 1
    OBVIOUS
  <2>1. Cardinality({s \in WithText : u < s /\ s < v}) = a - j - 1
    BY CountBetween DEF u, v
  <2>2. Min({u, v}) = u /\ Max({u, v}) = v
    BY <1>1, <1>5
  <2> QED
    BY <2>1, <2>2
<1>9. a < j => Cardinality(In) = j - a - 1
  <2> SUFFICES ASSUME a < j PROVE Cardinality(In) = j - a - 1
    OBVIOUS
  <2>1. Cardinality({s \in WithText : v < s /\ s < u}) = j - a - 1
    BY CountBetween DEF u, v
  <2>2. Min({u, v}) = v /\ Max({u, v}) = u
    BY <1>1, <1>6
  <2> QED
    BY <2>1, <2>2
<1>10. Near(j, a) <=> a - SlideWindow <= j /\ j <= a + SlideWindow
  <2>1. SlideWindow \in Nat
    BY SlideSettingsAssumption
  <2>2. /\ Max({1, a - SlideWindow}) \in {1, a - SlideWindow}
        /\ 1 <= Max({1, a - SlideWindow}) /\ a - SlideWindow <= Max({1, a - SlideWindow})
    <3>1. {1, a - SlideWindow} \subseteq Int /\ {1, a - SlideWindow} # {} /\ a \in Int /\ \A x \in {1, a - SlideWindow} : x <= a
      BY <1>1, <2>1
    <3> QED
      BY <3>1, MaxIs
  <2>3. /\ Min({Len(Kept), a + SlideWindow}) \in {Len(Kept), a + SlideWindow}
        /\ Min({Len(Kept), a + SlideWindow}) <= Len(Kept) /\ Min({Len(Kept), a + SlideWindow}) <= a + SlideWindow
    <3>1. Len(Kept) \in Int /\ a + SlideWindow \in Int
      BY <1>1, <2>1
    <3> QED
      BY <3>1, MinOfTwo
  <2> QED
    BY <1>1, <2>1, <2>2, <2>3 DEF Near
<1>11. (u = v \/ Cardinality(In) < SlideWindow) <=> Near(j, a)
  <2>1. SlideWindow \in Nat
    BY SlideSettingsAssumption
  <2> HIDE DEF In
  <2>2. CASE j = a
    BY <1>1, <1>3, <1>10, <2>1, <2>2
  <2>3. CASE j < a
    <3>1. u # v /\ (Cardinality(In) < SlideWindow <=> a - j - 1 < SlideWindow)
      BY <1>1, <1>3, <1>8, <2>3
    <3> QED
      BY <1>1, <1>10, <2>1, <2>3, <3>1
  <2>4. CASE a < j
    <3>1. u # v /\ (Cardinality(In) < SlideWindow <=> j - a - 1 < SlideWindow)
      BY <1>1, <1>3, <1>9, <2>4
    <3> QED
      BY <1>1, <1>10, <2>1, <2>4, <3>1
  <2> QED
    BY <1>1, <2>2, <2>3, <2>4
<1> QED
  BY <1>4, <1>7, <1>11 DEF u, v

WindowAround(s) == WindowOf(CHOOSE i \in DOMAIN Kept : Kept[i] = s)
Shown(w)        == [k \in DOMAIN w |-> SlideText(doc.sections[w[k]])]
Chosen(m)       == [k \in DOMAIN m |-> Kept[m[k]]]

\* Some of the kept slides, in their order.
LEMMA ChosenIs ==
  ASSUME doc.sections \in SeqOver(Slides), NEW m \in SeqOver(Nat), Rising(m), ToSet(m) \subseteq DOMAIN Kept
  PROVE  /\ Chosen(m) \in SeqOver(Nat) /\ Rising(Chosen(m)) /\ ToSet(Chosen(m)) = {Kept[j] : j \in ToSet(m)}
         /\ Shown(Chosen(m)) = [k \in DOMAIN m |-> KeptTexts[m[k]]]
         /\ Shown(Chosen(m)) \in SeqOver(SlideWords)
<1>1. Len(m) \in Nat /\ DOMAIN m = 1..Len(m) /\ \A k \in DOMAIN m : m[k] \in DOMAIN Kept /\ m[k] \in Nat
  BY Items DEF ToSet
<1>2. \A j \in DOMAIN Kept : Kept[j] \in Nat /\ Kept[j] \in DOMAIN doc.sections
  BY KeptIs
<1>3. DOMAIN Chosen(m) = 1..Len(m) /\ \A k \in 1..Len(m) : Chosen(m)[k] = Kept[m[k]]
  BY <1>1 DEF Chosen
<1>4. Chosen(m) \in SeqOver(Nat)
  <2>1. Chosen(m) \in [1..Len(m) -> Nat]
    BY <1>1, <1>2 DEF Chosen
  <2> QED
    BY <1>1, <2>1, Listed
<1>5. Rising(Chosen(m))
  <2>1. ASSUME NEW k \in 1..Len(m), NEW l \in 1..Len(m), k < l PROVE Kept[m[k]] < Kept[m[l]]
    <3>1. m[k] < m[l] /\ m[k] \in DOMAIN Kept /\ m[l] \in DOMAIN Kept
      BY <1>1, <2>1 DEF Rising
    <3> QED
      BY <3>1, KeptRises
  <2> QED
    BY <1>3, <2>1 DEF Rising
<1>6. ToSet(Chosen(m)) = {Kept[j] : j \in ToSet(m)}
  BY <1>1, <1>3 DEF ToSet
<1>7. \A j \in DOMAIN Kept : KeptTexts[j] = SlideText(doc.sections[Kept[j]])
  BY DEF KeptTexts
<1>8. Shown(Chosen(m)) = [k \in DOMAIN m |-> KeptTexts[m[k]]]
  BY <1>1, <1>3, <1>7 DEF Shown
<1>9. Shown(Chosen(m)) \in SeqOver(SlideWords)
  <2>1. \A s \in DOMAIN doc.sections : SlideText(doc.sections[s]) \in SlideWords
    BY Items, SlideTextIs
  <2>2. Shown(Chosen(m)) \in [1..Len(m) -> SlideWords]
    BY <1>1, <1>2, <1>3, <2>1 DEF Shown
  <2> QED
    BY <1>1, <2>2, Listed
<1> QED
  BY <1>4, <1>5, <1>6, <1>8, <1>9

LEMMA WindowChosen ==
  ASSUME doc.sections \in SeqOver(Slides), NEW a \in DOMAIN Kept
  PROVE  \E m \in SeqOver(Nat) :
           /\ Rising(m) /\ WindowOf(a) = [k \in DOMAIN m |-> KeptTexts[m[k]]]
           /\ ToSet(m) = {j \in DOMAIN Kept : Together(Kept[j], Kept[a])}
<1>1. /\ Kept \in SeqOver(Nat) /\ Len(Kept) \in Nat /\ DOMAIN Kept = 1..Len(Kept)
  BY KeptIs
<1>2. \A j \in DOMAIN Kept : Together(Kept[j], Kept[a]) <=> IF UseSections THEN GroupOf(j) = GroupOf(a) ELSE Near(j, a)
  BY TogetherIs
<1>3. CASE UseSections
  <2> DEFINE T == {j \in DOMAIN Kept : GroupOf(j) = GroupOf(a)}
             m == Only(Places(Kept), T)
  <2>1. m \in SeqOver(Nat) /\ Rising(m) /\ ToSet(m) = DOMAIN Kept \cap T
    <3> HIDE DEF T
    <3> QED
      BY <1>1, PlacesAre
  <2>2. WindowOf(a) = [k \in DOMAIN m |-> KeptTexts[m[k]]]
    <3>1. WindowOf(a) = SectionWindow(a)
      BY <1>3, Zenon DEF WindowOf
    <3> QED
      BY <3>1, Zenon DEF SectionWindow
  <2>3. ToSet(m) = {j \in DOMAIN Kept : Together(Kept[j], Kept[a])}
    <3> HIDE DEF m
    <3> QED
      BY <1>2, <1>3, <2>1
  <2> HIDE DEF m
  <2> QED
    BY <2>1, <2>2, <2>3
<1>4. CASE ~UseSections
  <2> DEFINE lo == Max({1, a - SlideWindow})
             hi == Min({Len(Kept), a + SlideWindow})
             n  == hi - lo + 1
             m  == [k \in 1..n |-> lo + k - 1]
  <2>1. lo \in Nat /\ hi \in Nat /\ 1 <= lo /\ lo <= a /\ a <= hi /\ hi <= Len(Kept) /\ n \in Nat
    <3>1. SlideWindow \in Nat /\ a \in Nat /\ 1 <= a /\ a <= Len(Kept)
      BY <1>1, SlideSettingsAssumption
    <3>2. lo \in {1, a - SlideWindow} /\ 1 <= lo
      <4>1. {1, a - SlideWindow} \subseteq Int /\ {1, a - SlideWindow} # {} /\ a \in Int /\ \A x \in {1, a - SlideWindow} : x <= a
        BY <3>1
      <4> QED
        BY <4>1, MaxIs
    <3>3. hi \in {Len(Kept), a + SlideWindow} /\ hi <= Len(Kept)
      <4>1. Len(Kept) \in Int /\ a + SlideWindow \in Int
        BY <1>1, <3>1
      <4> QED
        BY <4>1, MinOfTwo
    <3> HIDE DEF lo, hi
    <3> QED
      BY <1>1, <3>1, <3>2, <3>3
  <2>2. WindowOf(a) = SubSeq(KeptTexts, lo, hi)
    BY <1>4, Zenon DEF WindowOf, ParentWindow
  <2>3. \A j \in DOMAIN Kept : Near(j, a) <=> lo <= j /\ j <= hi
    BY DEF Near
  <2> HIDE DEF lo, hi
  <2>4. m \in [1..n -> Nat] /\ \A k \in 1..n : m[k] = lo + k - 1
    BY <2>1
  <2>5. m \in SeqOver(Nat) /\ DOMAIN m = 1..n
    BY <2>1, <2>4, Listed
  <2>6. KeptTexts \in SeqOver(SlideWords) /\ Len(KeptTexts) = Len(Kept)
    <3>1. \A s \in DOMAIN doc.sections : SlideText(doc.sections[s]) \in SlideWords
      BY Items, SlideTextIs
    <3>2. \A j \in DOMAIN Kept : Kept[j] \in DOMAIN doc.sections
      BY KeptIs
    <3>3. KeptTexts \in [1..Len(Kept) -> SlideWords]
      BY <1>1, <3>1, <3>2 DEF KeptTexts
    <3>4. KeptTexts \in SeqOver(SlideWords)
      BY <1>1, <3>3, Listed
    <3>5. Len(KeptTexts) \in Nat /\ DOMAIN KeptTexts = 1..Len(KeptTexts) /\ DOMAIN KeptTexts = 1..Len(Kept)
      BY <3>3, <3>4, Items
    <3> QED
      BY <1>1, <3>4, <3>5, SameLength
  <2>7. SubSeq(KeptTexts, lo, hi) = [k \in 1..n |-> KeptTexts[lo + k - 1]]
    <3> HIDE DEF m
    <3>1. /\ SubSeq(KeptTexts, lo, hi) \in Seq(SlideWords) /\ Len(SubSeq(KeptTexts, lo, hi)) = n
          /\ \A k \in 1..n : SubSeq(KeptTexts, lo, hi)[k] = KeptTexts[lo + k - 1]
      BY <2>1, <2>6 DEF SeqOver
    <3>2. \A t \in Seq(SlideWords) : t = [k \in 1..Len(t) |-> t[k]]
      OBVIOUS
    <3> HIDE DEF n
    <3>3. SubSeq(KeptTexts, lo, hi) = [k \in 1..n |-> SubSeq(KeptTexts, lo, hi)[k]]
      BY <3>1, <3>2
    <3> QED
      BY <3>1, <3>3
  <2>8. WindowOf(a) = [k \in DOMAIN m |-> KeptTexts[m[k]]]
    BY <2>2, <2>4, <2>5, <2>7
  <2>9. Rising(m)
    BY <2>1, <2>4, <2>5 DEF Rising
  <2>10. ToSet(m) = {j \in DOMAIN Kept : lo <= j /\ j <= hi}
    <3>1. \A k \in 1..n : lo + k - 1 \in DOMAIN Kept /\ lo <= lo + k - 1 /\ lo + k - 1 <= hi
      BY <1>1, <2>1
    <3>2. ASSUME NEW j \in DOMAIN Kept, lo <= j, j <= hi PROVE \E k \in 1..n : lo + k - 1 = j
      <4>1. j - lo + 1 \in 1..n /\ lo + (j - lo + 1) - 1 = j
        BY <1>1, <2>1, <3>2
      <4> QED
        BY <4>1
    <3> HIDE DEF n
    <3> QED
      BY <2>4, <2>5, <3>1, <3>2 DEF ToSet
  <2>11. ToSet(m) = {j \in DOMAIN Kept : Together(Kept[j], Kept[a])}
    <3> HIDE DEF m
    <3> QED
      BY <1>2, <1>4, <2>3, <2>10
  <2> HIDE DEF m
  <2> QED
    BY <2>5, <2>8, <2>9, <2>11
<1> QED
  BY <1>3, <1>4

\* The window or the group of a slide is what the property says, and its text too.
LEMMA WindowIs ==
  ASSUME doc.sections \in SeqOver(Slides), NEW s \in DOMAIN doc.sections, ~IsEmptySlide(doc.sections[s])
  PROVE  /\ WindowAround(s) = Shown(Only(Places(doc.sections), {t \in DOMAIN doc.sections : Together(t, s)}))
         /\ WindowAround(s) \in SeqOver(SlideWords)
<1> DEFINE a == CHOOSE i \in DOMAIN Kept : Kept[i] = s
           T == {t \in DOMAIN doc.sections : Together(t, s)}
           w == Only(Places(doc.sections), T)
<1>1. \E i \in DOMAIN Kept : Kept[i] = s
  BY KeptIs
<1>2. a \in DOMAIN Kept /\ Kept[a] = s
  BY <1>1
<1>3. WindowAround(s) = WindowOf(a)
  BY DEF WindowAround
<1> HIDE DEF a
<1>4. PICK m \in SeqOver(Nat) :
        /\ Rising(m) /\ WindowOf(a) = [k \in DOMAIN m |-> KeptTexts[m[k]]]
        /\ ToSet(m) = {j \in DOMAIN Kept : Together(Kept[j], s)}
  BY <1>2, WindowChosen
<1>5. ToSet(m) \subseteq DOMAIN Kept
  BY <1>4
<1>6. /\ Chosen(m) \in SeqOver(Nat) /\ Rising(Chosen(m)) /\ ToSet(Chosen(m)) = {Kept[j] : j \in ToSet(m)}
      /\ Shown(Chosen(m)) = [k \in DOMAIN m |-> KeptTexts[m[k]]]
      /\ Shown(Chosen(m)) \in SeqOver(SlideWords)
  BY <1>4, <1>5, ChosenIs
<1>7. w \in SeqOver(Nat) /\ Rising(w) /\ ToSet(w) = DOMAIN doc.sections \cap T
  <2> HIDE DEF T
  <2> QED
    BY PlacesAre
<1>8. ToSet(w) = {Kept[j] : j \in ToSet(m)}
  <2>1. \A t : Together(t, s) => t \in WithText
    BY DEF Together, WithText
  <2>2. \A t \in T : \E j \in DOMAIN Kept : Kept[j] = t /\ Together(Kept[j], s)
    BY <2>1, WithTextIs
  <2>3. \A j \in DOMAIN Kept : Kept[j] \in DOMAIN doc.sections
    BY KeptIs
  <2> HIDE DEF w
  <2>4. \A t \in ToSet(w) : \E j \in ToSet(m) : Kept[j] = t
    BY <1>4, <1>7, <2>2
  <2>5. \A j \in ToSet(m) : Kept[j] \in ToSet(w)
    BY <1>4, <1>7, <2>3
  <2> HIDE DEF T
  <2> QED
    BY <2>4, <2>5
<1>9. w = Chosen(m)
  <2> HIDE DEF w
  <2> QED
    BY <1>6, <1>7, <1>8, RisingUnique
<1> QED
  BY <1>3, <1>4, <1>6, <1>9

----------------------------------------------------------------------------
\* The slide chunker: what has been emitted.

SlideChunk ==
  {c \in ChunkOf(SlideWords \cup SeqOver(SlideWords)) :
     /\ c.block = "slide"
     /\ \/ c.role = "parent" /\ c.text \in SeqOver(SlideWords)
        \/ c.role = "child" /\ c.text \in SlideWords}
SlideKids(s) == {c \in SlideChunk : c.role = "child" /\ c.section = s}
Windowed(cs) ==
  \A i \in DOMAIN cs : cs[i].role = "child" =>
    ~IsEmptySlide(doc.sections[cs[i].section]) /\ cs[cs[i].parent].text = WindowAround(cs[i].section)
ParentsDiffer(cs) ==
  \A i, j \in DOMAIN cs : cs[i].role = "parent" /\ cs[j].role = "parent" /\ cs[i].text = cs[j].text => i = j

\* Every parent but q has a child.
Used(cs, q) == \A i \in DOMAIN cs : cs[i].role = "parent" => i = q \/ \E c \in DOMAIN cs : cs[c].parent = i
UpTo(cs, s) == \A i \in DOMAIN cs : cs[i].section \in 1..s
SlideTyped ==
  /\ doc.sections \in SeqOver(Slides) /\ section \in 0..Len(doc.sections)
  /\ childOrd \in Nat /\ parentOrd \in Nat
  /\ chunks \in SeqOver(SlideChunk)
SlidePlaced  == Numbers(chunks, childOrd, parentOrd) /\ Resolved(chunks) /\ UpTo(chunks, section)
SlideTold    == \A s \in 1..section : Told(SlideChunk, chunks, SlideKids(s)) = SlideText(doc.sections[s])
SlideWindows == Windowed(chunks) /\ ParentsDiffer(chunks) /\ Used(chunks, 0)
SlideInv == SlideTyped /\ SlidePlaced /\ SlideTold /\ SlideWindows

LEMMA SlideFacts ==
  ASSUME SlideTyped
  PROVE  /\ doc.sections \in SeqOver(Slides) /\ Len(doc.sections) \in Nat
         /\ DOMAIN doc.sections = 1..Len(doc.sections)
         /\ \A s \in 1..Len(doc.sections) : doc.sections[s] \in Slides /\ SlideText(doc.sections[s]) \in SlideWords
         /\ section \in Nat /\ section <= Len(doc.sections) /\ \A s \in 1..section : s \in 1..Len(doc.sections)
         /\ childOrd \in Nat /\ parentOrd \in Nat /\ chunks \in SeqOver(SlideChunk)
<1>1. /\ doc.sections \in SeqOver(Slides) /\ section \in 0..Len(doc.sections)
      /\ childOrd \in Nat /\ parentOrd \in Nat /\ chunks \in SeqOver(SlideChunk)
  BY DEF SlideTyped
<1>2. Len(doc.sections) \in Nat /\ DOMAIN doc.sections = 1..Len(doc.sections)
      /\ \A s \in DOMAIN doc.sections : doc.sections[s] \in Slides
  BY <1>1, Items
<1>3. \A x \in Slides : SlideText(x) \in SlideWords
  BY SlideTextIs
<1> QED
  BY <1>1, <1>2, <1>3

LEMMA SlideChunksAre ==
  ASSUME NEW cs \in SeqOver(SlideChunk)
  PROVE  /\ cs \in SeqOver(ChunkOf(SlideWords \cup SeqOver(SlideWords)))
         /\ Len(cs) \in Nat /\ DOMAIN cs = 1..Len(cs)
         /\ \A i \in DOMAIN cs :
              /\ cs[i] \in SlideChunk /\ cs[i].role \in {"parent", "child"} /\ cs[i].block = "slide"
              /\ cs[i].section \in Nat /\ cs[i].parent \in Nat /\ ~TextParent(cs[i])
         /\ \A s : Speaks(SlideChunk, SlideKids(s), STRING)
<1>1. Len(cs) \in Nat /\ DOMAIN cs = 1..Len(cs) /\ \A i \in DOMAIN cs : cs[i] \in SlideChunk
  BY Items
<1>2. \A c \in SlideChunk : /\ c \in ChunkOf(SlideWords \cup SeqOver(SlideWords)) /\ c.role \in {"parent", "child"}
                            /\ c.block = "slide" /\ c.section \in Nat /\ c.parent \in Nat /\ ~TextParent(c)
                            /\ c.role = "child" => c.text \in SeqOver(STRING)
  BY DEF SlideChunk, ChunkOf, TextParent, SlideWords
<1>3. cs \in SeqOver(ChunkOf(SlideWords \cup SeqOver(SlideWords)))
  <2>1. cs = [i \in 1..Len(cs) |-> cs[i]]
    BY DEF SeqOver
  <2>2. cs \in [1..Len(cs) -> ChunkOf(SlideWords \cup SeqOver(SlideWords))]
    BY <1>1, <1>2, <2>1
  <2> QED
    BY <1>1, <2>2, Listed
<1>4. \A s : Speaks(SlideChunk, SlideKids(s), STRING)
  BY <1>2 DEF Speaks, SlideKids
<1> QED
  BY <1>1, <1>2, <1>3, <1>4

\* The windows depend on the document alone.
LEMMA WindowStays ==
  ASSUME doc' = doc
  PROVE  \A s : WindowAround(s)' = WindowAround(s)
<1>1. Kept' = Kept
  BY DEF Kept
<1>2. KeptTexts' = KeptTexts
  BY <1>1 DEF KeptTexts
<1>3. UseSections' = UseSections
  BY <1>1 DEF UseSections
<1>4. ASSUME NEW j PROVE GroupOf(j)' = GroupOf(j)
  BY <1>1 DEF GroupOf
<1>5. ASSUME NEW i PROVE SectionWindow(i)' = SectionWindow(i)
  <2>1. {j \in DOMAIN Kept : GroupOf(j) = GroupOf(i)}' = {j \in DOMAIN Kept : GroupOf(j) = GroupOf(i)}
    BY <1>1, <1>4
  <2> QED
    BY <1>1, <1>2, <2>1 DEF SectionWindow
<1>6. ASSUME NEW i PROVE ParentWindow(i)' = ParentWindow(i)
  BY <1>1, <1>2 DEF ParentWindow
<1>7. ASSUME NEW i PROVE WindowOf(i)' = WindowOf(i)
  BY <1>3, <1>5, <1>6 DEF WindowOf
<1>8. ASSUME NEW s PROVE (CHOOSE i \in DOMAIN Kept : Kept[i] = s)' = CHOOSE i \in DOMAIN Kept : Kept[i] = s
  BY <1>1
<1>9. ASSUME NEW s PROVE WindowAround(s)' = WindowAround(s)
  BY <1>7, <1>8 DEF WindowAround
<1> QED
  BY <1>9

\* Children of a parent that is there.
LEMMA KidsResolve ==
  ASSUME NEW X, NEW cs \in SeqOver(ChunkOf(X)), NEW kids \in SeqOver(ChunkOf(X)),
         NEW block, NEW p \in DOMAIN cs, NEW ord, NEW s, NEW texts, Kids(kids, block, p, ord, s, texts),
         Resolved(cs), cs[p].role = "parent", cs[p].section = s \/ block = "slide"
  PROVE  Resolved(Join(cs, kids))
<1> DEFINE new == Join(cs, kids)
<1>1. /\ Len(cs) \in Nat /\ DOMAIN cs = 1..Len(cs) /\ DOMAIN kids = 1..Len(kids) /\ Len(kids) \in Nat
      /\ (\A i \in DOMAIN cs : i \in DOMAIN new /\ new[i] = cs[i])
      /\ (\A k \in DOMAIN kids : new[Len(cs) + k] = kids[k])
      /\ \A i \in DOMAIN new : i \in DOMAIN cs \/ \E k \in DOMAIN kids : i = Len(cs) + k
  BY Items, JoinItems
<1>2. \A k \in DOMAIN kids : kids[k].role = "child" /\ kids[k].block = block /\ kids[k].parent = p /\ kids[k].section = s
  BY KidFields
<1> HIDE DEF new
<1>3. \A j \in DOMAIN new : TextParent(new[j]) => j \in DOMAIN cs /\ TextParent(cs[j]) /\ new[j] = cs[j]
  <2> TAKE j \in DOMAIN new
  <2>1. CASE j \in DOMAIN cs
    BY <1>1, <2>1
  <2>2. CASE j \notin DOMAIN cs
    <3>1. PICK k \in DOMAIN kids : j = Len(cs) + k
      BY <1>1, <2>2
    <3>2. new[j].role = "child"
      BY <1>1, <1>2, <3>1
    <3> QED
      BY <3>2 DEF TextParent
  <2> QED
    BY <2>1, <2>2
<1>4. ASSUME NEW i \in DOMAIN new, new[i].role = "child" PROVE Resolves(new, i, new[i])
  <2>1. CASE i \in DOMAIN cs
    <3>1. Resolves(cs, i, cs[i]) /\ new[i] = cs[i]
      BY <1>1, <1>4, <2>1 DEF Resolved
    <3>2. cs[i].parent \in 1..(i - 1) /\ cs[i].parent \in DOMAIN cs
      BY <1>1, <2>1, <3>1 DEF Resolves
    <3>3. new[cs[i].parent] = cs[cs[i].parent]
      BY <1>1, <3>2
    <3> QED
      BY <1>3, <3>1, <3>2, <3>3 DEF Resolves
  <2>2. CASE i \notin DOMAIN cs
    <3>1. PICK k \in DOMAIN kids : i = Len(cs) + k
      BY <1>1, <1>4, <2>2
    <3>2. new[i] = kids[k] /\ new[p] = cs[p]
      BY <1>1, <3>1
    <3>3. p \in 1..(i - 1)
      BY <1>1, <3>1
    <3> QED
      BY <1>2, <3>2, <3>3 DEF Resolves
  <2> QED
    BY <2>1, <2>2
<1> QED
  BY <1>4 DEF Resolved, new

\* The parent of the next children: one with their window, or a new one.
Ready(cs, p, window) ==
  /\ cs \in SeqOver(SlideChunk) /\ p \in DOMAIN cs /\ cs[p].role = "parent" /\ cs[p].text = window
  /\ Resolved(cs) /\ Windowed(cs) /\ ParentsDiffer(cs) /\ Used(cs, p)
  /\ UpTo(cs, section + 1)
  /\ \A s : Told(SlideChunk, cs, SlideKids(s)) = Told(SlideChunk, chunks, SlideKids(s))

LEMMA SameWindow ==
  ASSUME SlideInv, NEW window, NEW p \in DOMAIN chunks, chunks[p].role = "parent", chunks[p].text = window
  PROVE  Ready(chunks, p, window)
<1>1. chunks \in SeqOver(SlideChunk) /\ section \in Nat
  BY SlideFacts DEF SlideInv
<1>2. Resolved(chunks) /\ Windowed(chunks) /\ ParentsDiffer(chunks) /\ Used(chunks, 0) /\ UpTo(chunks, section)
  BY DEF SlideInv, SlidePlaced, SlideWindows
<1>3. 0 \notin DOMAIN chunks
  <2>1. DOMAIN chunks = 1..Len(chunks)
    BY <1>1, Items
  <2> QED
    BY <2>1
<1>4. Used(chunks, p)
  BY <1>2, <1>3 DEF Used
<1>5. UpTo(chunks, section + 1)
  <2>1. \A s \in 1..section : s \in 1..(section + 1)
    BY <1>1
  <2> QED
    BY <1>2, <2>1 DEF UpTo
<1> QED
  BY <1>1, <1>2, <1>4, <1>5 DEF Ready

LEMMA NewWindow ==
  ASSUME SlideInv, section < Len(doc.sections), NEW window \in SeqOver(SlideWords),
         \A i \in DOMAIN chunks : chunks[i].role = "parent" => chunks[i].text # window,
         NEW h, h = Chunk("parent", "slide", NoParent, parentOrd, section + 1, window)
  PROVE  /\ Ready(Append(chunks, h), Len(chunks) + 1, window)
         /\ Numbers(Append(chunks, h), childOrd, parentOrd + 1)
<1> DEFINE new == Append(chunks, h)
           n   == Len(chunks) + 1
<1>1. /\ chunks \in SeqOver(SlideChunk) /\ section \in Nat /\ childOrd \in Nat /\ parentOrd \in Nat
      /\ \A s \in 1..section : s \in 1..(section + 1)
  <2>1. chunks \in SeqOver(SlideChunk) /\ section \in Nat /\ childOrd \in Nat /\ parentOrd \in Nat
    BY SlideFacts DEF SlideInv
  <2> QED
    BY <2>1
<1>2. Resolved(chunks) /\ Windowed(chunks) /\ ParentsDiffer(chunks) /\ Used(chunks, 0) /\ UpTo(chunks, section)
      /\ Numbers(chunks, childOrd, parentOrd)
  BY DEF SlideInv, SlidePlaced, SlideWindows
<1>3. /\ h.role = "parent" /\ h.block = "slide" /\ h.text = window /\ h.section = section + 1 /\ h.ord = parentOrd /\ h.parent = 0
      /\ h = [role |-> "parent", block |-> "slide", parent |-> 0, ord |-> parentOrd, section |-> section + 1, text |-> window]
  BY DEF Chunk, NoParent
<1>4. /\ h \in SlideChunk /\ h \in ChunkOf(SlideWords \cup SeqOver(SlideWords)) /\ ~TextParent(h)
      /\ \A s : h \notin SlideKids(s)
  <2>1. section + 1 \in Nat /\ 0 \in Nat
    BY <1>1
  <2>2. h \in ChunkOf(SlideWords \cup SeqOver(SlideWords))
    BY <1>1, <1>3, <2>1 DEF ChunkOf
  <2> QED
    BY <1>3, <2>2 DEF SlideChunk, TextParent, SlideKids
<1>5. /\ Len(chunks) \in Nat /\ DOMAIN chunks = 1..Len(chunks)
      /\ \A i \in DOMAIN chunks : chunks[i].parent \in Nat
      /\ chunks \in SeqOver(ChunkOf(SlideWords \cup SeqOver(SlideWords)))
      /\ \A s : Speaks(SlideChunk, SlideKids(s), STRING)
  BY <1>1, SlideChunksAre
<1>6. /\ new[n] = h /\ n \in DOMAIN new /\ (\A i \in DOMAIN chunks : i \in DOMAIN new /\ new[i] = chunks[i])
      /\ \A i \in DOMAIN new : i \in DOMAIN chunks \/ i = n
  BY <1>1, <1>4, AppendItems
<1>7. new \in SeqOver(SlideChunk)
  BY <1>1, <1>4, AppendType
<1>8. Numbers(new, childOrd, parentOrd + 1)
  BY <1>1, <1>2, <1>3, <1>4, <1>5, NumbersParent
<1>9. Resolved(new)
  BY <1>2, <1>3, <1>4, <1>5, ResolvedAppend
<1>10. \A s : Told(SlideChunk, new, SlideKids(s)) = Told(SlideChunk, chunks, SlideKids(s))
  BY <1>1, <1>4, <1>5, ToldAppend
<1> HIDE DEF new, n
<1>11. UpTo(new, section + 1)
  <2>1. section + 1 \in 1..(section + 1)
    BY <1>1
  <2> QED
    BY <1>1, <1>2, <1>3, <1>6, <2>1 DEF UpTo
<1>12. Windowed(new)
  <2> SUFFICES ASSUME NEW i \in DOMAIN new, new[i].role = "child"
               PROVE  ~IsEmptySlide(doc.sections[new[i].section]) /\ new[new[i].parent].text = WindowAround(new[i].section)
    BY DEF Windowed
  <2>1. i \in DOMAIN chunks /\ new[i] = chunks[i]
    BY <1>3, <1>6
  <2>2. chunks[i].parent \in DOMAIN chunks
    <3>1. chunks[i].parent \in 1..(i - 1)
      BY <1>2, <2>1 DEF Resolved, Resolves
    <3> QED
      BY <1>5, <2>1, <3>1
  <2> QED
    BY <1>2, <1>6, <2>1, <2>2 DEF Windowed
<1>13. ParentsDiffer(new)
  BY <1>2, <1>3, <1>6 DEF ParentsDiffer
<1>14. Used(new, n)
  <2>1. 0 \notin DOMAIN chunks
    BY <1>5
  <2> QED
    BY <1>2, <1>6, <2>1 DEF Used
<1> QED
  BY <1>3, <1>6, <1>7, <1>8, <1>9, <1>10, <1>11, <1>12, <1>13, <1>14 DEF Ready, new, n

\* The children of the next slide.
LEMMA SlideKidsAdded ==
  ASSUME SlideInv, section < Len(doc.sections), ~IsEmptySlide(doc.sections[section + 1]),
         NEW cs, NEW p, Ready(cs, p, WindowAround(section + 1)), NEW q \in Nat, Numbers(cs, childOrd, q),
         NEW pieces \in SeqOver(SlideWords), FlattenSeq(pieces) = SlideText(doc.sections[section + 1]),
         doc' = doc, section' = section + 1, parentOrd' = q, childOrd' = childOrd + Len(pieces),
         chunks' = Join(cs, ChildChunks("slide", p, section + 1, pieces))
  PROVE  SlideInv'
<1> DEFINE k    == section + 1
           kids == ChildChunks("slide", p, k, pieces)
<1>1. /\ doc.sections \in SeqOver(Slides) /\ Len(doc.sections) \in Nat /\ DOMAIN doc.sections = 1..Len(doc.sections)
      /\ \A s \in 1..Len(doc.sections) : doc.sections[s] \in Slides /\ SlideText(doc.sections[s]) \in SlideWords
      /\ section \in Nat /\ childOrd \in Nat /\ chunks \in SeqOver(SlideChunk)
  BY SlideFacts DEF SlideInv
<1>2. k \in 1..Len(doc.sections) /\ k \in Nat /\ k \in 1..k /\ k \in 0..Len(doc.sections)
      /\ \A s \in 1..k : s \in 1..section \/ s = k
  BY <1>1
<1>3. /\ cs \in SeqOver(SlideChunk) /\ p \in DOMAIN cs /\ cs[p].role = "parent" /\ cs[p].text = WindowAround(k)
      /\ Resolved(cs) /\ Windowed(cs) /\ ParentsDiffer(cs) /\ Used(cs, p) /\ UpTo(cs, k)
      /\ \A s : Told(SlideChunk, cs, SlideKids(s)) = Told(SlideChunk, chunks, SlideKids(s))
  BY DEF Ready
<1>4. /\ Len(cs) \in Nat /\ DOMAIN cs = 1..Len(cs) /\ cs \in SeqOver(ChunkOf(SlideWords \cup SeqOver(SlideWords)))
      /\ \A s : Speaks(SlideChunk, SlideKids(s), STRING)
  BY <1>3, SlideChunksAre
<1>5. p \in Nat
  BY <1>3, <1>4
<1>6. Kids(kids, "slide", p, childOrd, k, pieces) /\ Len(kids) = Len(pieces) /\ kids \in SeqOver(ChunkOf(SlideWords))
  BY <1>1, <1>2, <1>5, ChildChunksAre
<1>7. pieces # <<>>
  <2>1. SlideText(doc.sections[k]) # <<>>
    BY <1>1, <1>2, SlideTextIs
  <2> QED
    BY <2>1, FlattenNothing
<1> HIDE DEF kids
<1>8. /\ Len(kids) \in Nat /\ DOMAIN kids = 1..Len(kids) /\ 1 \in DOMAIN kids
      /\ \A i \in DOMAIN kids : kids[i] \in SlideChunk
  <2>1. Len(kids) \in Nat /\ DOMAIN kids = 1..Len(kids) /\ \A i \in DOMAIN kids : kids[i] \in ChunkOf(SlideWords)
    BY <1>6, Items
  <2>2. \A i \in DOMAIN kids : kids[i].role = "child" /\ kids[i].block = "slide"
    BY <1>6, KidFields
  <2>3. \A c \in ChunkOf(SlideWords) : c.role = "child" /\ c.block = "slide" => c \in SlideChunk
    BY DEF ChunkOf, SlideChunk
  <2>4. Len(pieces) # 0
    BY <1>7 DEF SeqOver
  <2>5. 1 \in DOMAIN kids
    BY <1>6, <2>1, <2>4
  <2> QED
    BY <2>1, <2>2, <2>3, <2>5
<1>9. kids \in SeqOver(SlideChunk) /\ kids \in SeqOver(ChunkOf(SlideWords \cup SeqOver(SlideWords)))
  <2>1. kids = [i \in 1..Len(kids) |-> kids[i]]
    BY <1>6 DEF SeqOver
  <2>2. kids \in [1..Len(kids) -> SlideChunk]
    BY <1>8, <2>1
  <2>3. kids \in SeqOver(SlideChunk)
    BY <1>8, <2>2, Listed
  <2> QED
    BY <2>3, SlideChunksAre
<1>10. \A i \in DOMAIN kids : kids[i].role = "child" /\ kids[i].parent = p /\ kids[i].section = k
  BY <1>6, KidFields
<1>11. chunks' = Join(cs, kids)
  BY DEF kids
<1>12. /\ chunks' \in SeqOver(SlideChunk)
       /\ (\A i \in DOMAIN cs : i \in DOMAIN chunks' /\ chunks'[i] = cs[i])
       /\ (\A i \in DOMAIN kids : Len(cs) + i \in DOMAIN chunks' /\ chunks'[Len(cs) + i] = kids[i])
       /\ \A i \in DOMAIN chunks' : i \in DOMAIN cs \/ \E j \in DOMAIN kids : i = Len(cs) + j
  <2>1. Join(cs, kids) \in SeqOver(SlideChunk)
    BY <1>3, <1>9, JoinType
  <2>2. /\ (\A i \in DOMAIN cs : i \in DOMAIN Join(cs, kids) /\ Join(cs, kids)[i] = cs[i])
        /\ (\A i \in DOMAIN kids : Len(cs) + i \in DOMAIN Join(cs, kids) /\ Join(cs, kids)[Len(cs) + i] = kids[i])
        /\ \A i \in DOMAIN Join(cs, kids) : i \in DOMAIN cs \/ \E j \in DOMAIN kids : i = Len(cs) + j
    BY <1>3, <1>9, JoinItems
  <2> HIDE DEF Join
  <2> QED
    BY <1>11, <2>1, <2>2
<1>13. SlideTyped'
  <2>1. Len(pieces) \in Nat
    BY Items
  <2>2. childOrd + Len(pieces) \in Nat
    BY <1>1, <2>1
  <2> QED
    BY <1>1, <1>2, <1>12, <2>2 DEF SlideTyped
<1>14. SlidePlaced'
  <2>1. Numbers(chunks', childOrd + Len(kids), q)
    BY <1>1, <1>4, <1>6, <1>9, <1>11, NumbersKids
  <2>2. Resolved(chunks')
    BY <1>3, <1>4, <1>6, <1>9, <1>11, KidsResolve
  <2>3. UpTo(chunks', k)
    <3> SUFFICES ASSUME NEW i \in DOMAIN chunks' PROVE chunks'[i].section \in 1..k
      BY DEF UpTo
    <3>1. CASE i \in DOMAIN cs
      BY <1>3, <1>12, <3>1 DEF UpTo
    <3>2. CASE i \notin DOMAIN cs
      BY <1>2, <1>10, <1>12, <3>2
    <3> QED
      BY <3>1, <3>2
  <2> QED
    BY <1>6, <2>1, <2>2, <2>3 DEF SlidePlaced
<1>15. SlideTold'
  <2>1. ASSUME NEW s \in 1..k PROVE Told(SlideChunk, chunks', SlideKids(s)) = SlideText(doc.sections[s])
    <3>1. Speaks(SlideChunk, SlideKids(s), STRING)
      BY <1>4
    <3>2. Told(SlideChunk, cs, SlideKids(s)) = Told(SlideChunk, chunks, SlideKids(s))
      BY <1>3
    <3>3. \A i \in DOMAIN kids : kids[i] \in SlideKids(s) <=> s = k
      BY <1>8, <1>10 DEF SlideKids
    <3>4. /\ (\A i \in DOMAIN kids : kids[i] \in SlideKids(s)) =>
               Told(SlideChunk, Join(cs, kids), SlideKids(s)) = Join(Told(SlideChunk, cs, SlideKids(s)), FlattenSeq(pieces))
          /\ (\A i \in DOMAIN kids : kids[i] \notin SlideKids(s)) =>
               Told(SlideChunk, Join(cs, kids), SlideKids(s)) = Told(SlideChunk, cs, SlideKids(s))
      BY <1>3, <1>6, <1>9, <3>1, ToldMore
    <3>5. CASE s = k
      <4>1. \A i \in DOMAIN chunks : chunks[i] \notin SlideKids(s)
        <5>1. \A i \in DOMAIN chunks : chunks[i].section \in 1..section
          BY DEF SlideInv, SlidePlaced, UpTo
        <5>2. k \notin 1..section
          BY <1>1
        <5> QED
          BY <3>5, <5>1, <5>2 DEF SlideKids
      <4>2. Told(SlideChunk, chunks, SlideKids(s)) = <<>>
        BY <1>1, <3>1, <4>1, ToldNone
      <4>3. SlideText(doc.sections[k]) \in SeqOver(STRING)
        BY <1>1, <1>2 DEF SlideWords
      <4>4. Join(<<>>, FlattenSeq(pieces)) = SlideText(doc.sections[k])
        BY <4>3, JoinNothing
      <4> QED
        BY <1>11, <3>2, <3>3, <3>4, <3>5, <4>2, <4>4
    <3>6. CASE s # k
      <4>1. s \in 1..section
        BY <1>2, <3>6
      <4>2. Told(SlideChunk, chunks, SlideKids(s)) = SlideText(doc.sections[s])
        BY <4>1 DEF SlideInv, SlideTold
      <4> QED
        BY <1>11, <3>2, <3>3, <3>4, <3>6, <4>2
    <3> QED
      BY <3>5, <3>6
  <2> QED
    BY <2>1 DEF SlideTold
<1>16. Windowed(chunks)'
  <2>1. ASSUME NEW i \in DOMAIN chunks', chunks'[i].role = "child"
        PROVE  /\ ~IsEmptySlide(doc.sections[chunks'[i].section])
               /\ chunks'[chunks'[i].parent].text = WindowAround(chunks'[i].section)
    <3>1. CASE i \in DOMAIN cs
      <4>1. chunks'[i] = cs[i]
        BY <1>12, <3>1
      <4>2. cs[i].parent \in 1..(i - 1)
        BY <1>3, <2>1, <3>1, <4>1 DEF Resolved, Resolves
      <4>3. cs[i].parent \in DOMAIN cs
        BY <1>4, <3>1, <4>2
      <4> QED
        BY <1>3, <1>12, <2>1, <3>1, <4>1, <4>3 DEF Windowed
    <3>2. CASE i \notin DOMAIN cs
      <4>1. PICK j \in DOMAIN kids : i = Len(cs) + j
        BY <1>12, <2>1, <3>2
      <4>2. chunks'[i] = kids[j] /\ chunks'[p] = cs[p]
        BY <1>3, <1>12, <4>1
      <4> QED
        BY <1>3, <1>10, <4>2
    <3> QED
      BY <3>1, <3>2
  <2>2. \A s : WindowAround(s)' = WindowAround(s)
    BY WindowStays
  <2> QED
    BY <2>1, <2>2 DEF Windowed
<1>17. ParentsDiffer(chunks')
  <2>1. \A i \in DOMAIN chunks' : chunks'[i].role = "parent" => i \in DOMAIN cs /\ chunks'[i] = cs[i]
    BY <1>10, <1>12
  <2> QED
    BY <1>3, <2>1 DEF ParentsDiffer
<1>18. Used(chunks', 0)
  <2> SUFFICES ASSUME NEW i \in DOMAIN chunks', chunks'[i].role = "parent"
               PROVE  \E c \in DOMAIN chunks' : chunks'[c].parent = i
    BY DEF Used
  <2>1. i \in DOMAIN cs /\ chunks'[i] = cs[i]
    BY <1>10, <1>12
  <2>2. CASE i = p
    <3>1. Len(cs) + 1 \in DOMAIN chunks' /\ chunks'[Len(cs) + 1] = kids[1] /\ kids[1].parent = p
      BY <1>8, <1>10, <1>12
    <3> QED
      BY <2>2, <3>1
  <2>3. CASE i # p
    <3>1. PICK c \in DOMAIN cs : cs[c].parent = i
      BY <1>3, <2>1, <2>3 DEF Used
    <3> QED
      BY <1>12, <3>1
  <2> QED
    BY <2>2, <2>3
<1> QED
  BY <1>13, <1>14, <1>15, <1>16, <1>17, <1>18 DEF SlideInv, SlideWindows

\* get_parent: the first parent with this window, or the next place.
LEMMA ParentForIs ==
  ASSUME chunks \in SeqOver(SlideChunk), NEW window
  PROVE  \/ /\ ParentFor(window) \in DOMAIN chunks /\ ParentFor(window) <= Len(chunks)
            /\ chunks[ParentFor(window)].role = "parent" /\ chunks[ParentFor(window)].text = window
         \/ /\ ParentFor(window) = Len(chunks) + 1 /\ ParentFor(window) > Len(chunks)
            /\ \A i \in DOMAIN chunks : chunks[i].role = "parent" => chunks[i].text # window
<1> DEFINE same == {i \in ParentsOf("slide") : chunks[i].text = window}
<1>1. Len(chunks) \in Nat /\ DOMAIN chunks = 1..Len(chunks) /\ \A i \in DOMAIN chunks : chunks[i].block = "slide"
  BY SlideChunksAre
<1>2. \A i : i \in same <=> i \in DOMAIN chunks /\ chunks[i].role = "parent" /\ chunks[i].text = window
  BY <1>1 DEF ParentsOf
<1>3. ParentFor(window) = IF same = {} THEN Len(chunks) + 1 ELSE Min(same)
  BY DEF ParentFor
<1> HIDE DEF same
<1>4. CASE same = {}
  <2>1. ParentFor(window) = Len(chunks) + 1
    BY <1>3, <1>4
  <2>2. Len(chunks) + 1 > Len(chunks)
    BY <1>1
  <2> QED
    BY <1>2, <1>4, <2>1, <2>2
<1>5. CASE same # {}
  <2>1. \A x \in 1..Len(chunks) : x \in Nat
    OBVIOUS
  <2>2. same \in SUBSET Nat
    BY <1>1, <1>2, <2>1
  <2>3. \E x \in same : \A y \in same : x <= y
    BY <1>5, <2>2, LeastNumber
  <2>4. Min(same) \in same
    BY <2>3, Zenon DEF Min
  <2>5. ParentFor(window) \in same
    BY <1>3, <1>5, <2>4
  <2>6. ParentFor(window) \in DOMAIN chunks
    BY <1>2, <2>5
  <2>7. ParentFor(window) <= Len(chunks)
    BY <1>1, <2>6
  <2> QED
    BY <1>2, <2>5, <2>7
<1> QED
  BY <1>4, <1>5

LEMMA SlidePieces ==
  ASSUME NEW text \in SlideWords, NEW pieces \in ChildPieces(text)
  PROVE  pieces \in SeqOver(SlideWords) /\ FlattenSeq(pieces) = text
<1>1. pieces = <<text>> \/ \E cuts : pieces = Pieces(text, cuts)
  BY DEF ChildPieces
<1>2. text \in SeqOver(STRING)
  BY DEF SlideWords
<1>3. CASE pieces = <<text>>
  <2>1. <<text>> \in SeqOver(SlideWords)
    BY OneType
  <2>2. FlattenSeq(<<text>>) = text
    BY <1>2, FlattenOne
  <2> QED
    BY <1>3, <2>1, <2>2
<1>4. CASE \E cuts : pieces = Pieces(text, cuts)
  <2>1. PICK cuts : pieces = Pieces(text, cuts)
    BY <1>4
  <2>2. Pieces(text, cuts) \in SeqOver(SeqOver(STRING)) /\ FlattenSeq(Pieces(text, cuts)) = text
    BY <1>2, PiecesKeep
  <2> QED
    BY <2>1, <2>2 DEF SlideWords
<1> QED
  BY <1>1, <1>3, <1>4

\* A slide, with its window unless a parent has it already.
LEMMA SlideEmitted ==
  ASSUME SlideInv, EmitSlide
  PROVE  SlideInv'
<1> DEFINE k == section + 1
           w == WindowAround(k)
           p == ParentFor(w)
           h == Chunk("parent", "slide", NoParent, parentOrd, k, w)
<1>1. /\ section < Len(doc.sections) /\ section' = k /\ ~IsEmptySlide(doc.sections[k]) /\ doc' = doc
  BY DEF EmitSlide, NextSlide
<1>2. PICK pieces \in ChildPieces(SlideText(doc.sections[k])) :
        /\ chunks' = (IF p > Len(chunks) THEN Append(chunks, h) ELSE chunks) \o ChildChunks("slide", p, k, pieces)
        /\ parentOrd' = parentOrd + (IF p > Len(chunks) THEN 1 ELSE 0)
        /\ childOrd' = childOrd + Len(pieces)
  BY <1>1, Zenon DEF EmitSlide, WindowAround
<1>3. /\ doc.sections \in SeqOver(Slides) /\ Len(doc.sections) \in Nat /\ DOMAIN doc.sections = 1..Len(doc.sections)
      /\ \A s \in 1..Len(doc.sections) : doc.sections[s] \in Slides /\ SlideText(doc.sections[s]) \in SlideWords
      /\ section \in Nat /\ childOrd \in Nat /\ parentOrd \in Nat /\ chunks \in SeqOver(SlideChunk)
  BY SlideFacts DEF SlideInv
<1>4. k \in 1..Len(doc.sections)
  BY <1>1, <1>3
<1>5. pieces \in SeqOver(SlideWords) /\ FlattenSeq(pieces) = SlideText(doc.sections[k])
  BY <1>3, <1>4, SlidePieces
<1>6. w \in SeqOver(SlideWords)
  BY <1>1, <1>3, <1>4, WindowIs
<1>7. Len(chunks) \in Nat
  BY <1>3, Items
<1>8. \/ /\ p \in DOMAIN chunks /\ p <= Len(chunks) /\ chunks[p].role = "parent" /\ chunks[p].text = w
      \/ /\ p = Len(chunks) + 1 /\ p > Len(chunks)
         /\ \A i \in DOMAIN chunks : chunks[i].role = "parent" => chunks[i].text # w
  BY <1>3, ParentForIs
<1> HIDE DEF w, p, h
<1>9. CASE p \in DOMAIN chunks /\ p <= Len(chunks) /\ chunks[p].role = "parent" /\ chunks[p].text = w
  <2>1. Ready(chunks, p, w)
    BY <1>9, SameWindow
  <2>2. Numbers(chunks, childOrd, parentOrd)
    BY DEF SlideInv, SlidePlaced
  <2>3. ~(p > Len(chunks)) /\ parentOrd + 0 = parentOrd
    <3>1. p \in Nat
      <4>1. DOMAIN chunks = 1..Len(chunks)
        BY <1>3, Items
      <4> QED
        BY <1>9, <4>1
    <3> QED
      BY <1>3, <1>7, <1>9, <3>1
  <2>4. chunks' = Join(chunks, ChildChunks("slide", p, k, pieces)) /\ parentOrd' = parentOrd
    BY <1>2, <2>3 DEF Join
  <2>5. Ready(chunks, p, WindowAround(section + 1))
    BY <2>1 DEF w
  <2> QED
    BY <1>1, <1>2, <1>3, <1>5, <2>2, <2>4, <2>5, SlideKidsAdded
<1>10. CASE /\ p = Len(chunks) + 1 /\ p > Len(chunks)
            /\ \A i \in DOMAIN chunks : chunks[i].role = "parent" => chunks[i].text # w
  <2>1. Ready(Append(chunks, h), Len(chunks) + 1, w) /\ Numbers(Append(chunks, h), childOrd, parentOrd + 1)
    BY <1>1, <1>6, <1>10, NewWindow DEF h
  <2>2. chunks' = Join(Append(chunks, h), ChildChunks("slide", p, k, pieces)) /\ parentOrd' = parentOrd + 1
    BY <1>2, <1>10 DEF Join
  <2>3. Ready(Append(chunks, h), p, WindowAround(section + 1))
    BY <1>10, <2>1 DEF w
  <2>4. parentOrd + 1 \in Nat
    BY <1>3
  <2> QED
    BY <1>1, <1>2, <1>5, <2>1, <2>2, <2>3, <2>4, SlideKidsAdded
<1> QED
  BY <1>8, <1>9, <1>10

\* An empty slide has no text to tell.
LEMMA SlideSkipped ==
  ASSUME SlideInv, SkipSlide
  PROVE  SlideInv'
<1> DEFINE k == section + 1
<1>1. /\ section < Len(doc.sections) /\ section' = k /\ IsEmptySlide(doc.sections[k])
      /\ doc' = doc /\ childOrd' = childOrd /\ parentOrd' = parentOrd /\ chunks' = chunks
  BY DEF SkipSlide, NextSlide
<1>2. /\ doc.sections \in SeqOver(Slides) /\ Len(doc.sections) \in Nat
      /\ \A s \in 1..Len(doc.sections) : doc.sections[s] \in Slides
      /\ section \in Nat /\ childOrd \in Nat /\ parentOrd \in Nat /\ chunks \in SeqOver(SlideChunk)
  BY SlideFacts DEF SlideInv
<1>3. k \in 0..Len(doc.sections) /\ k \in 1..Len(doc.sections) /\ (\A s \in 1..k : s \in 1..section \/ s = k)
      /\ (\A s \in 1..section : s \in 1..k) /\ k \notin 1..section
  BY <1>1, <1>2
<1>4. SlideTyped'
  BY <1>1, <1>2, <1>3 DEF SlideTyped
<1>5. SlidePlaced'
  <2>1. Numbers(chunks, childOrd, parentOrd) /\ Resolved(chunks) /\ UpTo(chunks, section)
    BY DEF SlideInv, SlidePlaced
  <2>2. UpTo(chunks, k)
    BY <1>3, <2>1 DEF UpTo
  <2> QED
    BY <1>1, <2>1, <2>2 DEF SlidePlaced
<1>6. SlideTold'
  <2>1. ASSUME NEW s \in 1..k PROVE Told(SlideChunk, chunks, SlideKids(s)) = SlideText(doc.sections[s])
    <3>1. CASE s = k
      <4>1. SlideText(doc.sections[k]) = <<>>
        BY <1>1, <1>2, <1>3, SlideTextIs
      <4>2. Speaks(SlideChunk, SlideKids(s), STRING)
        BY <1>2, SlideChunksAre
      <4>3. \A i \in DOMAIN chunks : chunks[i] \notin SlideKids(s)
        <5>1. \A i \in DOMAIN chunks : chunks[i].section \in 1..section
          BY DEF SlideInv, SlidePlaced, UpTo
        <5> QED
          BY <1>3, <3>1, <5>1 DEF SlideKids
      <4>4. Told(SlideChunk, chunks, SlideKids(s)) = <<>>
        BY <1>2, <4>2, <4>3, ToldNone
      <4> QED
        BY <3>1, <4>1, <4>4
    <3>2. CASE s # k
      BY <1>3, <3>2 DEF SlideInv, SlideTold
    <3> QED
      BY <3>1, <3>2
  <2> QED
    BY <1>1, <2>1 DEF SlideTold
<1>7. SlideWindows'
  <2>1. Windowed(chunks) /\ ParentsDiffer(chunks) /\ Used(chunks, 0)
    BY DEF SlideInv, SlideWindows
  <2>2. \A s : WindowAround(s)' = WindowAround(s)
    BY <1>1, WindowStays
  <2>3. Windowed(chunks)'
    BY <1>1, <2>1, <2>2 DEF Windowed
  <2>4. ParentsDiffer(chunks)' /\ Used(chunks, 0)'
    BY <1>1, <2>1 DEF ParentsDiffer, Used
  <2> QED
    BY <2>3, <2>4 DEF SlideWindows
<1> QED
  BY <1>4, <1>5, <1>6, <1>7 DEF SlideInv

LEMMA SlideStarts ==
  ASSUME ChunkingInit', NEW type, NEW slides \in BoundedSeq(Slides, MaxSlides), doc' = Deck(type, slides)
  PROVE  SlideInv'
<1>1. section' = 0 /\ childOrd' = 0 /\ parentOrd' = 0 /\ chunks' = <<>> /\ doc'.sections = slides
  BY DEF ChunkingInit, Deck
<1>2. slides \in SeqOver(Slides) /\ Len(slides) \in Nat
  <2>1. PICK m \in Nat : slides \in [1..m -> Slides]
    BY BoundedType
  <2>2. slides \in SeqOver(Slides)
    BY <2>1, Listed
  <2> QED
    BY <2>2, Items
<1>3. SlideTyped'
  <2>1. 0 \in 0..Len(slides) /\ 0 \in Nat
    BY <1>2
  <2>2. chunks' \in SeqOver(SlideChunk)
    BY <1>1, EmptyType
  <2> QED
    BY <1>1, <1>2, <2>1, <2>2 DEF SlideTyped
<1>4. DOMAIN <<>> = {} /\ 1..0 = {}
  OBVIOUS
<1>5. SlidePlaced'
  BY <1>1, <1>4 DEF SlidePlaced, Numbers, Resolved, UpTo
<1>6. SlideTold'
  BY <1>1, <1>4 DEF SlideTold
<1>7. SlideWindows'
  BY <1>1, <1>4 DEF SlideWindows, Windowed, ParentsDiffer, Used
<1> QED
  BY <1>3, <1>5, <1>6, <1>7 DEF SlideInv

LEMMA SlideResolved ==
  ASSUME SlideInv
  PROVE  ChildrenResolve /\ OrdinalsDistinct
<1>1. SlidePlaced
  BY DEF SlideInv
<1>2. ChildrenResolve
  BY <1>1, ResolvedIs DEF SlidePlaced
<1>3. OrdinalsDistinct
  BY <1>1, NumbersDiffer DEF SlidePlaced
<1> QED
  BY <1>2, <1>3

LEMMA SlideParents ==
  ASSUME SlideInv
  PROVE  ParentsAreWindows
<1>1. /\ doc.sections \in SeqOver(Slides) /\ DOMAIN doc.sections = 1..Len(doc.sections)
      /\ \A s \in 1..section : s \in 1..Len(doc.sections)
      /\ chunks \in SeqOver(SlideChunk)
  BY SlideFacts DEF SlideInv
<1>2. Windowed(chunks) /\ ParentsDiffer(chunks) /\ Used(chunks, 0) /\ UpTo(chunks, section)
  BY DEF SlideInv, SlidePlaced, SlideWindows
<1>3. ASSUME NEW i \in DOMAIN chunks, chunks[i].block = "slide", chunks[i].role = "child"
      PROVE  chunks[chunks[i].parent].text =
               Shown(Only(Places(doc.sections), {s \in DOMAIN doc.sections : Together(s, chunks[i].section)}))
  <2>1. chunks[i].section \in DOMAIN doc.sections /\ ~IsEmptySlide(doc.sections[chunks[i].section])
    BY <1>1, <1>2, <1>3 DEF UpTo, Windowed
  <2>2. chunks[chunks[i].parent].text = WindowAround(chunks[i].section)
    BY <1>2, <1>3 DEF Windowed
  <2> QED
    BY <1>1, <2>1, <2>2, WindowIs
<1>4. ASSUME NEW i \in ParentsOf("slide")
      PROVE  /\ \A j \in ParentsOf("slide") : chunks[i].text = chunks[j].text => i = j
             /\ \E c \in DOMAIN chunks : chunks[c].parent = i
  <2>1. i \in DOMAIN chunks /\ chunks[i].role = "parent"
    BY DEF ParentsOf
  <2>2. i # 0
    <3>1. DOMAIN chunks = 1..Len(chunks)
      BY <1>1, Items
    <3> QED
      BY <2>1, <3>1
  <2>3. \E c \in DOMAIN chunks : chunks[c].parent = i
    BY <1>2, <2>1, <2>2 DEF Used
  <2>4. \A j \in ParentsOf("slide") : chunks[i].text = chunks[j].text => i = j
    BY <1>2, <2>1 DEF ParentsDiffer, ParentsOf
  <2> QED
    BY <2>3, <2>4
<1> QED
  BY <1>3, <1>4, Zenon DEF ParentsAreWindows, Shown

LEMMA SlideReturned ==
  ASSUME SlideInv, SlideDone, NEW s \in DOMAIN doc.sections
  PROVE  /\ Texts({c \in ToSet(chunks) : c.role = "child" /\ c.block = "slide" /\ c.section = s})
              = SlideText(doc.sections[s])
         /\ Warnings = {} => SlideText(doc.sections[s]) # <<>>
<1>1. /\ doc.sections \in SeqOver(Slides) /\ Len(doc.sections) \in Nat /\ DOMAIN doc.sections = 1..Len(doc.sections)
      /\ \A k \in 1..Len(doc.sections) : doc.sections[k] \in Slides
      /\ chunks \in SeqOver(SlideChunk)
  BY SlideFacts DEF SlideInv
<1>2. s \in 1..section /\ doc.sections[s] \in Slides
  BY <1>1 DEF SlideDone
<1>3. Texts({c \in ToSet(chunks) : c.role = "child" /\ c.block = "slide" /\ c.section = s}) = SlideText(doc.sections[s])
  <2> DEFINE R == {c \in ToSet(chunks) : c.role = "child" /\ c.block = "slide" /\ c.section = s}
  <2>1. R = ToSet(chunks) \cap SlideKids(s)
    <3>1. ToSet(chunks) \subseteq SlideChunk
      BY <1>1, ToSetType
    <3>2. \A c \in SlideChunk : c.block = "slide"
      BY DEF SlideChunk
    <3> QED
      BY <3>1, <3>2 DEF SlideKids
  <2>2. Speaks(SlideChunk, SlideKids(s), STRING)
    BY <1>1, SlideChunksAre
  <2> HIDE DEF R
  <2>3. Texts(R) = Told(SlideChunk, chunks, SlideKids(s))
    BY <1>1, <2>1, <2>2, TextsTold
  <2>4. Told(SlideChunk, chunks, SlideKids(s)) = SlideText(doc.sections[s])
    BY <1>2 DEF SlideInv, SlideTold
  <2> QED
    BY <2>3, <2>4 DEF R
<1>4. ASSUME Warnings = {} PROVE SlideText(doc.sections[s]) # <<>>
  <2> DEFINE T == {k \in DOMAIN doc.sections : ~IsEmptySlide(doc.sections[k])}
  <2>1. doc.type \in SlideTypes
    BY DEF SlideDone
  <2>2. ~(EmptySlides > 0)
    BY <1>4, <2>1 DEF Warnings
  <2>3. Places(doc.sections) \in SeqOver(Nat) /\ ToSet(Places(doc.sections)) = DOMAIN doc.sections
        /\ Len(Places(doc.sections)) = Len(doc.sections)
    BY <1>1, PlacesAre
  <2>4. Kept = Only(Places(doc.sections), T)
    BY DEF Kept
  <2> HIDE DEF T
  <2>5. Len(Kept) \in Nat /\ Len(Kept) <= Len(doc.sections)
        /\ (Len(Kept) = Len(doc.sections) => DOMAIN doc.sections \subseteq T)
    <3>1. Len(Kept) \in Nat
      BY <1>1, KeptIs
    <3> QED
      BY <2>3, <2>4, <3>1, OnlyLength
  <2>6. Len(Kept) = Len(doc.sections)
    BY <1>1, <2>2, <2>5 DEF EmptySlides
  <2>7. ~IsEmptySlide(doc.sections[s])
    BY <2>5, <2>6 DEF T
  <2> QED
    BY <1>2, <2>7, SlideTextIs
<1> QED
  BY <1>3, <1>4

----------------------------------------------------------------------------
\* ingest_file: the invariant of its chunker while that works and when it has returned.
TextFile    == doc.type \in TextTypes /\ TextInv /\ RowStart
SlideFile   == doc.type \in SlideTypes /\ SlideInv /\ TextStart /\ RowStart
RowFile     == doc.type \in RowTypes /\ RowInv /\ TextStart
FileChunked == TextFile \/ SlideFile \/ RowFile
Returned    == TextDone \/ SlideDone \/ RowDone
NotParsed   == doc = NoDoc /\ ChunkingInit /\ TextStart /\ RowStart
NothingLeft ==
  chunks = <<>> /\ ~TextDone /\ doc.type \notin RowTypes /\ RowTypeOK /\ section <= Len(doc.sections) + 1

FileInv ==
  \/ phase = "parse" /\ status = "none" /\ NotParsed
  \/ phase = "chunk" /\ status = "none" /\ doc.type = ext /\ FileChunked
  \/ phase = "done" /\ status = "failed" /\ NothingLeft
  \/ /\ phase = "done" /\ status \in {"success", "partial"} /\ doc.type = ext
     /\ FileChunked /\ Returned /\ (status = "success" => Warnings = {})

LEMMA TypesDiffer ==
  /\ \A t \in TextTypes : t \notin SlideTypes /\ t \notin RowTypes
  /\ \A t \in SlideTypes : t \notin TextTypes /\ t \notin RowTypes
  /\ \A t \in RowTypes : t \notin TextTypes /\ t \notin SlideTypes
  /\ "none" \notin TextTypes \cup SlideTypes \cup RowTypes
BY DEF TextTypes, SlideTypes, RowTypes

\* What nobody touches stays as it is.
LEMMA TextStays == ASSUME TextInv, UNCHANGED textVars PROVE TextInv'
<1>1. /\ doc' = doc /\ section' = section /\ childOrd' = childOrd /\ parentOrd' = parentOrd /\ chunks' = chunks
      /\ parents' = parents /\ tables' = tables /\ tableParent' = tableParent /\ root' = root
  BY DEF textVars, textState
<1>2. TextTyped'
  BY <1>1 DEF TextInv, TextTyped
<1>3. TextPlaced'
  BY <1>1 DEF TextInv, TextPlaced
<1>4. TextCut'
  BY <1>1 DEF TextInv, TextCut, ParentsSized, ParentSized
<1>5. TextTold'
  BY <1>1 DEF TextInv, TextTold, TablesRead, SectionsTold
<1> QED
  BY <1>2, <1>3, <1>4, <1>5 DEF TextInv

LEMMA SlideStays ==
  ASSUME SlideInv, UNCHANGED <<doc, section, childOrd, parentOrd, chunks>>
  PROVE  SlideInv'
<1>1. SlideTyped'
  BY DEF SlideInv, SlideTyped
<1>2. SlidePlaced'
  BY DEF SlideInv, SlidePlaced
<1>3. SlideTold'
  BY DEF SlideInv, SlideTold
<1>4. SlideWindows'
  <2>1. Windowed(chunks) /\ ParentsDiffer(chunks) /\ Used(chunks, 0)
    BY DEF SlideInv, SlideWindows
  <2>2. \A s : WindowAround(s)' = WindowAround(s)
    BY WindowStays
  <2>3. Windowed(chunks)'
    BY <2>1, <2>2 DEF Windowed
  <2> QED
    BY <2>1, <2>3 DEF SlideWindows
<1> QED
  BY <1>1, <1>2, <1>3, <1>4 DEF SlideInv

LEMMA RowStays ==
  ASSUME RowInv, UNCHANGED <<doc, section, childOrd, parentOrd, chunks, left, batch>>
  PROVE  RowInv'
<1>1. RowTyped'
  BY DEF RowInv, RowTyped
<1>2. RowPlaced'
  BY DEF RowInv, RowPlaced
<1>3. RowPacked'
  BY DEF RowInv, RowPacked, SheetPacked
<1>4. RowPending'
  BY DEF RowInv, RowPending, PendingAt, Pending, CellsOf
<1> QED
  BY <1>1, <1>2, <1>3, <1>4 DEF RowInv

LEMMA FileStays ==
  ASSUME UNCHANGED <<textVars, rowState>>
  PROVE  /\ FileChunked => FileChunked'
         /\ Returned => Returned'
         /\ Warnings = {} /\ strategy' = strategy => Warnings' = {}
<1>1. /\ doc' = doc /\ section' = section /\ childOrd' = childOrd /\ parentOrd' = parentOrd /\ chunks' = chunks
      /\ parents' = parents /\ tables' = tables /\ tableParent' = tableParent /\ root' = root
      /\ left' = left /\ batch' = batch /\ UNCHANGED textVars
  BY DEF textVars, textState, rowState
<1>2. TextInv => TextInv'
  BY <1>1, TextStays
<1>3. SlideInv => SlideInv'
  BY <1>1, SlideStays
<1>4. RowInv => RowInv'
  BY <1>1, RowStays
<1>5. (TextStart => TextStart') /\ (RowStart => RowStart')
  BY <1>1 DEF TextStart, RowStart
<1>6. FileChunked => FileChunked'
  BY <1>1, <1>2, <1>3, <1>4, <1>5 DEF FileChunked, TextFile, SlideFile, RowFile
<1>7. Returned => Returned'
  BY <1>1 DEF Returned, TextDone, SlideDone, RowDone
<1>8. Warnings = {} /\ strategy' = strategy => Warnings' = {}
  <2>1. Kept' = Kept
    BY <1>1 DEF Kept
  <2>2. EmptySlides' = EmptySlides
    BY <1>1, <2>1 DEF EmptySlides
  <2> QED
    BY <1>1, <2>2 DEF Warnings
<1> QED
  BY <1>6, <1>7, <1>8

LEMMA FileStarts == ASSUME FileInit PROVE FileInv
BY DEF FileInit, FileInv, NotParsed

LEMMA FileParsed ==
  ASSUME NotParsed, Parse
  PROVE  FileChunked' /\ doc'.type = ext
<1>1. ChunkingInit' /\ TextStart' /\ RowStart' /\ Parsed(ext)
  BY DEF NotParsed, Parse, ChunkingInit, TextStart, RowStart, textState, rowState
<1>2. CASE ext \in TextTypes /\ \E shape \in Shapes : doc' = TextDoc(ext, shape)
  <2>1. PICK shape \in Shapes : doc' = TextDoc(ext, shape)
    BY <1>2
  <2>2. TextInv'
    BY <1>1, <2>1, TextStarts
  <2>3. doc'.type = ext
    BY <2>1 DEF TextDoc
  <2> QED
    BY <1>1, <1>2, <2>2, <2>3 DEF FileChunked, TextFile
<1>3. CASE ext \in SlideTypes /\ \E slides \in BoundedSeq(Slides, MaxSlides) : doc' = Deck(ext, slides)
  <2>1. PICK slides \in BoundedSeq(Slides, MaxSlides) : doc' = Deck(ext, slides)
    BY <1>3
  <2>2. SlideInv'
    BY <1>1, <2>1, SlideStarts
  <2>3. doc'.type = ext
    BY <2>1 DEF Deck
  <2> QED
    BY <1>1, <1>3, <2>2, <2>3 DEF FileChunked, SlideFile
<1>4. CASE ext \in RowTypes /\ \E book \in Books(ext) : doc' = Workbook(ext, book)
  <2>1. PICK book \in Books(ext) : doc' = Workbook(ext, book)
    BY <1>4
  <2>2. RowInv'
    BY <1>1, <2>1, RowStarts
  <2>3. doc'.type = ext
    BY <2>1 DEF Workbook
  <2> QED
    BY <1>1, <1>4, <2>2, <2>3 DEF FileChunked, RowFile
<1> QED
  BY <1>1, <1>2, <1>3, <1>4 DEF Parsed

\* An action of the chunker for the file's type; the other two have nothing to do.
LEMMA ChunkerSteps ==
  ASSUME FileChunked, ChunkStep
  PROVE  FileChunked' /\ doc' = doc /\ UNCHANGED fileState
<1>1. CASE TextNext /\ UNCHANGED <<rowState, fileState>>
  <2>1. doc.type \in TextTypes /\ doc' = doc
    BY <1>1 DEF TextNext, OpenSection, EmitParent, EmitTable, OpenOrphans
  <2>2. TextInv /\ RowStart
    BY <2>1, TypesDiffer DEF FileChunked, TextFile, SlideFile, RowFile
  <2>3. TextInv'
    BY <1>1, <2>2, SectionOpens, ParentEmitted, TableEmitted, OrphansOpen DEF TextNext
  <2>4. RowStart'
    BY <1>1, <2>2 DEF RowStart, rowState
  <2> QED
    BY <1>1, <2>1, <2>3, <2>4 DEF FileChunked, TextFile
<1>2. CASE SlideNext /\ UNCHANGED <<textState, rowState, fileState>>
  <2>1. doc.type \in SlideTypes /\ doc' = doc
    BY <1>2 DEF SlideNext, SkipSlide, EmitSlide, NextSlide
  <2>2. SlideInv /\ TextStart /\ RowStart
    BY <2>1, TypesDiffer DEF FileChunked, TextFile, SlideFile, RowFile
  <2>3. SlideInv'
    BY <1>2, <2>2, SlideSkipped, SlideEmitted DEF SlideNext
  <2>4. TextStart' /\ RowStart'
    BY <1>2, <2>2 DEF TextStart, RowStart, textState, rowState
  <2> QED
    BY <1>2, <2>1, <2>3, <2>4 DEF FileChunked, SlideFile
<1>3. CASE RowNext /\ UNCHANGED <<textState, fileState>>
  <2>1. doc' = doc /\ (doc.type \in RowTypes \/ ~RowStart)
    BY <1>3 DEF RowNext, OpenSheet, TakeRow, FlushBatch, RowStart
  <2>2. doc.type \in RowTypes /\ RowInv /\ TextStart
    BY <2>1, TypesDiffer DEF FileChunked, TextFile, SlideFile, RowFile
  <2>3. RowInv'
    BY <1>3, <2>2, SheetOpens, RowTaken, BatchFlushed DEF RowNext
  <2>4. TextStart'
    BY <1>3, <2>2 DEF TextStart, textState
  <2> QED
    BY <1>3, <2>1, <2>2, <2>3, <2>4 DEF FileChunked, RowFile
<1> QED
  BY <1>1, <1>2, <1>3 DEF ChunkStep

LEMMA RowRest == ASSUME RowStart PROVE RowTypeOK
<1>1. <<>> \in Seq(Nat) /\ Len(<<>>) = 0
  OBVIOUS
<1> QED
  BY <1>1, RowSettingsAssumption DEF RowStart, RowTypeOK

\* A failed result has no chunks, and the chunker has not returned any.
LEMMA FileFails ==
  ASSUME FileInv, ParseFails \/ ChunkFails
  PROVE  NothingLeft'
<1>1. chunks' = <<>> /\ UNCHANGED <<doc, section, tables, left, batch>>
  BY DEF ParseFails, ChunkFails, Failed, textState, rowState
<1>2. ~TextDone /\ doc.type \notin RowTypes /\ RowTypeOK /\ section <= Len(doc.sections) + 1
  <2>1. CASE ParseFails
    <3>1. NotParsed
      BY <2>1 DEF ParseFails, FileInv
    <3>2. doc.type = "none" /\ doc.sections = <<>> /\ section = 0
      BY <3>1 DEF NotParsed, NoDoc, ChunkingInit
    <3>3. RowTypeOK
      BY <3>1, RowRest DEF NotParsed
    <3>4. 0 <= Len(<<>>) + 1
      OBVIOUS
    <3> QED
      BY <3>2, <3>3, <3>4, TypesDiffer DEF TextDone
  <2>2. CASE ChunkFails
    <3>1. FileChunked /\ NeedsEmbeddings
      BY <2>2 DEF ChunkFails, FileInv
    <3>2. CASE TextFile
      BY <3>1, <3>2, TextIsTyped, RowRest, TypesDiffer DEF TextFile
    <3>3. CASE SlideFile
      <4>1. section \in Nat /\ Len(doc.sections) \in Nat /\ section <= Len(doc.sections)
        BY <3>3, SlideFacts DEF SlideFile, SlideInv
      <4>2. section <= Len(doc.sections) + 1
        BY <4>1
      <4> QED
        BY <3>3, <4>2, RowRest, TypesDiffer DEF SlideFile, TextDone
    <3>4. CASE RowFile
      BY <3>1, <3>4, TypesDiffer DEF RowFile, NeedsEmbeddings, NextSlide
    <3> QED
      BY <3>1, <3>2, <3>3, <3>4 DEF FileChunked
  <2> QED
    BY <2>1, <2>2
<1> QED
  BY <1>1, <1>2 DEF NothingLeft, TextDone, RowTypeOK

LEMMA FileInvStep ==
  ASSUME FileInv, [FileNext]_fileVars
  PROVE  FileInv'
<1>1. CASE ParseFails
  <2>1. phase' = "done" /\ status' = "failed"
    BY <1>1 DEF ParseFails, Failed
  <2> QED
    BY <1>1, <2>1, FileFails DEF FileInv
<1>2. CASE Parse
  <2>1. NotParsed /\ status = "none" /\ phase' = "chunk" /\ status' = status /\ ext' = ext
    BY <1>2 DEF FileInv, Parse
  <2> QED
    BY <1>2, <2>1, FileParsed DEF FileInv
<1>3. CASE ChunkStep
  <2>1. FileChunked /\ phase = "chunk" /\ status = "none" /\ doc.type = ext
    BY <1>3 DEF FileInv, ChunkStep
  <2>2. FileChunked' /\ doc' = doc /\ UNCHANGED fileState
    BY <1>3, <2>1, ChunkerSteps
  <2> QED
    BY <2>1, <2>2 DEF FileInv, fileState
<1>4. CASE ChunkFails
  <2>1. phase' = "done" /\ status' = "failed"
    BY <1>4 DEF ChunkFails, Failed
  <2> QED
    BY <1>4, <2>1, FileFails DEF FileInv
<1>5. CASE Finish
  <2>1. FileChunked /\ doc.type = ext /\ Returned
    BY <1>5 DEF FileInv, Finish, Returned
  <2>2. /\ phase' = "done" /\ status' \in {"success", "partial"} /\ (status' = "success" => Warnings = {})
        /\ UNCHANGED <<textVars, rowState>> /\ ext' = ext /\ strategy' = strategy /\ doc' = doc
    BY <1>5 DEF Finish, textVars
  <2>3. FileChunked' /\ Returned' /\ (status' = "success" => Warnings' = {})
    BY <2>1, <2>2, FileStays
  <2> QED
    BY <2>1, <2>2, <2>3 DEF FileInv
<1>6. CASE UNCHANGED fileVars
  <2>1. UNCHANGED <<textVars, rowState>> /\ UNCHANGED fileState
    BY <1>6 DEF fileVars
  <2>2. phase' = phase /\ status' = status /\ ext' = ext /\ strategy' = strategy
    BY <2>1 DEF fileState
  <2>3. /\ doc' = doc /\ section' = section /\ childOrd' = childOrd /\ parentOrd' = parentOrd /\ chunks' = chunks
        /\ parents' = parents /\ tables' = tables /\ tableParent' = tableParent /\ root' = root
        /\ left' = left /\ batch' = batch
    BY <2>1 DEF textVars, textState, rowState
  <2>4. NotParsed => NotParsed'
    BY <2>3 DEF NotParsed, ChunkingInit, TextStart, RowStart
  <2>5. NothingLeft => NothingLeft'
    BY <2>3 DEF NothingLeft, TextDone, RowTypeOK
  <2> QED
    BY <2>1, <2>2, <2>3, <2>4, <2>5, FileStays DEF FileInv
<1> QED
  BY <1>1, <1>2, <1>3, <1>4, <1>5, <1>6 DEF FileNext

\* While a file is chunked, and when ingest_file has returned, the invariant of the
\* chunker its type gets holds (TextInv, SlideInv, RowInv); the other two chunkers' state
\* is untouched, and a failed result has no chunks.
THEOREM FileInvariance == FileSpec => []FileInv
<1>1. FileInit => FileInv
  BY FileStarts
<1>2. FileInv /\ [FileNext]_fileVars => FileInv'
  BY FileInvStep
<1> QED
  BY <1>1, <1>2, PTL DEF FileSpec

----------------------------------------------------------------------------
\* What the invariant says of a file.
NoBlock(b) == \A i \in DOMAIN chunks : chunks[i].block # b

LEMMA FileCases ==
  ASSUME FileInv
  PROVE  \/ TextFile
         \/ SlideFile /\ ~TextDone /\ ~RowDone /\ NoBlock("text") /\ NoBlock("table")
         \/ RowFile /\ ~TextDone /\ NoBlock("text") /\ NoBlock("table") /\ NoBlock("slide")
         \/ chunks = <<>> /\ ~TextDone /\ doc.type \notin RowTypes
<1>1. CASE TextFile
  BY <1>1
<1>2. CASE SlideFile
  <2>1. chunks \in SeqOver(SlideChunk)
    BY <1>2, SlideFacts DEF SlideFile, SlideInv
  <2>2. \A i \in DOMAIN chunks : chunks[i].block = "slide"
    BY <2>1, SlideChunksAre
  <2>3. NoBlock("text") /\ NoBlock("table")
    BY <2>2 DEF NoBlock
  <2> QED
    BY <1>2, <2>3, TypesDiffer DEF SlideFile, TextDone, RowDone
<1>3. CASE RowFile
  <2>1. chunks \in SeqOver(RowChunk)
    BY <1>3, RowFacts DEF RowFile, RowInv
  <2>2. \A i \in DOMAIN chunks : chunks[i].block = "row"
    BY <2>1, RowChunksAre
  <2>3. NoBlock("text") /\ NoBlock("table") /\ NoBlock("slide")
    BY <2>2 DEF NoBlock
  <2> QED
    BY <1>3, <2>3, TypesDiffer DEF RowFile, TextDone
<1>4. CASE NotParsed
  <2>1. chunks = <<>> /\ doc.type = "none"
    BY <1>4 DEF NotParsed, ChunkingInit, NoDoc
  <2> QED
    BY <2>1, TypesDiffer DEF TextDone
<1>5. CASE NothingLeft
  BY <1>5 DEF NothingLeft
<1> QED
  BY <1>1, <1>2, <1>3, <1>4, <1>5 DEF FileInv, FileChunked

LEMMA TextBlocks ==
  ASSUME TextInv
  PROVE  NoBlock("slide")
<1>1. \A i \in DOMAIN chunks : chunks[i].block \in {"text", "table"}
  BY DEF TextInv, TextPlaced, Placed
<1> QED
  BY <1>1 DEF NoBlock

LEMMA NoChunks == ASSUME chunks = <<>> PROVE NoBlock("text") /\ NoBlock("table") /\ NoBlock("slide")
<1>1. DOMAIN <<>> = {}
  OBVIOUS
<1> QED
  BY <1>1 DEF NoBlock

LEMMA NoText ==
  ASSUME NoBlock("text"), NoBlock("table"), ~TextDone
  PROVE  ChildrenAreTheirParent /\ SizesKept /\ TablesAreWhole
<1>1. ParentsOf("text") = {} /\ \A i \in DOMAIN chunks : chunks[i].block # "text"
  BY DEF NoBlock, ParentsOf
<1>2. {c \in ToSet(chunks) : c.block = "table"} = {}
  BY DEF NoBlock, ToSet
<1>3. ChildrenAreTheirParent /\ SizesKept
  BY <1>1 DEF ChildrenAreTheirParent, SizesKept
<1>4. TablesAreWhole
  BY <1>2, Zenon DEF TablesAreWhole
<1> QED
  BY <1>3, <1>4

LEMMA NoSlides ==
  ASSUME NoBlock("slide")
  PROVE  ParentsAreWindows
<1>1. ParentsOf("slide") = {} /\ \A i \in DOMAIN chunks : chunks[i].block # "slide"
  BY DEF NoBlock, ParentsOf
<1> QED
  BY <1>1, Zenon DEF ParentsAreWindows

LEMMA NoRows ==
  ASSUME doc.type \notin RowTypes
  PROVE  RowsTiled /\ BatchesFull
<1>1. RowsTiled
  BY Zenon DEF RowsTiled, RowDone
<1>2. BatchesFull
  BY Zenon DEF BatchesFull
<1> QED
  BY <1>1, <1>2

LEMMA FileResolved ==
  ASSUME FileInv
  PROVE  ChildrenResolve /\ OrdinalsDistinct
<1>1. CASE TextFile
  BY <1>1, TextResolved, NumbersDiffer DEF TextFile, TextInv, TextPlaced
<1>2. CASE SlideFile
  BY <1>2, SlideResolved DEF SlideFile
<1>3. CASE RowFile
  BY <1>3, RowResolved DEF RowFile
<1>4. CASE chunks = <<>>
  <2>1. DOMAIN chunks = {}
    BY <1>4
  <2>2. ChildrenResolve
    BY <2>1, Zenon DEF ChildrenResolve
  <2>3. OrdinalsDistinct
    BY <2>1, Zenon DEF OrdinalsDistinct
  <2> QED
    BY <2>2, <2>3
<1> QED
  BY <1>1, <1>2, <1>3, <1>4, FileCases

LEMMA FileOfText ==
  ASSUME FileInv
  PROVE  ChildrenAreTheirParent /\ SizesKept /\ TablesAreWhole
<1>1. CASE TextFile
  BY <1>1, TextWhole, TextTables DEF TextFile
<1>2. CASE NoBlock("text") /\ NoBlock("table") /\ ~TextDone
  BY <1>2, NoText
<1> QED
  BY <1>1, <1>2, NoChunks, FileCases

LEMMA FileOfSlides ==
  ASSUME FileInv
  PROVE  ParentsAreWindows
<1>1. CASE SlideFile
  BY <1>1, SlideParents DEF SlideFile
<1>2. CASE NoBlock("slide")
  BY <1>2, NoSlides
<1>3. TextFile => NoBlock("slide")
  BY TextBlocks DEF TextFile
<1> QED
  BY <1>1, <1>2, <1>3, NoChunks, FileCases

LEMMA FileOfRows ==
  ASSUME FileInv
  PROVE  RowsTiled /\ BatchesFull
<1>1. CASE RowFile
  BY <1>1, RowsAreTiled, RowsFull DEF RowFile
<1>2. CASE doc.type \notin RowTypes
  BY <1>2, NoRows
<1>3. TextFile \/ SlideFile => doc.type \notin RowTypes
  BY TypesDiffer DEF TextFile, SlideFile
<1> QED
  BY <1>1, <1>2, <1>3, FileCases

LEMMA NoRoot ==
  ASSUME section \in Nat, childOrd \in Nat, parentOrd \in Nat, Len(chunks) \in Nat, TextStart,
         \A i \in DOMAIN chunks : chunks[i].role \in {"parent", "child"}
  PROVE  TextTypeOK
<1>1. root \in 0..Len(chunks) /\ tableParent \in 0..Len(chunks)
  BY DEF TextStart, NoParent
<1> QED
  BY <1>1 DEF TextTypeOK

LEMMA FileTypes ==
  ASSUME FileInv
  PROVE  FileTypeOK
<1>1. phase \in {"parse", "chunk", "done"} /\ status \in {"none", "success", "partial", "failed"}
  BY DEF FileInv
<1>2. CASE TextFile
  BY <1>1, <1>2, TextIsTyped, RowRest DEF TextFile, FileTypeOK
<1>3. CASE SlideFile
  <2>1. /\ section \in Nat /\ Len(doc.sections) \in Nat /\ section <= Len(doc.sections)
        /\ childOrd \in Nat /\ parentOrd \in Nat /\ chunks \in SeqOver(SlideChunk)
    BY <1>3, SlideFacts DEF SlideFile, SlideInv
  <2>2. section <= Len(doc.sections) + 1
    BY <2>1
  <2>3. Len(chunks) \in Nat /\ \A i \in DOMAIN chunks : chunks[i].role \in {"parent", "child"}
    BY <2>1, SlideChunksAre
  <2>4. TextTypeOK
    BY <1>3, <2>1, <2>3, NoRoot DEF SlideFile
  <2> QED
    BY <1>1, <1>3, <2>2, <2>4, RowRest DEF SlideFile, FileTypeOK
<1>4. CASE RowFile
  <2>1. /\ section \in Nat /\ Len(doc.sections) \in Nat /\ section <= Len(doc.sections)
        /\ childOrd \in Nat /\ parentOrd \in Nat /\ chunks \in SeqOver(RowChunk)
    BY <1>4, RowFacts DEF RowFile, RowInv
  <2>2. section <= Len(doc.sections) + 1
    BY <2>1
  <2>3. Len(chunks) \in Nat /\ \A i \in DOMAIN chunks : chunks[i].role \in {"parent", "child"}
    <3>1. Len(chunks) \in Nat
      BY <2>1, Items
    <3> QED
      BY <2>1, <3>1, RowChunksAre
  <2>4. TextTypeOK
    BY <1>4, <2>1, <2>3, NoRoot DEF RowFile
  <2> QED
    BY <1>1, <1>4, <2>2, <2>4, RowsAreTyped DEF RowFile, FileTypeOK
<1>5. CASE NotParsed
  <2>1. /\ section = 0 /\ childOrd = 0 /\ parentOrd = 0 /\ chunks = <<>> /\ doc.sections = <<>> /\ TextStart /\ RowStart
    BY <1>5 DEF NotParsed, ChunkingInit, NoDoc
  <2>2. Len(<<>>) = 0 /\ DOMAIN <<>> = {} /\ 0 \in Nat /\ 0 <= 0 + 1
    OBVIOUS
  <2>3. TextTypeOK
    BY <2>1, <2>2, NoRoot
  <2> QED
    BY <1>1, <2>1, <2>2, <2>3, RowRest DEF FileTypeOK
<1>6. CASE status = "failed" /\ NothingLeft
  BY <1>1, <1>6 DEF NothingLeft, FileTypeOK
<1> QED
  BY <1>2, <1>3, <1>4, <1>5, <1>6 DEF FileInv, FileChunked

RowsOf(s)      == FlattenSeq([b \in DOMAIN BatchesOf(s) |-> BatchesOf(s)[b].text.rows])
Spoken(b, s)   == Texts({c \in ToSet(chunks) : c.role = "child" /\ c.block = b /\ c.section = s})
WholeSection(s) ==
  CASE ext \in TextTypes  -> Spoken("text", s) = FlattenSeq(doc.sections[s].paragraphs)
    [] ext \in SlideTypes -> Spoken("slide", s) = SlideText(doc.sections[s])
    [] ext \in RowTypes   -> RowsOf(s) \in {doc.sections[s].rows, <<>>}
FullSection(s) ==
  CASE ext \in SlideTypes -> SlideText(doc.sections[s]) # <<>>
    [] ext \in RowTypes   -> RowsOf(s) = doc.sections[s].rows
    [] OTHER -> TRUE

LEMMA FileReturned ==
  ASSUME FileInv
  PROVE  ResultKeepsText
<1>1. ASSUME status \in {"success", "partial"}
      PROVE  FileChunked /\ Returned /\ doc.type = ext /\ (status = "success" => Warnings = {})
  BY <1>1 DEF FileInv
<1>2. ASSUME status \in {"success", "partial"}, NEW s \in DOMAIN doc.sections
      PROVE  WholeSection(s) /\ (status = "success" => FullSection(s))
  <2>1. CASE TextFile
    <3>1. ext \in TextTypes /\ ext \notin SlideTypes /\ ext \notin RowTypes /\ TextDone
      BY <1>1, <1>2, <2>1, TypesDiffer DEF TextFile, Returned, SlideDone, RowDone
    <3>2. Spoken("text", s) = FlattenSeq(doc.sections[s].paragraphs)
      BY <1>2, <2>1, <3>1, TextOfSections DEF TextFile, Spoken
    <3> QED
      BY <3>1, <3>2 DEF WholeSection, FullSection
  <2>2. CASE SlideFile
    <3>1. ext \in SlideTypes /\ ext \notin TextTypes /\ ext \notin RowTypes /\ SlideDone
      BY <1>1, <1>2, <2>2, TypesDiffer DEF SlideFile, Returned, TextDone, RowDone
    <3>2. Spoken("slide", s) = SlideText(doc.sections[s]) /\ (Warnings = {} => SlideText(doc.sections[s]) # <<>>)
      BY <1>2, <2>2, <3>1, SlideReturned DEF SlideFile, Spoken
    <3> QED
      BY <1>1, <1>2, <3>1, <3>2 DEF WholeSection, FullSection
  <2>3. CASE RowFile
    <3>1. ext \in RowTypes /\ ext \notin TextTypes /\ ext \notin SlideTypes /\ RowDone
      BY <1>1, <1>2, <2>3, TypesDiffer DEF RowFile, Returned, TextDone, SlideDone
    <3>2. RowsOf(s) \in {doc.sections[s].rows, <<>>} /\ (Warnings = {} => RowsOf(s) = doc.sections[s].rows)
      BY <1>2, <2>3, <3>1, RowsReturned DEF RowFile, RowsOf
    <3> QED
      BY <1>1, <1>2, <3>1, <3>2 DEF WholeSection, FullSection
  <2> QED
    BY <1>1, <1>2, <2>1, <2>2, <2>3 DEF FileChunked
<1>3. ASSUME status = "success" PROVE strategy \notin {"PAGE", "FLAT"}
  <2>1. Warnings = {}
    BY <1>1, <1>3
  <2>2. strategy \in {"PAGE", "FLAT"} => "degraded" \in Warnings
    BY DEF Warnings
  <2> QED
    BY <2>1, <2>2
<1>4. ASSUME status \in {"success", "partial"}, ext \in TextTypes
      PROVE  Texts({c \in ToSet(chunks) : c.block = "table"}) = FlattenSeq(Tables)
  <2>1. TextDone
    BY <1>1, <1>4, TypesDiffer DEF Returned, SlideDone, RowDone
  <2> QED
    BY <2>1, FileOfText DEF TablesAreWhole
<1> QED
  BY <1>2, <1>3, <1>4, Zenon DEF ResultKeepsText, WholeSection, FullSection, RowsOf, Spoken

----------------------------------------------------------------------------
\* The theorems: every file, whatever its document and wherever parser, splitter and
\* embeddings fail.

\* Before the end and in every result that is not failed, the counters, the root and
\* the batch in hand stay in their bounds (chunk() of the three chunkers).
THEOREM FilesAreTyped == FileSpec => []FileTypeOK
<1>1. FileInv => FileTypeOK
  BY FileTypes
<1> QED
  BY <1>1, FileInvariance, PTL

\* Merging and splitting neither lose nor double nor displace text: what the children
\* of a semantic parent say, in their order, is the parent (_emit_children).
THEOREM ParentsAreCutUp == FileSpec => []ChildrenAreTheirParent
<1>1. FileInv => ChildrenAreTheirParent
  BY FileOfText
<1> QED
  BY <1>1, FileInvariance, PTL

\* A child's parent_id is that of a chunk before it, of its own section or the window
\* that slides share; only a table of a section without text gets the root.
THEOREM ParentsComeFirst == FileSpec => []ChildrenResolve
<1>1. FileInv => ChildrenResolve
  BY FileResolved
<1> QED
  BY <1>1, FileInvariance, PTL

\* No two chunks of a document share role and ordinal, on which chunk ids rest (ids.py).
THEOREM OrdinalsTellApart == FileSpec => []OrdinalsDistinct
<1>1. FileInv => OrdinalsDistinct
  BY FileResolved
<1> QED
  BY <1>1, FileInvariance, PTL

\* No text child is below min_child_tokens unless it is its parent, and only a
\* paragraph makes a parent over max_parent_tokens.
THEOREM SizesStay == FileSpec => []SizesKept
<1>1. FileInv => SizesKept
  BY FileOfText
<1> QED
  BY <1>1, FileInvariance, PTL

\* A returned document has all rows of all its tables, the orphans' too, once and in
\* order, and only single rows exceed max_child_tokens (build_table_chunks).
THEOREM TablesStayWhole == FileSpec => []TablesAreWhole
<1>1. FileInv => TablesAreWhole
  BY FileOfText
<1> QED
  BY <1>1, FileInvariance, PTL

\* The parent of a slide has the slides around it or those of its group, however empty
\* slides lie between; parents are deduplicated, and none is without a child.
THEOREM WindowsAreShared == FileSpec => []ParentsAreWindows
<1>1. FileInv => ParentsAreWindows
  BY FileOfSlides
<1> QED
  BY <1>1, FileInvariance, PTL

\* The batches of a sheet tile the rows of the file that are not its header, from the
\* first row to the last, unless the scale guard leaves them out.
THEOREM RowsStayTiled == FileSpec => []RowsTiled
<1>1. FileInv => RowsTiled
  BY FileOfRows
<1> QED
  BY <1>1, FileInvariance, PTL

\* A batch is closed by the row that fills it, and only the last has room (row.py).
THEOREM BatchesAreFilled == FileSpec => []BatchesFull
<1>1. FileInv => BatchesFull
  BY FileOfRows
<1> QED
  BY <1>1, FileInvariance, PTL

\* A result that is not failed has the text of the whole file in its children, with the
\* rows of its sheets and of the tables of a pdf or a docx, and one without a warning has
\* left out none of that (ingest_file, _collect_warnings).  Tables on slides are not in it.
THEOREM ResultsKeepText == FileSpec => []ResultKeepsText
<1>1. FileInv => ResultKeepsText
  BY FileReturned
<1> QED
  BY <1>1, FileInvariance, PTL
=============================================================================
