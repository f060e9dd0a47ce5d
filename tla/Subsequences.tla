---------------------------- MODULE Subsequences ----------------------------
(***************************************************************************)
(* Operators on sequences, written as recursive functions: the elements    *)
(* that are in a set, in their order (SelectSeq with a set for the test),  *)
(* and texts packed into runs.                                             *)
(***************************************************************************)
EXTENDS Naturals, Sequences, SequencesExt

Only(seq, S) ==
  LET kept[n \in 0..Len(seq)] ==
        IF n = 0 THEN <<>>
        ELSE IF seq[n] \in S THEN Append(kept[n - 1], seq[n]) ELSE kept[n - 1]
  IN  kept[Len(seq)]

\* Joins each text to the run before it as long as that run takes it.
Pack(texts, Takes(_, _)) ==
  LET packed[n \in 0..Len(texts)] ==
        IF n = 0 THEN <<>>
        ELSE LET runs == packed[n - 1]
             IN  IF runs # <<>> /\ Takes(Last(runs), n)
                 THEN [runs EXCEPT ![Len(runs)] = @ \o texts[n]] ELSE Append(runs, texts[n])
  IN  packed[Len(texts)]
Singles(seq) == [k \in DOMAIN seq |-> <<seq[k]>>]
=============================================================================
