-------------------------- MODULE MCEmbeddingCache --------------------------
(***************************************************************************)
(* Instances of EmbeddingCache: two threads on one chunker and, in a       *)
(* process of its own, a third thread on another.                          *)
(***************************************************************************)
EXTENDS EmbeddingCache, FiniteSetsExt, TLC

CONSTANTS t1, t2, t3, shared, other

MCThreads   == {t1, t2, t3}
MCChunkers  == {shared, other}
MCChunkerOf == t1 :> shared @@ t2 :> shared @@ t3 :> other

\* One text, or both and one of them twice.
MCLists == {list \in [Texts -> 0..2] : MapThenSumSet(LAMBDA x : list[x], Texts) \in {1, 3}}

\* Texts are interchangeable.
TextSymmetry == Permutations(Texts)
=============================================================================
