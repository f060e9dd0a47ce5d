------------------------------ MODULE Chunking ------------------------------
(***************************************************************************)
(* What the chunkers of rag_ingestion/chunkers/ share: the parsed document *)
(* (models.py IRDocument) they read, the chunks a call of chunk() has      *)
(* emitted so far with the two ordinals that it counts, and what the       *)
(* readers of chunks rely on whatever the format.                          *)
(*                                                                         *)
(* A text is the sequence of its tokens and count_tokens its length; what  *)
(* joins texts counts nothing.                                             *)
(***************************************************************************)
EXTENDS Naturals, FiniteSets, Sequences, SequencesExt, FiniteSetsExt, Subsequences

CONSTANT MaxChildTokens  \* the setting of this name
ASSUME ChildTokensAssumption == MaxChildTokens \in Nat \ {0}

VARIABLES
  doc,      \* the document: its file_type, its sections, its orphan tables
  section,  \* the section in hand
  childOrd, parentOrd,
  chunks

NoDoc    == [type |-> "none", sections |-> <<>>, orphans |-> <<>>]
NoParent == 0  \* a chunk's parent_id is the place of its parent among the chunks

\* Before the first section of a document.
ChunkingInit ==
  /\ section = 0
  /\ childOrd = 0 /\ parentOrd = 0
  /\ chunks = <<>>

Chunk(role, block, parent, ord, of, text) ==
  [role |-> role, block |-> block, parent |-> parent, ord |-> ord, section |-> of, text |-> text]

\* The children of one parent, numbered on from childOrd.
ChildChunks(block, parent, of, texts) ==
  [k \in DOMAIN texts |-> Chunk("child", block, parent, childOrd + k - 1, of, texts[k])]

\* The pieces of a text cut after the given places.
Pieces(text, cuts) == Pack(Singles(text), LAMBDA piece, n : n - 1 \notin cuts)
Cuts(text) == SUBSET (1..(Len(text) - 1))

----------------------------------------------------------------------------
\* Properties.

\* The texts of the chunks in S, one after the other.
Texts(S) == LET those == Only(chunks, S) IN FlattenSeq([k \in DOMAIN those |-> those[k].text])
ParentsOf(block) == {i \in DOMAIN chunks : chunks[i].role = "parent" /\ chunks[i].block = block}

\* Every child names a parent that was emitted before it.  The parent comes from the
\* same section, but slides may share a window, and a table goes to the synthetic
\* root, but only from a section without text (parent_id in all chunkers).
ChildrenResolve ==
  \A i \in DOMAIN chunks : chunks[i].role = "child" =>
    /\ chunks[i].parent \in 1..(i - 1)
    /\ LET p == chunks[chunks[i].parent]
       IN  \/ p.role = "parent" /\ (p.section = chunks[i].section \/ chunks[i].block = "slide")
           \/ /\ p.role = "root" /\ chunks[i].block = "table"
              /\ \A j \in ParentsOf("text") : chunks[j].section # chunks[i].section

\* "ordinal disambiguates otherwise-identical chunks" (ids.py): no two chunks of a
\* document have the same role and ordinal, however texts, tables and parts mix.
OrdinalsDistinct ==
  \A i, j \in DOMAIN chunks :
    (chunks[i].role = chunks[j].role /\ chunks[i].ord = chunks[j].ord) => i = j
=============================================================================
