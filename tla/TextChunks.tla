----------------------------- MODULE TextChunks -----------------------------
(***************************************************************************)
(* SemanticParentChildChunker.chunk of chunkers/semantic_parent_child.py   *)
(* with the table chunks of chunkers/table.py and utils/tables.py: from    *)
(* the sections of a pdf or docx to parents, children and table fragments. *)
(*                                                                         *)
(* Every token has a number of its own.  A table is its data rows, of      *)
(* RowTokens each, under a header and a caption.                           *)
(***************************************************************************)
EXTENDS Chunking

CONSTANTS
  ParagraphSizes,  \* the sizes a paragraph may have, in tokens
  TableSizes,      \* the numbers of data rows a table may have
  MaxParagraphs, MaxTables, MaxSections, MaxOrphans,  \* bounds of the document
  MaxParentTokens, MinChildTokens,                    \* the settings of these names
  CaptionTokens, HeaderTokens, RowTokens

ASSUME TextSettingsAssumption == MaxParentTokens \in Nat \ {0} /\ MinChildTokens \in Nat
ASSUME SizesAssumption ==
  /\ ParagraphSizes \subseteq Nat \ {0} /\ TableSizes \subseteq Nat
  /\ CaptionTokens \in Nat /\ HeaderTokens \in Nat /\ RowTokens \in Nat

VARIABLES
  parents,   \* the parent texts of the section that are not emitted yet
  tables,    \* its tables that are not emitted yet
  tableParent, root  \* table_parent_id and the synthetic root, once they exist

textState == <<parents, tables, tableParent, root>>
textVars  == <<doc, section, childOrd, parentOrd, chunks, textState>>

TextTypes == {"pdf", "docx"}  \* file_types of the chunker

----------------------------------------------------------------------------
\* Documents.  Tokens and rows are numbered within their section.

Numbered(sizes) == [k \in DOMAIN sizes |-> [j \in 1..sizes[k] |-> <<k, j>>]]

ShapesOfSection == [paragraphs : BoundedSeq(ParagraphSizes, MaxParagraphs),
                    tables     : BoundedSeq(TableSizes, MaxTables)]

Shapes == BoundedSeq(ShapesOfSection, MaxSections) \X BoundedSeq(TableSizes, MaxOrphans)
TextDoc(type, shape) ==
  [type |-> type,
   sections |-> [s \in DOMAIN shape[1] |-> [paragraphs |-> Numbered(shape[1][s].paragraphs),
                                           tables |-> Numbered(shape[1][s].tables)]],
   orphans |-> Numbered(shape[2])]

TextStart == parents = <<>> /\ tables = <<>> /\ tableParent = NoParent /\ root = NoParent
TextInit  == ChunkingInit /\ TextStart /\ \E type \in TextTypes, shape \in Shapes : doc = TextDoc(type, shape)

----------------------------------------------------------------------------
\* Splitting and merging.

MutPackOneMore(paragraphs) ==  \* a bug: tests the size before the paragraph is added
  Pack(paragraphs, LAMBDA cur, n : Len(cur) <= MaxParentTokens)

\* _split_by_paragraphs: a paragraph that does not fit any more opens a new parent.
SplitByParagraphs(paragraphs) ==
  Pack(paragraphs, LAMBDA cur, n : Len(cur) + Len(paragraphs[n]) <= MaxParentTokens)

\* Semantic splitting, then recursive splitting of the pieces that are too large:
\* where the cuts fall is the splitters' affair, but no piece stays too large.
Splits(text) ==
  {p \in {Pieces(text, cuts) : cuts \in Cuts(text)} :
     \A k \in DOMAIN p : Len(p[k]) <= MaxChildTokens}

JoinLastTwo(pieces) ==
  LET n == Len(pieces) IN Append(SubSeq(pieces, 1, n - 2), pieces[n - 1] \o pieces[n])
MergeForward(pieces) == Pack(pieces, LAMBDA last, n : Len(last) < MinChildTokens)
SmallTail(pieces)    == Len(pieces) > 1 /\ Len(Last(pieces)) < MinChildTokens

MutDropTail(pieces) ==  \* a bug: the small last piece is popped and not joined
  IF SmallTail(MergeForward(pieces)) THEN Front(MergeForward(pieces)) ELSE MergeForward(pieces)
MutForwardOnly(pieces) == MergeForward(pieces)  \* a bug: no second loop

\* _merge_small: a piece after a small one is joined to it; then a small last piece
\* to the one before, which needs one turn of the loop as that one is not small.
MergeSmall(pieces) ==
  IF SmallTail(MergeForward(pieces)) THEN JoinLastTwo(MergeForward(pieces)) ELSE MergeForward(pieces)

TableTokens(rows) == HeaderTokens + RowTokens * Len(rows)

MutSplitTable(rows) ==  \* a bug: what is left after the loop is not flushed
  Front(Pack(Singles(rows), LAMBDA current, n : TableTokens(Append(current, rows[n])) <= MaxChildTokens))

\* split_table_by_rows: the rows of each fragment; the header is repeated over all.
SplitTable(rows) ==
  Pack(Singles(rows), LAMBDA current, n : TableTokens(Append(current, rows[n])) <= MaxChildTokens)

\* build_table_chunks: the rows of each chunk of a table.  The caption counts for the
\* whole table; every fragment gets it, and it counts for none.
Fragments(rows) ==
  IF CaptionTokens + TableTokens(rows) <= MaxChildTokens \/ rows = <<>> THEN <<rows>>
  ELSE SplitTable(rows)

----------------------------------------------------------------------------
\* chunk().

MutOpenSection ==  \* a bug: table_parent_id survives from the section before
  /\ parents = <<>> /\ tables = <<>> /\ section < Len(doc.sections)
  /\ section' = section + 1
  /\ parents' = SplitByParagraphs(doc.sections[section'].paragraphs)
  /\ tables' = doc.sections[section'].tables
  /\ UNCHANGED <<doc, tableParent, root, childOrd, parentOrd, chunks>>

\* The next section.  Its own first parent will take its tables.
OpenSection ==
  /\ parents = <<>> /\ tables = <<>> /\ section < Len(doc.sections)
  /\ section' = section + 1
  /\ parents' = SplitByParagraphs(doc.sections[section'].paragraphs)
  /\ tables' = doc.sections[section'].tables
  /\ tableParent' = NoParent
  /\ UNCHANGED <<doc, root, childOrd, parentOrd, chunks>>

\* A parent and its children (_emit_children): a parent too small for splitting has
\* one child that is its copy.
EmitParent ==
  /\ parents # <<>>
  /\ \E split \in IF Len(Head(parents)) < MinChildTokens THEN {<<Head(parents)>>}
                  ELSE {MergeSmall(p) : p \in Splits(Head(parents))} :
       LET here == Len(chunks) + 1
       IN  /\ chunks' = Append(chunks, Chunk("parent", "text", NoParent, parentOrd, section, Head(parents)))
                          \o ChildChunks("text", here, section, split)
           /\ childOrd' = childOrd + Len(split)
           /\ tableParent' = IF tableParent = NoParent THEN here ELSE tableParent
  /\ parentOrd' = parentOrd + 1
  /\ parents' = Tail(parents)
  /\ UNCHANGED <<doc, section, tables, root>>

MutTableChunks(rows, parent) ==  \* a bug: the parts of a table share its ordinal
  [k \in DOMAIN Fragments(rows) |->
     Chunk("child", "table", parent, childOrd, section, Fragments(rows)[k])]

TableChunks(rows, parent) == ChildChunks("table", parent, section, Fragments(rows))

\* A table goes under the first parent of its section, or under the root, which is
\* made when it is first needed (get_root; its ordinal is -1, outside the count).
EmitTable ==
  /\ parents = <<>> /\ tables # <<>>
  /\ LET needsRoot == tableParent = NoParent /\ root = NoParent
         base == IF needsRoot THEN Append(chunks, Chunk("root", "text", NoParent, 0, section, <<>>)) ELSE chunks
         under == IF tableParent # NoParent THEN tableParent ELSE root'
         new == TableChunks(Head(tables), under)
     IN  /\ root' = IF needsRoot THEN Len(chunks) + 1 ELSE root
         /\ chunks' = base \o new
         /\ childOrd' = childOrd + Len(new)
  /\ tables' = Tail(tables)
  /\ UNCHANGED <<doc, section, parents, tableParent, parentOrd>>

MutOpenOrphans ==  \* a bug: again and again
  /\ parents = <<>> /\ tables = <<>> /\ section >= Len(doc.sections)
  /\ section' = section + 1
  /\ tables' = doc.orphans
  /\ tableParent' = NoParent
  /\ UNCHANGED <<doc, parents, root, childOrd, parentOrd, chunks>>

\* After the sections, the document's orphan tables: to the root.
OpenOrphans ==
  /\ parents = <<>> /\ tables = <<>> /\ section = Len(doc.sections)
  /\ section' = section + 1
  /\ tables' = doc.orphans
  /\ tableParent' = NoParent
  /\ UNCHANGED <<doc, parents, root, childOrd, parentOrd, chunks>>

TextNext == doc.type \in TextTypes /\ (OpenSection \/ EmitParent \/ EmitTable \/ OpenOrphans)
TextSpec == TextInit /\ [][TextNext]_textVars

----------------------------------------------------------------------------
\* Properties.

TextTypeOK ==
  /\ section \in Nat /\ childOrd \in Nat /\ parentOrd \in Nat
  /\ root \in 0..Len(chunks) /\ tableParent \in 0..Len(chunks)
  /\ \A i \in DOMAIN chunks : chunks[i].role \in {"root", "parent", "child"}

TextDone == doc.type \in TextTypes /\ section = Len(doc.sections) + 1 /\ tables = <<>>

ChildrenOf(i) == {c \in ToSet(chunks) : c.block = "text" /\ c.role = "child" /\ c.parent = i}

\* The text children of a parent are its text cut up: merging and splitting lose,
\* double and displace nothing (_emit_children).
ChildrenAreTheirParent ==
  \A i \in ParentsOf("text") : Texts(ChildrenOf(i)) = chunks[i].text

\* "no emitted child below threshold, except the single-child==parent case"
\* (tests/test_semantic_parent_child.py), and a parent over max_parent_tokens is one
\* paragraph (_split_by_paragraphs splits none and packs no more than fit).
SizesKept ==
  /\ \A i \in DOMAIN chunks : (chunks[i].role = "child" /\ chunks[i].block = "text") =>
       Len(chunks[i].text) >= MinChildTokens \/ chunks[i].text = chunks[chunks[i].parent].text
  /\ \A i \in ParentsOf("text") :
       \/ Len(chunks[i].text) <= MaxParentTokens
       \/ chunks[i].text \in ToSet(doc.sections[chunks[i].section].paragraphs)

\* All rows of all tables are emitted once, in order, and a fragment over
\* max_child_tokens holds one row ("rows are atomic", split_table_by_rows).
Tables == FlattenSeq([s \in DOMAIN doc.sections |-> doc.sections[s].tables]) \o doc.orphans
TablesAreWhole ==
  LET fragments == {c \in ToSet(chunks) : c.block = "table"}
  IN  /\ TextDone => Texts(fragments) = FlattenSeq(Tables)
      /\ \A c \in fragments : TableTokens(c.text) <= MaxChildTokens \/ Len(c.text) <= 1
=============================================================================
