----------------------------- MODULE IngestFile -----------------------------
(***************************************************************************)
(* IngestionPipeline.ingest_file of pipeline.py: a file is parsed by the   *)
(* parser of its extension, chunked by the chunker of its file type, and   *)
(* answered with success, partial or failed.                               *)
(*                                                                         *)
(* This module composes the chunkers.  What the parsers make of a file is  *)
(* any document of its type; how they do it is in ParentLadder and in the  *)
(* first part of RowChunks.                                                *)
(***************************************************************************)
EXTENDS TextChunks, SlideChunks, RowChunks

CONSTANT Extensions  \* the extensions of the files given to the pipeline
VARIABLES
  ext,       \* the file's extension
  strategy,  \* parent_strategy in the document's metadata
  phase,     \* where ingest_file is: "parse", "chunk" or "done"
  status     \* of the result; its chunks are the variable of this name

fileState == <<ext, strategy, phase, status>>
fileVars  == <<textVars, rowState, fileState>>

FileInit ==
  /\ ext \in Extensions /\ strategy = "none" /\ phase = "parse" /\ status = "none"
  /\ doc = NoDoc /\ ChunkingInit /\ TextStart /\ RowStart

\* registry.for_path picks the parser that supports the extension; with no such
\* parser there is no Parse, only ParseFails.
Parsed(type) ==
  \/ type \in TextTypes  /\ \E shape \in Shapes : doc' = TextDoc(type, shape)
  \/ type \in SlideTypes /\ \E slides \in BoundedSeq(Slides, MaxSlides) : doc' = Deck(type, slides)
  \/ type \in RowTypes   /\ \E book \in Books(type) : doc' = Workbook(type, book)

\* The tiers that the ladder may end at (ParentLadder); a workbook has none.
Strategies(type) ==
  CASE type = "pdf"  -> {"HEADING", "LLM_INFERRED", "PAGE"}
    [] type = "docx" -> {"HEADING", "FLAT"}
    [] type = "pptx" -> {"SLIDE"}
    [] OTHER         -> {"none"}

\* The except clause: an error leaves a failed result with no chunks.
Failed ==
  /\ phase' = "done" /\ status' = "failed" /\ chunks' = <<>>
  /\ UNCHANGED <<doc, section, childOrd, parentOrd, textState, rowState, ext, strategy>>

ParseFails == phase = "parse" /\ Failed

Parse ==
  /\ phase = "parse"
  /\ Parsed(ext)
  /\ strategy' \in Strategies(ext)
  /\ phase' = "chunk"
  /\ UNCHANGED <<section, childOrd, parentOrd, chunks, textState, rowState, ext, status>>

\* The chunker that __init__ registered for the file type.
ChunkStep ==
  /\ phase = "chunk"
  /\ \/ TextNext  /\ UNCHANGED <<rowState, fileState>>
     \/ SlideNext /\ UNCHANGED <<textState, rowState, fileState>>
     \/ RowNext   /\ UNCHANGED <<textState, fileState>>

\* The embeddings fail, or cannot be built.  The semantic chunker builds them before its
\* first section, the slide chunker for its first oversized slide.
NeedsEmbeddings ==
  \/ doc.type \in TextTypes /\ (section = 0 \/ (parents # <<>> /\ Len(Head(parents)) >= MinChildTokens))
  \/ NextSlide /\ Len(SlideText(doc.sections[section + 1])) > MaxChildTokens
ChunkFails == phase = "chunk" /\ NeedsEmbeddings /\ Failed

MutWarnings ==  \* a bug: the scale guard is logged only
  (IF strategy \in {"PAGE", "FLAT"} THEN {"degraded"} ELSE {})
  \cup (IF doc.type \in SlideTypes /\ EmptySlides > 0 THEN {"empty slides"} ELSE {})

\* _collect_warnings.
Warnings ==
  LET rowChunks == {c \in ToSet(chunks) : c.block = "row"}
  IN  (IF strategy \in {"PAGE", "FLAT"} THEN {"degraded"} ELSE {})
      \cup (IF \E c \in rowChunks : c.role = "parent" /\ c.text.structured THEN {"scale guard"} ELSE {})
      \cup (IF \E c \in rowChunks : c.text.sparse THEN {"sparse"} ELSE {})
      \cup (IF doc.type \in SlideTypes /\ EmptySlides > 0 THEN {"empty slides"} ELSE {})

Finish ==
  /\ phase = "chunk" /\ (TextDone \/ SlideDone \/ RowDone)
  /\ phase' = "done"
  /\ status' = IF Warnings = {} THEN "success" ELSE "partial"
  /\ UNCHANGED <<doc, section, childOrd, parentOrd, chunks, textState, rowState, ext, strategy>>

FileNext == ParseFails \/ Parse \/ ChunkStep \/ ChunkFails \/ Finish
FileSpec == FileInit /\ [][FileNext]_fileVars

----------------------------------------------------------------------------
\* Properties.

FileTypeOK ==
  /\ (status # "failed" => TextTypeOK) /\ RowTypeOK
  /\ section <= Len(doc.sections) + 1
  /\ phase \in {"parse", "chunk", "done"}
  /\ status \in {"none", "success", "partial", "failed"}

\* What success and partial promise: the text of every section and slide and the rows of
\* every sheet are in the child chunks, once and in order, and so are the rows of all
\* tables of a pdf and a docx.  What of that is left out on purpose (a sheet over the
\* scale guard, an empty slide), and a document without its headings, has put a warning
\* into the result and made it partial.  A slide's table is not part of the promise: no
\* chunk has it and no warning says so (SlideTablesChunked).
ResultKeepsText ==
  LET children(block, s) == Texts({c \in ToSet(chunks) : c.role = "child" /\ c.block = block /\ c.section = s})
      tableRows == Texts({c \in ToSet(chunks) : c.block = "table"})
      rowsOf(s) == FlattenSeq([b \in DOMAIN BatchesOf(s) |-> BatchesOf(s)[b].text.rows])
  IN  /\ status \in {"success", "partial"} => \A s \in DOMAIN doc.sections :
           CASE ext \in TextTypes  -> children("text", s) = FlattenSeq(doc.sections[s].paragraphs)
             [] ext \in SlideTypes -> children("slide", s) = SlideText(doc.sections[s])
             [] ext \in RowTypes   -> rowsOf(s) \in {doc.sections[s].rows, <<>>}
      /\ status \in {"success", "partial"} /\ ext \in TextTypes => tableRows = FlattenSeq(Tables)
      /\ status = "success" =>
           /\ strategy \notin {"PAGE", "FLAT"}
           /\ \A s \in DOMAIN doc.sections :
                CASE ext \in SlideTypes -> SlideText(doc.sections[s]) # <<>>
                  [] ext \in RowTypes   -> rowsOf(s) = doc.sections[s].rows
                  [] OTHER -> TRUE
=============================================================================
