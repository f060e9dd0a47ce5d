----------------------------- MODULE RowChunks -----------------------------
(***************************************************************************)
(* TabularParser of parsers/tabular_parser.py and RowChunker.chunk of      *)
(* chunkers/row.py: the sheets of a workbook, or the one of a csv file, as *)
(* a parent that describes the sheet and batches of its rows.              *)
(*                                                                         *)
(* A cell is "", "int" and "float" for numbers, or any other string for a  *)
(* word; in the file it may be "nan", "blank" or a "whole float" too.  A   *)
(* row's line has a token for each column's key and for each cell with a   *)
(* value.                                                                  *)
(***************************************************************************)
EXTENDS Chunking

CONSTANTS
  RowPatterns,   \* the rows a sheet may have, all of one width
  MaxGridRows,   \* bound of the workbook: the rows of all its sheets
  RowBatchTargetTokens, MaxRowsPerChunk, MaxRowsForRowChunking  \* the settings of these names

ASSUME RowSettingsAssumption ==
  {RowBatchTargetTokens, MaxRowsPerChunk, MaxRowsForRowChunking} \subseteq Nat \ {0}
\* A sheet with a row has a column.
ASSUME RowPatternsAssumption == RowPatterns \subseteq Seq(STRING) \ {<<>>}

VARIABLES left, batch  \* rows of the sheet in hand: those to come, and current

rowState == <<left, batch>>

RowTypes == {"xlsx", "csv"}  \* file_types of the chunker

----------------------------------------------------------------------------
\* The parser.

\* _coerce_cell: nothing and blanks become "", an integral float an integer.
CoerceCell(raw) == CASE raw \in {"nan", "blank"} -> "" [] raw = "whole float" -> "int" [] OTHER -> raw

IsNumeric(cell) == cell \in {"int", "float"}

\* _looks_headerless: more than half of the cells of the first row are numbers.
LooksHeaderless(row) == 2 * Cardinality({i \in DOMAIN row : IsNumeric(row[i])}) > Len(row)

MutDataRows(grid) == Tail(grid)  \* a bug: the first row is skipped in any case
DataRows(grid) == IF LooksHeaderless(grid[1]) THEN grid ELSE Tail(grid)

\* More than 40% of the cells are empty: the sheet looks like a dashboard.
IsSparse(rows) ==
  LET cells == FlattenSeq(rows)
  IN  10 * Cardinality({k \in DOMAIN cells : cells[k] = ""}) > 4 * Len(cells)

\* _parse_sheet; columns and types only tell the reader, and are left out of the parent.
Sheet(raw) ==
  LET grid == [r \in DOMAIN raw |-> [i \in DOMAIN raw[r] |-> CoerceCell(raw[r][i])]]
      rows == IF grid = <<>> THEN <<>> ELSE DataRows(grid)
  IN  [grid |-> grid, columns |-> IF grid = <<>> THEN 0 ELSE Len(grid[1]),
       rows |-> rows, sparse |-> IsSparse(rows)]

\* A csv file has one sheet, which read_csv refuses without a row; a workbook has one
\* sheet or two.
Books(type) ==
  LET grids == BoundedSeq(RowPatterns, MaxGridRows)
      pairs == {<<SubSeq(c[1], 1, c[2]), SubSeq(c[1], c[2] + 1, Len(c[1]))>> :
                  c \in {d \in grids \X (0..MaxGridRows) : d[2] <= Len(d[1])}}
      text(g) == \A r \in DOMAIN g : "whole float" \notin ToSet(g[r])  \* csv is read as strings
  IN  IF type = "csv" THEN {<<g>> : g \in {h \in grids \ {<<>>} : text(h)}} ELSE {<<g>> : g \in grids} \cup pairs
Workbook(type, book) ==
  [type |-> type, sections |-> [s \in DOMAIN book |-> Sheet(book[s])], orphans |-> <<>>]

----------------------------------------------------------------------------
\* The chunker.

RowStart == left = <<>> /\ batch = <<>>

OverScale(sheet) == Len(sheet.rows) > MaxRowsForRowChunking

\* _mk_parent.
SheetParent(s, sheet) ==
  Chunk("parent", "row", NoParent, parentOrd, s,
    [rows |-> Len(sheet.rows), columns |-> sheet.columns, sparse |-> sheet.sparse,
     structured |-> OverScale(sheet)])

\* The next sheet: its parent, and no rows of a sheet over the scale guard.
OpenSheet ==
  /\ doc.type \in RowTypes /\ left = <<>> /\ batch = <<>> /\ section < Len(doc.sections)
  /\ section' = section + 1
  /\ LET sheet == doc.sections[section']
     IN  /\ chunks' = Append(chunks, SheetParent(section', sheet))
         /\ left' = IF OverScale(sheet) THEN <<>> ELSE [r \in DOMAIN sheet.rows |-> r]
  /\ parentOrd' = parentOrd + 1
  /\ UNCHANGED <<doc, childOrd, batch>>

Line(cells)       == cells \o Only(cells, ToSet(cells) \ {""})
BatchTokens(rows) == Len(FlattenSeq([k \in DOMAIN rows |-> Line(rows[k])]))

MutIsFull(rows) ==  \* a bug: more than the rows allowed
  Len(rows) > MaxRowsPerChunk \/ BatchTokens(rows) >= RowBatchTargetTokens
IsFull(rows) == Len(rows) >= MaxRowsPerChunk \/ BatchTokens(rows) >= RowBatchTargetTokens

CellsOf(rows) == [k \in DOMAIN rows |-> doc.sections[section].rows[rows[k]]]

\* _mk_row_chunk: a batch under the sheet's parent.
EmitBatch(rows) ==
  LET sheet == doc.sections[section]
      parent == Max({i \in ParentsOf("row") : chunks[i].section = section})
  IN  /\ chunks' = Append(chunks, Chunk("child", "row", parent, childOrd, section,
                     [rows |-> CellsOf(rows),
                      range |-> <<Head(rows) - 1, Last(rows) - 1>>, sparse |-> sheet.sparse]))
      /\ childOrd' = childOrd + 1

TakeRow ==
  /\ left # <<>>
  /\ left' = Tail(left)
  /\ LET current == Append(batch, Head(left))
     IN  IF IsFull(CellsOf(current)) THEN EmitBatch(current) /\ batch' = <<>>
                            ELSE batch' = current /\ UNCHANGED <<chunks, childOrd>>
  /\ UNCHANGED <<doc, section, parentOrd>>

\* What is left after a sheet's last row.
FlushBatch ==
  /\ left = <<>> /\ batch # <<>>
  /\ EmitBatch(batch)
  /\ batch' = <<>>
  /\ UNCHANGED <<doc, section, parentOrd, left>>

RowNext == OpenSheet \/ TakeRow \/ FlushBatch

----------------------------------------------------------------------------
\* Properties.

RowTypeOK ==
  /\ left \in Seq(Nat) /\ batch \in Seq(Nat)
  /\ Len(batch) < MaxRowsPerChunk

RowDone == doc.type \in RowTypes /\ section = Len(doc.sections) /\ left = <<>> /\ batch = <<>>

BatchesOf(s) == Only(chunks, {c \in ToSet(chunks) : c.block = "row" /\ c.role = "child" /\ c.section = s})

\* When chunk() is done, the batches of a sheet that is not over the scale guard tile
\* the rows of the file, all but a header: none lost at the header heuristic or at
\* the end of a batch, and each row_range begins where the one before ended.
RowsTiled ==
  RowDone => \A s \in DOMAIN doc.sections :
    LET grid    == doc.sections[s].grid
        batches == BatchesOf(s)
        rows    == FlattenSeq([b \in DOMAIN batches |-> batches[b].text.rows])
        numbers == [b \in DOMAIN batches |-> batches[b].text.range]
    IN  /\ \/ rows = grid
           \/ rows = Tail(grid) /\ \E i \in DOMAIN grid[1] : ~IsNumeric(grid[1][i])
           \/ batches = <<>> /\ Len(doc.sections[s].rows) > MaxRowsForRowChunking
        /\ \A b \in DOMAIN batches :
             /\ numbers[b][2] - numbers[b][1] + 1 = Len(batches[b].text.rows)
             /\ numbers[b][1] = IF b = 1 THEN 0 ELSE numbers[b - 1][2] + 1

\* "Rows are packed into batches (bounded by row_batch_target_tokens and
\* max_rows_per_chunk)" (row.py): a batch has no row more than allowed and reaches
\* the token target with its last row only, and only a sheet's last one has room.
BatchesFull ==
  \A s \in DOMAIN doc.sections : doc.type \in RowTypes =>
    LET batches == BatchesOf(s)
    IN  \A b \in DOMAIN batches :
          LET rows == batches[b].text.rows
          IN  /\ Len(rows) <= MaxRowsPerChunk
              /\ BatchTokens(Front(rows)) < RowBatchTargetTokens
              /\ b < Len(batches) => Len(rows) = MaxRowsPerChunk \/ BatchTokens(rows) >= RowBatchTargetTokens
=============================================================================
