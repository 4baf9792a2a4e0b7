------------------------------- MODULE DatFile -------------------------------
(***************************************************************************)
(* How ingestor/parser.py reads a `.dat` file of an FCC archive and how    *)
(* ingestor/db.py puts its rows into a table.                              *)
(*                                                                         *)
(* A piece is a text without newline and without the delimiter "|"; the    *)
(* empty text is Blank.  A physical line is the sequence of the pieces     *)
(* between its delimiters.  A cell of a logical line is a sequence of      *)
(* pieces joined by newlines, so the empty cell is <<Blank>>.  A row is a  *)
(* function from the columns of a schema to cells or None.                 *)
(***************************************************************************)
EXTENDS Integers, SequencesExt

CONSTANTS
  Blank,      \* the empty text
  None,       \* SQL NULL, Python None
  BatchSize   \* rows that upsert_rows_batch sends together

ASSUME BatchAssumption == BatchSize \in Nat \ {0}

-----------------------------------------------------------------------------
(* parser.py: physical lines to logical lines to rows                      *)

\* line.startswith(f"{record_type}|")
StartsRecord(line, rt) == Len(line) >= 2 /\ line[1] = rt

\* The cells of a line that no other line continues.
Cells(line) == [i \in 1..Len(line) |-> <<line[i]>>]

\* buffer += "\n" + line
Continue(cells, line) ==
  Front(cells) \o <<Append(Last(cells), line[1])>> \o Tail(Cells(line))

\* (Mutant: a line that starts no record is skipped.)
ReadLineSkipping(st, line, rt) ==
  IF StartsRecord(line, rt)
    THEN [yielded |-> st.yielded \o st.buffer, buffer |-> <<Cells(line)>>]
  ELSE st

\* One turn of the loop of _logical_lines: `buffer` holds no or one logical line.
ReadLine(st, line, rt) ==
  IF StartsRecord(line, rt)
    THEN [yielded |-> st.yielded \o st.buffer, buffer |-> <<Cells(line)>>]
  ELSE IF st.buffer # <<>>
    THEN [st EXCEPT !.buffer = <<Continue(@[1], line)>>]
  ELSE IF line = <<Blank>> THEN st
  ELSE [st EXCEPT !.yielded = Append(@, Cells(line))]

LogicalLines(physical, rt) ==
  LET st == FoldLeft(LAMBDA s, line : ReadLine(s, line, rt),
                     [yielded |-> <<>>, buffer |-> <<>>], physical)
  IN  st.yielded \o st.buffer

\* strict=False, as every ingest calls it: a row of another length is cut or padded.
Fitted(cells, n) ==
  [i \in 1..n |-> IF i <= Len(cells) THEN cells[i] ELSE <<Blank>>]

\* (Mutant: the record type is a column like the others.)
RowOfAllColumns(cells, schema) ==
  [c \in ToSet(schema) |->
     LET cell == Fitted(cells, Len(schema))[CHOOSE i \in 1..Len(schema) : schema[i] = c]
     IN  IF cell = <<Blank>> THEN None ELSE cell]

\* A schema is the sequence of the columns; the first one is the record type.
RowOf(cells, schema) ==
  [c \in ToSet(Tail(schema)) |->
     LET cell == Fitted(cells, Len(schema))[CHOOSE i \in 2..Len(schema) : schema[i] = c]
     IN  IF cell = <<Blank>> THEN None ELSE cell]

ParseDatFile(physical, rt, schema) ==
  LET lines == LogicalLines(physical, rt)
  IN  [i \in 1..Len(lines) |-> RowOf(lines[i], schema)]

-----------------------------------------------------------------------------
(* db.py: rows to a table, a function from keys to rows or None            *)

\* INSERT ... ON CONFLICT (key) DO UPDATE of every column of the row
Upsert(table, row, key) == [table EXCEPT ![row[key][1]] = row]

\* cur.executemany(sql, batch)
ExecuteMany(st, key) ==
  [table |-> FoldLeft(LAMBDA t, r : Upsert(t, r, key), st.table, st.batch),
   count |-> st.count + Len(st.batch),
   batch |-> <<>>]

\* (Mutant: what is left when the file ends is forgotten.)
UpsertBatchFullOnly(table, rows, key) ==
  LET take(st, r) ==
        LET full == [st EXCEPT !.batch = Append(@, r)]
        IN  IF Len(full.batch) >= BatchSize THEN ExecuteMany(full, key) ELSE full
  IN  FoldLeft(take, [table |-> table, count |-> 0, batch |-> <<>>], rows)

\* upsert_rows_batch: full batches as they fill up, the rest at the end.
UpsertBatch(table, rows, key) ==
  LET take(st, r) ==
        LET full == [st EXCEPT !.batch = Append(@, r)]
        IN  IF Len(full.batch) >= BatchSize THEN ExecuteMany(full, key) ELSE full
      read == FoldLeft(take, [table |-> table, count |-> 0, batch |-> <<>>], rows)
  IN  IF read.batch # <<>> THEN ExecuteMany(read, key) ELSE read

\* diff_rows: the columns a fetched row and a parsed row differ in; a key seen for
\* the first time has none.  The row keeps texts where the database has types, and
\* _normalize makes the two sides of a comparison texts again, NULL for "".
DiffRows(old, new) == IF old = None THEN {} ELSE {c \in DOMAIN new : old[c] # new[c]}
==============================================================================
