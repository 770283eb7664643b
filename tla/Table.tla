--------------------------------- MODULE Table ----------------------------------
(***************************************************************************)
(* src/dataStructures/avTable.c: a table whose rows lie one behind the     *)
(* other in one block of memory, with columns of different sizes.          *)
(***************************************************************************)
EXTENDS Integers, Sequences, FiniteSets, FiniteSetsExt, SequencesExt

CONSTANTS Rows,         (* how many rows the table has                      *)
          MaxColumns,   (* bound: how many columns                          *)
          ColumnSizes,  (* sizes a column may have                          *)
          Bytes         (* what a byte may hold; 0 is what avCallocate gives *)

(* Without rows no table is made.                                          *)
ASSUME TableIsCounted == Rows \in Nat \ {0} /\ MaxColumns \in Nat /\ ColumnSizes \subseteq Nat

VARIABLES columnSizes,  (* columnSizes[c] for c in 1..columns               *)
          rowData       (* the bytes of the table                           *)

tableVars == <<columnSizes, rowData>>

Columns == DOMAIN columnSizes
SizeUpTo(c) == FoldLeft(LAMBDA n, size : n + size, 0, SubSeq(columnSizes, 1, c))
RowSize == SizeUpTo(Len(columnSizes))

(* avTableCreateFromArray: the offset of a column is the size of those     *)
(* before it.                                                              *)
ColumnOffset(c) == SizeUpTo(c - 1)

TableInit ==
    /\ columnSizes \in UNION {[1..n -> ColumnSizes] : n \in 1..MaxColumns}
    /\ rowData = [i \in 0..(Rows * RowSize - 1) |-> 0]

CellAt(c, r) == r * RowSize + ColumnOffset(c)

(* memcpy of a sequence of bytes to the offset at.                         *)
Stored(data, at, bytes) ==
    [i \in DOMAIN data |-> IF i \in at..(at + Len(bytes) - 1) THEN bytes[i - at + 1] ELSE data[i]]
Fetched(data, at, size) == [i \in 1..size |-> data[at + i - 1]]

(* Rows are numbered from 0, columns from 1: the code's column c - 1.      *)
InTable(c, r) == c \in Columns /\ r < Rows

(* avTableWrite, avTableRead; they do nothing outside of the table.        *)
CellWritten(data, c, r, bytes) == IF InTable(c, r) THEN Stored(data, CellAt(c, r), bytes) ELSE data
CellRead(data, c, r) == Fetched(data, CellAt(c, r), columnSizes[c])

(* avTableWriteRow, avTableReadRow *)
RowWritten(data, r, bytes) == IF InTable(1, r) THEN Stored(data, r * RowSize, bytes) ELSE data
RowRead(data, r) == Fetched(data, r * RowSize, RowSize)

(* avTableWriteColumn and avTableReadColumn never advance their offset:    *)
(* every row gets the first element, and the last row's is what is read.   *)
ColumnWritten(data, c, bytes) ==
    LET Upto[r \in 0..Rows] ==
            IF r = 0 THEN data ELSE Stored(Upto[r - 1], CellAt(c, r - 1), SubSeq(bytes, 1, columnSizes[c]))
    IN  IF c \in Columns THEN Upto[Rows] ELSE data
ColumnRead(data, c, into) ==
    LET Upto[r \in 0..Rows] ==
            IF r = 0 THEN into
            ELSE CellRead(data, c, r - 1) \o SubSeq(Upto[r - 1], columnSizes[c] + 1, Len(into))
    IN  Upto[Rows]

BytesOf(n) == [1..n -> Bytes]

TableNext ==
    /\ UNCHANGED columnSizes
    /\ \/ \E c \in Columns, r \in 0..Rows : \E bytes \in BytesOf(columnSizes[c]) :
              rowData' = CellWritten(rowData, c, r, bytes)
       \/ \E r \in 0..Rows, bytes \in BytesOf(RowSize) : rowData' = RowWritten(rowData, r, bytes)
       \/ \E c \in Columns : \E bytes \in BytesOf(Rows * columnSizes[c]) :
              rowData' = ColumnWritten(rowData, c, bytes)

--------------------------------------------------------------------------------

Positions == Columns \X (0..(Rows - 1))

(* A cell holds what was last written to it: writing one leaves all the    *)
(* others alone, and a row is the cells of its columns in order.           *)
CellsIndependent ==
    \A p \in Positions : \A bytes \in BytesOf(columnSizes[p[1]]) :
        \A q \in Positions :
            CellRead(CellWritten(rowData, p[1], p[2], bytes), q[1], q[2])
                = IF p = q THEN bytes ELSE CellRead(rowData, q[1], q[2])
RowsAreCells ==
    \A r \in 0..(Rows - 1) :
        RowRead(rowData, r) = FlattenSeq([c \in Columns |-> CellRead(rowData, c, r)])

(* Only the first of the elements written as a column is in the table: it  *)
(* is in every cell of the column, and reading the column puts it at the   *)
(* start of the buffer and leaves the rest of the buffer as it was.        *)
ColumnsOfOneValue ==
    \A c \in Columns : \A bytes, into \in BytesOf(Rows * columnSizes[c]) :
        LET written == ColumnWritten(rowData, c, bytes)
            element == SubSeq(bytes, 1, columnSizes[c])
        IN  /\ \A r \in 0..(Rows - 1) : CellRead(written, c, r) = element
            /\ ColumnRead(written, c, into) = element \o SubSeq(into, columnSizes[c] + 1, Len(into))

TableSound == CellsIndependent /\ RowsAreCells /\ ColumnsOfOneValue
================================================================================
