----------------------------- MODULE RowCursor -----------------------------
(***************************************************************************)
(* Iteration over a result: cubesql.Rows (Next, Seek, Value, Scan) over a  *)
(* csqlc cursor of the C SDK, which keeps a large result in the buffers it *)
(* was received in.                                                        *)
(*                                                                         *)
(* Rows.mu serialises the methods of a Rows, so a method is one action.  A *)
(* field is abstracted to where it is: the buffer and the index in that    *)
(* buffer's array of sizes.  Buffers are numbered from 1.  The cursor's    *)
(* eof flag is left out: the driver never asks for it.                     *)
(***************************************************************************)
EXTENDS Integers, Sequences

CONSTANTS
    Columns,   \* number of columns the caller sees
    IntLimit,  \* a C int holds the numbers from -IntLimit to IntLimit - 1
    MaxRows,   \* bound: rows in a result
    MaxChunks, \* bound: packets of a result
    MaxSeek    \* bound: argument of Seek, a Go int wider than a C int

ASSUME BoundsAssumption ==
    /\ Columns \in Nat \ {0} /\ IntLimit \in Nat \ {0}
    /\ MaxRows \in Nat /\ MaxChunks \in Nat /\ MaxSeek \in Nat
    /\ MaxRows < IntLimit

VARIABLES
    phase,      \* "reading" the packets, "open" to the caller, "closed"
    hasRowid,   \* c->has_rowid: a hidden first column
    nrows,      \* c->nrows, which is Rows.total once the Rows is open
    rowcount,   \* c->rowcount: rows up to the end of each buffer; c->nbuffer
                \* is its length, 0 if the result came in one packet
    buffer,     \* c->current_buffer
    nativeRow,  \* c->current_row
    current,    \* Rows.current
    err,        \* Rows.err # nil
    read,       \* the fields the last Value or Scan copied
    seekedBack  \* history: some Seek went to an earlier row

cursorVars == <<hasRowid, nrows, rowcount>>
vars == <<phase, cursorVars, buffer, nativeRow, current, err, read, seekedBack>>

\* csql_cursor_alloc, and the Rows to come.
Init ==
    /\ phase = "reading" /\ hasRowid \in BOOLEAN
    /\ nrows = 0 /\ rowcount = <<>> /\ buffer = 1 /\ nativeRow = 1
    /\ current = 0 /\ err = FALSE /\ read = {} /\ seekedBack = FALSE

(***************************************************************************)
(* csql_read_cursor.                                                       *)
(***************************************************************************)
\* A packet with n rows.  Once one packet was partial all are; a result that
\* starts with a whole packet ends with it.
ReadPacket(n, partial) ==
    /\ phase = "reading"
    /\ nrows + n <= MaxRows /\ Len(rowcount) < MaxChunks
    /\ nrows' = nrows + n
    /\ IF partial \/ rowcount # <<>>
       THEN rowcount' = Append(rowcount, nrows') /\ UNCHANGED phase
       ELSE phase' = "open" /\ UNCHANGED rowcount
    /\ UNCHANGED <<hasRowid, buffer, nativeRow, current, err, read, seekedBack>>

\* The end of the chunks.
EndChunk ==
    /\ phase = "reading"
    /\ phase' = "open"
    /\ UNCHANGED <<cursorVars, buffer, nativeRow, current, err, read, seekedBack>>

\* A failed read frees the cursor.
ReadFails ==
    /\ phase = "reading"
    /\ phase' = "closed"
    /\ UNCHANGED <<cursorVars, buffer, nativeRow, current, err, read, seekedBack>>

(***************************************************************************)
(* cubesql_cursor_seek.                                                    *)
(***************************************************************************)
\* The conversion of a Go int to a C int.
CInt(i) == ((i + IntLimit) % (2 * IntLimit)) - IntLimit

\* Four negative numbers are commands.
SeekIndex(row) ==
    LET index == CInt(row) IN
    CASE index = -2 -> nativeRow + 1
      [] index = -3 -> 1
      [] index = -4 -> nrows
      [] index = -5 -> nativeRow - 1
      [] OTHER      -> index

SeekOk(row) == 0 < SeekIndex(row) /\ SeekIndex(row) <= nrows

(***************************************************************************)
(* cubesql_cursor_field.                                                   *)
(***************************************************************************)
NBuffer == Len(rowcount)

\* Rows in the buffers before buffer i.
Before(i) == IF i = 1 THEN 0 ELSE rowcount[i - 1]

Covers(i, row) == Before(i) <= row /\ row <= rowcount[i]

\* The check of the following buffer, whose end is taken to be its start
\* when there is none.
NextCovers(row) ==
    /\ rowcount[buffer] <= row
    /\ row <= rowcount[IF buffer = NBuffer THEN buffer ELSE buffer + 1]

\* Fault: the last row of a buffer is not looked for in it.
FindBufferBelowEnd(row) ==
    IF Before(buffer) <= row /\ row < rowcount[buffer] THEN buffer
    ELSE IF NextCovers(row) THEN buffer + 1
    ELSE CHOOSE i \in 1..NBuffer :
             Covers(i, row) /\ \A j \in 1..(i - 1) : ~Covers(j, row)

\* The current buffer, the following one, then the first one that fits; a row
\* of the result is in one of them.
FindBuffer(row) ==
    IF Covers(buffer, row) THEN buffer
    ELSE IF NextCovers(row) THEN buffer + 1
    ELSE CHOOSE i \in 1..NBuffer :
             Covers(i, row) /\ \A j \in 1..(i - 1) : ~Covers(j, row)

\* A result in one packet has no buffer list.
BufferOf(row) == IF NBuffer = 0 THEN 1 ELSE FindBuffer(row)

RowWidth == IF hasRowid THEN Columns + 1 ELSE Columns

\* Where the columns of a row start when the hidden one is not counted.
FirstColumn == IF hasRowid THEN 1 ELSE 0

\* Faults: the rows of the earlier buffers are not subtracted; a negative
\* index is used as it is.
RowInBufferAbsolute(row, i) == row

FieldIndexUnclipped(row, column) ==
    (row - 1) * RowWidth + FirstColumn + column - 1

RowInBuffer(row, i) == row - Before(i)

\* The index into size and psum, at least 0.
FieldIndex(row, column) ==
    LET n == (row - 1) * RowWidth + FirstColumn + column - 1
    IN  IF n < 0 THEN 0 ELSE n

Field(row, column) ==
    LET i == BufferOf(row)
    IN  [row |-> row, column |-> column, buffer |-> i,
         n |-> FieldIndex(RowInBuffer(row, i), column)]

(***************************************************************************)
(* Rows.                                                                   *)
(***************************************************************************)
\* Fault: the native cursor is not moved along.
NextContextGoOnly ==
    /\ phase = "open" /\ ~err /\ current < nrows
    /\ current' = current + 1 /\ read' = {}
    /\ UNCHANGED <<phase, cursorVars, nativeRow, err, buffer, seekedBack>>

\* NextContext.  An error stops the iteration until the next Seek.
NextContext ==
    /\ phase = "open"
    /\ \/ err' = TRUE /\ UNCHANGED <<nativeRow, current>>
       \/ /\ ~err /\ current < nrows
          /\ IF SeekOk(current + 1)
             THEN /\ nativeRow' = SeekIndex(current + 1)
                  /\ current' = current + 1
                  /\ UNCHANGED err
             ELSE err' = TRUE /\ UNCHANGED <<nativeRow, current>>
    /\ read' = {}
    /\ UNCHANGED <<phase, cursorVars, buffer, seekedBack>>

SeekContext(row) ==
    /\ phase = "open" /\ SeekOk(row)
    /\ nativeRow' = SeekIndex(row)
    /\ current' = row
    /\ seekedBack' = (seekedBack \/ row < current)
    /\ err' = FALSE /\ read' = {}
    /\ UNCHANGED <<phase, cursorVars, buffer>>

OnRow == phase = "open" /\ 0 < current /\ current <= nrows

\* Copying fields of the current row makes its buffer the current one.
Copy(columns) ==
    /\ OnRow
    /\ read' = {Field(current, column) : column \in columns}
    /\ buffer' = BufferOf(current)
    /\ UNCHANGED <<phase, cursorVars, nativeRow, current, err, seekedBack>>

ValueContext(column) == Copy({column})

\* ScanContext copies the columns in order and stops at the first one whose
\* destination does not fit, or at a cancelled context.
ScanContext(last) == Copy(1..last)

Close ==
    /\ phase = "open"
    /\ phase' = "closed"
    /\ read' = {}
    /\ UNCHANGED <<cursorVars, buffer, nativeRow, current, err, seekedBack>>

\* The next query starts over.
Query ==
    /\ phase = "closed"
    /\ phase' = "reading" /\ hasRowid' \in BOOLEAN
    /\ nrows' = 0 /\ rowcount' = <<>> /\ buffer' = 1 /\ nativeRow' = 1
    /\ current' = 0 /\ err' = FALSE /\ read' = {} /\ seekedBack' = FALSE

Next ==
    \/ \E n \in 0..MaxRows, partial \in BOOLEAN : ReadPacket(n, partial)
    \/ EndChunk \/ ReadFails
    \/ NextContext \/ Close \/ Query
    \/ \E row \in 1..MaxSeek : SeekContext(row)
    \/ \E column \in 1..Columns : ValueContext(column)
    \/ \E last \in 2..Columns : ScanContext(last)

Spec == Init /\ [][Next]_vars

(***************************************************************************)
(* Properties.                                                             *)
(***************************************************************************)
\* Every variable has its type; the current buffer is one that exists.
TypeOK ==
    /\ phase \in {"reading", "open", "closed"} /\ hasRowid \in BOOLEAN
    /\ nrows \in 0..MaxRows
    /\ rowcount \in Seq(0..MaxRows) /\ NBuffer <= MaxChunks
    /\ buffer = 1 \/ buffer \in 1..NBuffer
    /\ nativeRow \in 1..(MaxRows + 1) /\ current \in 0..MaxRows \union 1..MaxSeek
    /\ err \in BOOLEAN /\ seekedBack \in BOOLEAN
    /\ \A f \in read : f.row \in 1..nrows /\ f.column \in 1..Columns

RowsIn(i) == IF NBuffer = 0 THEN nrows ELSE rowcount[i] - Before(i)

\* cubesql_cursor_field never reads outside the sizes of a buffer, whatever
\* the packets, empty ones included, and the order of the rows.
InBounds ==
    \A f \in read : 0 <= f.n /\ f.n < RowsIn(f.buffer) * RowWidth

\* The field at index n of buffer i is the field that the row and the column
\* name: the server sends the rows in order.
IsField(f) ==
    (IF NBuffer = 0 THEN 0 ELSE Before(f.buffer)) * RowWidth + f.n
        = (f.row - 1) * RowWidth + FirstColumn + f.column - 1

\* Value and Scan return the field of the current row, however the result
\* was cut into packets, as long as no Seek goes back.
ForwardReadsAreTrue == ~seekedBack => \A f \in read : IsField(f)

\* Value and Scan return the field of the current row.
ReadsAreTrue == \A f \in read : IsField(f)

\* While the Go position is a row of the result, it is the native position
\* too, even after Seek with numbers that a C int cannot hold.
PositionsAgree == OnRow => nativeRow = current

(***************************************************************************)
(* The inductive invariant.                                                *)
(***************************************************************************)
\* csql_read_cursor: the ends of the buffers are in order, the last one is
\* the number of rows, and nothing else moves while packets are read.
Ordered ==
    /\ \A i, j \in 1..NBuffer : i <= j => rowcount[i] <= rowcount[j]
    /\ NBuffer # 0 => rowcount[NBuffer] = nrows
    /\ phase = "reading" =>
          /\ NBuffer = 0 => nrows = 0
          /\ buffer = 1 /\ nativeRow = 1 /\ current = 0 /\ ~err /\ ~seekedBack
    /\ phase # "open" => read = {}

\* cubesql_cursor_field: any buffer but the first became the current one
\* because a row was found in it, and unless a Seek went back, that row was
\* not after the current one.
Reached ==
    /\ buffer = 1 \/ Before(buffer) < rowcount[buffer]
    /\ ~seekedBack => buffer = 1 \/ Before(buffer) < current

\* The conjunction that every step preserves.
CursorInv ==
    TypeOK /\ Ordered /\ Reached /\ PositionsAgree /\ InBounds /\ ForwardReadsAreTrue
=============================================================================
