-------------------------- MODULE RowCursorProofs --------------------------
(***************************************************************************)
(* Proofs about RowCursor, for every number of rows, packets and columns   *)
(* and every width of a C int that the rows fit.                           *)
(***************************************************************************)
EXTENDS RowCursor, WellFoundedInduction, TLAPS

(***************************************************************************)
(* Numbers.                                                                *)
(***************************************************************************)
\* A nonempty set of numbers has a least one.
LEMMA LeastNumber ==
    ASSUME NEW T, T \subseteq Nat, T # {}
    PROVE  \E m \in T : \A k \in T : m <= k
<1>1. PICK m \in T : \A k \in T : ~(<<k, m>> \in OpToRel(<, Nat))
  BY NatLessThanWellFounded, WFMin
<1>2. \A k \in T : m <= k
  <2> SUFFICES ASSUME NEW k \in T, k < m PROVE FALSE
    OBVIOUS
  <2>1. <<k, m>> \in OpToRel(<, Nat)
    BY DEF OpToRel
  <2> QED BY <1>1, <2>1
<1> QED BY <1>2

\* A number that a C int holds is converted to itself.
LEMMA CIntKeeps ==
    ASSUME NEW i \in Nat, i < IntLimit
    PROVE  CInt(i) = i
<1>1. IntLimit \in Nat \ {0}
  BY BoundsAssumption
<1>2. i + IntLimit \in 0..(2 * IntLimit - 1)
  BY <1>1
<1>3. ((i + IntLimit) % (2 * IntLimit)) = i + IntLimit
  BY <1>1, <1>2
<1> QED BY <1>1, <1>3 DEF CInt

\* Products grow with their factors.
LEMMA ProductGrows ==
    ASSUME NEW a \in Int, NEW b \in Int, NEW w \in Nat, a <= b
    PROVE  a * w <= b * w
  OBVIOUS

\* A sum times a width.
LEMMA ProductSplits ==
    ASSUME NEW a \in Int, NEW b \in Int, NEW w \in Int
    PROVE  (a + b) * w = a * w + b * w
  OBVIOUS

(***************************************************************************)
(* cubesql_cursor_field.                                                   *)
(***************************************************************************)
\* What the invariant says of the buffers.
LEMMA BufferFacts ==
    ASSUME TypeOK, Ordered
    PROVE  /\ NBuffer \in Nat /\ nrows \in 0..MaxRows /\ nrows \in Nat
           /\ \A i \in 1..NBuffer : /\ rowcount[i] \in 0..MaxRows /\ rowcount[i] \in Nat
                                    /\ Before(i) \in Nat /\ Before(i) <= rowcount[i]
                                    /\ rowcount[i] <= nrows
<1>1. NBuffer \in Nat /\ nrows \in 0..MaxRows /\ nrows \in Nat
  BY BoundsAssumption DEF TypeOK, NBuffer
<1>2. ASSUME NEW i \in 1..NBuffer
      PROVE  rowcount[i] \in 0..MaxRows /\ rowcount[i] \in Nat
  BY <1>1, <1>2, BoundsAssumption DEF TypeOK, NBuffer
<1>3. ASSUME NEW i \in 1..NBuffer
      PROVE  Before(i) \in Nat /\ Before(i) <= rowcount[i]
  <2>1. CASE i = 1
    BY <1>2, <2>1 DEF Before
  <2>2. CASE i # 1
    <3>1. i - 1 \in 1..NBuffer /\ i - 1 <= i
      BY <1>1, <1>3, <2>2
    <3> QED BY <1>2, <1>3, <2>2, <3>1 DEF Before, Ordered
  <2> QED BY <2>1, <2>2
<1>4. ASSUME NEW i \in 1..NBuffer
      PROVE  rowcount[i] <= nrows
  <2>1. NBuffer \in 1..NBuffer /\ i <= NBuffer /\ NBuffer # 0
    BY <1>1, <1>4
  <2> QED BY <1>4, <2>1 DEF Ordered
<1> QED BY <1>1, <1>2, <1>3, <1>4

\* The search from the first buffer finds one, which really has the row.
LEMMA SearchFinds ==
    ASSUME TypeOK, Ordered, NBuffer # 0, NEW row \in 1..nrows
    PROVE  LET i == CHOOSE i \in 1..NBuffer :
                        Covers(i, row) /\ \A j \in 1..(i - 1) : ~Covers(j, row)
           IN  i \in 1..NBuffer /\ Before(i) < row /\ row <= rowcount[i]
<1>1. /\ NBuffer \in Nat /\ nrows \in Nat /\ row \in Nat /\ 1 <= row /\ row <= nrows
      /\ \A i \in 1..NBuffer : /\ rowcount[i] \in Nat
                               /\ Before(i) \in Nat /\ Before(i) <= rowcount[i]
  BY BufferFacts
<1> DEFINE T == {i \in 1..NBuffer : row <= rowcount[i]}
<1>2. NBuffer \in T
  BY <1>1 DEF Ordered
<1>3. PICK m \in T : \A k \in T : m <= k
  <2>1. T \subseteq Nat
    BY <1>1
  <2> QED BY <1>2, <2>1, LeastNumber
<1>4. m \in 1..NBuffer /\ row <= rowcount[m]
  BY <1>3
<1>5. ASSUME NEW j \in 1..(m - 1)
      PROVE  rowcount[j] < row /\ ~Covers(j, row)
  <2>1. j \in 1..NBuffer /\ j < m
    BY <1>1, <1>4, <1>5
  <2>2. j \notin T
    BY <1>1, <1>3, <1>4, <2>1
  <2> QED BY <1>1, <2>1, <2>2 DEF Covers
<1>6. Before(m) < row
  <2>1. CASE m = 1
    BY <1>1, <2>1 DEF Before
  <2>2. CASE m # 1
    <3>1. m - 1 \in 1..(m - 1)
      BY <1>4, <2>2
    <3> QED BY <1>5, <2>2, <3>1 DEF Before
  <2> QED BY <2>1, <2>2
<1>7. Covers(m, row)
  BY <1>1, <1>4, <1>6 DEF Covers
<1> DEFINE fits(i) == Covers(i, row) /\ \A j \in 1..(i - 1) : ~Covers(j, row)
           i0 == CHOOSE i \in 1..NBuffer : fits(i)
<1>8. i0 \in 1..NBuffer /\ fits(i0)
  BY <1>4, <1>5, <1>7
<1>9. i0 = m
  <2>1. i0 \in T
    BY <1>8 DEF Covers
  <2>2. m <= i0
    BY <1>3, <2>1
  <2>3. ~(m < i0)
    <3> SUFFICES ASSUME m < i0 PROVE FALSE
      OBVIOUS
    <3>1. m \in 1..(i0 - 1)
      BY <1>4, <1>8
    <3> QED BY <1>7, <1>8, <3>1
  <2> QED BY <1>1, <1>4, <1>8, <2>2, <2>3
<1> QED BY <1>4, <1>6, <1>9

\* The buffer that a row is looked up in exists and has rows.  It is one that
\* really has the row, unless the row is the last one before it.
LEMMA BufferFound ==
    ASSUME TypeOK, Ordered, Reached, NBuffer # 0, NEW row \in 1..nrows
    PROVE  LET i == FindBuffer(row)
           IN  /\ i \in 1..NBuffer
               /\ Before(i) <= row /\ row <= rowcount[i] /\ Before(i) < rowcount[i]
               /\ buffer = 1 \/ Before(buffer) < row => Before(i) < row
<1>1. /\ NBuffer \in Nat /\ nrows \in Nat /\ row \in Nat /\ 1 <= row /\ row <= nrows
      /\ \A i \in 1..NBuffer : /\ rowcount[i] \in Nat
                               /\ Before(i) \in Nat /\ Before(i) <= rowcount[i]
  BY BufferFacts
<1>2. buffer \in 1..NBuffer
  BY <1>1 DEF TypeOK
<1>3. CASE Covers(buffer, row)
  <2>1. FindBuffer(row) = buffer
    BY <1>3 DEF FindBuffer
  <2>2. Before(buffer) <= row /\ row <= rowcount[buffer]
    BY <1>3 DEF Covers
  <2>3. buffer = 1 => Before(buffer) = 0
    BY DEF Before
  <2>4. Before(buffer) < rowcount[buffer]
    BY <1>1, <1>2, <2>2, <2>3 DEF Reached
  <2> QED BY <1>1, <1>2, <2>1, <2>2, <2>3, <2>4
<1>4. CASE ~Covers(buffer, row) /\ NextCovers(row)
  <2>1. FindBuffer(row) = buffer + 1
    BY <1>4 DEF FindBuffer
  <2>2. rowcount[buffer] <= row
    BY <1>4 DEF NextCovers
  <2>3. rowcount[buffer] < row
    BY <1>1, <1>2, <1>4, <2>2 DEF Covers
  <2>4. buffer # NBuffer
    BY <1>1, <1>2, <1>4, <2>3 DEF NextCovers
  <2>5. buffer + 1 \in 1..NBuffer /\ row <= rowcount[buffer + 1]
    BY <1>1, <1>2, <1>4, <2>4 DEF NextCovers
  <2>6. Before(buffer + 1) = rowcount[buffer]
    BY <1>2 DEF Before
  <2> QED BY <1>1, <1>2, <2>1, <2>3, <2>5, <2>6
<1>5. CASE ~Covers(buffer, row) /\ ~NextCovers(row)
  <2> DEFINE i == CHOOSE i \in 1..NBuffer :
                     Covers(i, row) /\ \A j \in 1..(i - 1) : ~Covers(j, row)
  <2>1. FindBuffer(row) = i
    BY <1>5 DEF FindBuffer
  <2>2. i \in 1..NBuffer /\ Before(i) < row /\ row <= rowcount[i]
    BY SearchFinds
  <2> HIDE DEF i
  <2> QED BY <1>1, <2>1, <2>2
<1> QED BY <1>3, <1>4, <1>5

\* Where the wanted column is in a row that has the hidden one or not.
LEMMA ColumnInRow ==
    ASSUME TypeOK, NEW column \in 1..Columns
    PROVE  /\ RowWidth \in Nat \ {0}
           /\ FirstColumn + column - 1 \in 0..(RowWidth - 1)
  BY BoundsAssumption DEF TypeOK, RowWidth, FirstColumn

\* The index of a field: inside r rows, and clipped only for a row before the
\* first.
LEMMA IndexInside ==
    ASSUME TypeOK, NEW column \in 1..Columns, NEW k \in Nat, NEW r \in Nat \ {0}, k <= r
    PROVE  LET n == FieldIndex(k, column)
           IN  /\ 0 <= n /\ n < r * RowWidth
               /\ k > 0 => n = (k - 1) * RowWidth + FirstColumn + column - 1
<1> DEFINE W == RowWidth
           c == FirstColumn + column - 1
           n == FieldIndex(k, column)
<1>1. W \in Nat \ {0} /\ c \in 0..(W - 1)
  BY ColumnInRow
<1>2. FirstColumn \in Int /\ column \in Int
  BY DEF FirstColumn
<1>3. n = IF (k - 1) * W + c < 0 THEN 0 ELSE (k - 1) * W + c
  <2>1. (k - 1) * W \in Int
    BY <1>1
  <2>2. (k - 1) * RowWidth + FirstColumn + column - 1 = (k - 1) * W + c
    BY <1>2, <2>1
  <2> QED BY <2>2 DEF FieldIndex
<1>4. (k - 1) * RowWidth + FirstColumn + column - 1 = (k - 1) * W + c
  BY <1>1, <1>2
<1> HIDE DEF W, c, n
<1>5. 1 * W <= r * W /\ 1 * W = W
  BY <1>1, ProductGrows
<1>6. CASE k = 0
  <2>1. (k - 1) * W = -W
    BY <1>1, <1>6
  <2>2. n = 0
    BY <1>1, <1>3, <2>1
  <2> QED BY <1>1, <1>5, <1>6, <2>2 DEF n, W
<1>7. CASE k > 0
  <2>1. (k - 1) * W \in Nat /\ k * W = (k - 1) * W + W
    BY <1>1, <1>7
  <2>2. k * W <= r * W
    BY <1>1, ProductGrows
  <2>3. n = (k - 1) * W + c
    BY <1>1, <1>3, <2>1
  <2>4. 0 <= n /\ n < r * W
    <3>1. r * W \in Int /\ k * W \in Int
      BY <1>1
    <3> QED BY <1>1, <2>1, <2>2, <2>3, <3>1
  <2> QED BY <1>4, <2>3, <2>4 DEF n, W
<1> QED BY <1>6, <1>7

\* What cubesql_cursor_field returns for a column of the current row.
LEMMA FieldFacts ==
    ASSUME TypeOK, Ordered, Reached, OnRow, NEW column \in 1..Columns
    PROVE  LET f == Field(current, column)
           IN  /\ f.row = current /\ f.column = column /\ f.buffer = BufferOf(current)
               /\ 0 <= f.n /\ f.n < RowsIn(f.buffer) * RowWidth
               /\ ~seekedBack => IsField(f)
<1> DEFINE i == BufferOf(current)
           base == IF NBuffer = 0 THEN 0 ELSE Before(i)
           f == Field(current, column)
<1>1. /\ NBuffer \in Nat /\ nrows \in Nat /\ current \in 1..nrows
      /\ \A j \in 1..NBuffer : /\ rowcount[j] \in Nat
                               /\ Before(j) \in Nat /\ Before(j) <= rowcount[j]
  BY BufferFacts, BoundsAssumption DEF OnRow, TypeOK
<1>2. /\ base \in Nat /\ base <= current
      /\ RowsIn(i) \in Nat \ {0} /\ current - base <= RowsIn(i)
      /\ RowInBuffer(current, i) = current - base
      /\ ~seekedBack => base < current
  <2>1. CASE NBuffer = 0
    <3>1. i = 1 /\ Before(i) = 0 /\ base = 0 /\ RowsIn(i) = nrows
      BY <2>1 DEF BufferOf, Before, RowsIn
    <3> QED BY <1>1, <3>1 DEF RowInBuffer
  <2>2. CASE NBuffer # 0
    <3>1. i = FindBuffer(current) /\ base = Before(i) /\ RowsIn(i) = rowcount[i] - Before(i)
      BY <2>2 DEF BufferOf, RowsIn
    <3>2. /\ i \in 1..NBuffer
          /\ Before(i) <= current /\ current <= rowcount[i] /\ Before(i) < rowcount[i]
          /\ (buffer = 1 \/ Before(buffer) < current => Before(i) < current)
      BY <1>1, <2>2, <3>1, BufferFound
    <3> HIDE DEF i, base
    <3> QED BY <1>1, <3>1, <3>2 DEF RowInBuffer, Reached
  <2> QED BY <2>1, <2>2
<1>3. /\ f.row = current /\ f.column = column /\ f.buffer = i
      /\ f.n = FieldIndex(current - base, column)
  BY <1>2 DEF Field
<1> DEFINE k == current - base
<1>4. k \in Nat /\ k <= RowsIn(i)
  BY <1>1, <1>2
<1>5. /\ 0 <= f.n /\ f.n < RowsIn(i) * RowWidth
      /\ k > 0 => f.n = (k - 1) * RowWidth + FirstColumn + column - 1
  BY <1>2, <1>3, <1>4, IndexInside
<1>6. ~seekedBack => IsField(f)
  <2> SUFFICES ASSUME ~seekedBack PROVE IsField(f)
    OBVIOUS
  <2>1. k > 0
    BY <1>1, <1>2
  <2>2. RowWidth \in Int /\ FirstColumn \in Int /\ column \in Int
    BY ColumnInRow DEF FirstColumn
  <2>3. base * RowWidth + (k - 1) * RowWidth = (current - 1) * RowWidth
    <3>1. base \in Int /\ k - 1 \in Int /\ base + (k - 1) = current - 1
      BY <1>1, <1>2
    <3> HIDE DEF base, k
    <3> QED BY <2>2, <3>1, ProductSplits
  <2>4. base * RowWidth + f.n = (current - 1) * RowWidth + FirstColumn + column - 1
    <3>1. /\ base * RowWidth \in Int /\ (k - 1) * RowWidth \in Int
          /\ (current - 1) * RowWidth \in Int
      BY <1>1, <1>2, <1>4, <2>2
    <3>2. f.n = (k - 1) * RowWidth + FirstColumn + column - 1
      BY <1>5, <2>1
    <3> HIDE DEF base, k, f
    <3> QED BY <2>2, <2>3, <3>1, <3>2
  <2>5. (IF NBuffer = 0 THEN 0 ELSE Before(f.buffer)) = base
    BY <1>3
  <2> HIDE DEF base, f
  <2> QED BY <1>3, <2>4, <2>5 DEF IsField
<1> QED BY <1>3, <1>5, <1>6

(***************************************************************************)
(* Steps.                                                                  *)
(***************************************************************************)
\* csql_read_cursor appends the end of a buffer, or ends with one packet.
LEMMA ReadPacketStep ==
    ASSUME CursorInv, NEW n \in 0..MaxRows, NEW partial \in BOOLEAN, ReadPacket(n, partial)
    PROVE  CursorInv'
<1>1. /\ phase = "reading" /\ nrows + n <= MaxRows /\ NBuffer < MaxChunks
      /\ nrows' = nrows + n
      /\ UNCHANGED <<hasRowid, buffer, nativeRow, current, err, read, seekedBack>>
  BY DEF ReadPacket, NBuffer
<1>2. /\ NBuffer \in Nat /\ nrows \in Nat /\ rowcount \in Seq(0..MaxRows)
      /\ read = {} /\ buffer = 1 /\ nativeRow = 1 /\ current = 0 /\ ~err /\ ~seekedBack
      /\ \A i \in 1..NBuffer : rowcount[i] \in Nat /\ rowcount[i] <= nrows
  BY <1>1, BufferFacts DEF CursorInv, TypeOK, Ordered
<1>3. nrows' \in 0..MaxRows /\ nrows' \in Nat /\ nrows <= nrows'
  BY <1>1, <1>2, BoundsAssumption
<1>4. CASE rowcount' = Append(rowcount, nrows') /\ phase' = phase
  <2>1. /\ rowcount' \in Seq(0..MaxRows) /\ NBuffer' = NBuffer + 1
        /\ \A i \in 1..NBuffer : rowcount'[i] = rowcount[i]
        /\ rowcount'[NBuffer + 1] = nrows'
    BY <1>2, <1>3, <1>4 DEF NBuffer
  <2>2. TypeOK'
    BY <1>1, <1>2, <1>3, <1>4, <2>1, BoundsAssumption DEF CursorInv, TypeOK
  <2>3. ASSUME NEW i \in 1..NBuffer', NEW j \in 1..NBuffer', i <= j
        PROVE  rowcount'[i] <= rowcount'[j]
    <3>1. CASE j = NBuffer + 1
      <4>1. i = NBuffer + 1 \/ i \in 1..NBuffer
        BY <1>2, <2>1, <2>3
      <4>2. rowcount'[j] = nrows' /\ nrows' \in Int /\ nrows \in Int
        BY <1>2, <1>3, <2>1, <3>1
      <4>3. CASE i = NBuffer + 1
        <5>1. rowcount'[i] = nrows'
          BY <2>1, <4>3
        <5> QED BY <4>2, <5>1
      <4>4. CASE i \in 1..NBuffer
        <5>1. rowcount'[i] = rowcount[i] /\ rowcount[i] \in Int /\ rowcount[i] <= nrows
          BY <1>2, <2>1, <4>4
        <5> QED BY <1>3, <4>2, <5>1
      <4> QED BY <4>1, <4>3, <4>4
    <3>2. CASE j # NBuffer + 1
      <4>1. i \in 1..NBuffer /\ j \in 1..NBuffer
        BY <1>2, <2>1, <2>3, <3>2
      <4> QED BY <2>1, <2>3, <4>1 DEF CursorInv, Ordered
    <3> QED BY <3>1, <3>2
  <2>4. Ordered'
    <3>1. \A i, j \in 1..NBuffer' : i <= j => rowcount'[i] <= rowcount'[j]
      BY <2>3
    <3>2. NBuffer' # 0 /\ rowcount'[NBuffer'] = nrows'
      BY <1>2, <2>1
    <3>3. phase' = "reading" /\ read' = {}
      BY <1>1, <1>2, <1>4
    <3>4. buffer' = 1 /\ nativeRow' = 1 /\ current' = 0 /\ ~err' /\ ~seekedBack'
      BY <1>1, <1>2
    <3> QED BY <3>1, <3>2, <3>3, <3>4 DEF Ordered
  <2>5. (Reached /\ PositionsAgree /\ InBounds /\ ForwardReadsAreTrue)'
    BY <1>1, <1>2, <1>4 DEF Reached, PositionsAgree, OnRow, InBounds, ForwardReadsAreTrue
  <2> QED BY <2>2, <2>4, <2>5 DEF CursorInv
<1>5. CASE rowcount = <<>> /\ rowcount' = rowcount /\ phase' = "open"
  <2>1. NBuffer = 0 /\ NBuffer' = 0
    BY <1>5 DEF NBuffer
  <2>2. TypeOK'
    BY <1>1, <1>2, <1>3, <1>5, <2>1, BoundsAssumption DEF CursorInv, TypeOK
  <2>3. Ordered'
    BY <1>1, <1>2, <1>5, <2>1 DEF Ordered
  <2>4. (Reached /\ PositionsAgree /\ InBounds /\ ForwardReadsAreTrue)'
    BY <1>1, <1>2, <1>5 DEF Reached, PositionsAgree, OnRow, InBounds, ForwardReadsAreTrue
  <2> QED BY <2>2, <2>3, <2>4 DEF CursorInv
<1> QED BY <1>4, <1>5 DEF ReadPacket

\* The end of the chunks, a failed read and the close of the Rows.
LEMMA PhaseStep ==
    ASSUME CursorInv, EndChunk \/ ReadFails \/ Close
    PROVE  CursorInv'
<1>1. /\ phase \in {"reading", "open"} /\ phase' \in {"open", "closed"}
      /\ phase' = "open" => phase = "reading"
      /\ UNCHANGED <<cursorVars, buffer, nativeRow, current, err, seekedBack>>
      /\ read' = {}
  BY DEF EndChunk, ReadFails, Close, CursorInv, Ordered
<1> USE DEF cursorVars
<1>2. TypeOK'
  BY <1>1 DEF CursorInv, TypeOK, NBuffer
<1>3. Ordered'
  BY <1>1 DEF CursorInv, Ordered, NBuffer
<1>4. (Reached /\ InBounds /\ ForwardReadsAreTrue)'
  BY <1>1 DEF CursorInv, Reached, Before, InBounds, ForwardReadsAreTrue
<1>5. PositionsAgree'
  BY <1>1 DEF CursorInv, Ordered, PositionsAgree, OnRow
<1> QED BY <1>2, <1>3, <1>4, <1>5 DEF CursorInv

\* A move to a row: cubesql_cursor_seek and the Go position.
LEMMA MovedStep ==
    ASSUME CursorInv, phase = "open", read' = {},
           UNCHANGED <<phase, cursorVars, buffer>>,
           err' \in BOOLEAN, seekedBack' \in BOOLEAN,
           nativeRow' \in 1..(MaxRows + 1), current' \in 0..MaxRows \union 1..MaxSeek,
           current' \in 1..nrows => nativeRow' = current',
           ~seekedBack' => ~seekedBack /\ current <= current'
    PROVE  CursorInv'
<1> USE DEF cursorVars
<1>1. /\ NBuffer \in Nat /\ nrows \in Nat /\ current \in Int /\ current' \in Int
      /\ \A i \in 1..NBuffer : Before(i) \in Nat
  BY BufferFacts, BoundsAssumption DEF CursorInv, TypeOK
<1>2. TypeOK'
  BY DEF CursorInv, TypeOK, NBuffer
<1>3. Ordered'
  BY DEF CursorInv, Ordered, NBuffer
<1>4. Reached'
  <2>1. buffer = 1 \/ buffer \in 1..NBuffer
    BY DEF CursorInv, TypeOK
  <2>2. Before(buffer)' = Before(buffer)
    BY DEF Before
  <2> QED BY <1>1, <2>1, <2>2 DEF CursorInv, Reached
<1>5. PositionsAgree'
  BY <1>1 DEF PositionsAgree, OnRow
<1>6. InBounds' /\ ForwardReadsAreTrue'
  BY DEF InBounds, ForwardReadsAreTrue
<1> QED BY <1>2, <1>3, <1>4, <1>5, <1>6 DEF CursorInv

\* The seek to a row of the result is understood by the C code, no command
\* is read into it.
LEMMA SeekIsExact ==
    ASSUME TypeOK, NEW row \in Nat, row > 0, row <= nrows
    PROVE  SeekIndex(row) = row
<1>1. row < IntLimit /\ row \notin {-2, -3, -4, -5}
  BY BoundsAssumption DEF TypeOK
<1>2. CInt(row) = row
  BY <1>1, CIntKeeps
<1> QED BY <1>1, <1>2 DEF SeekIndex

\* A seek that succeeds puts the native cursor on a row.
LEMMA SeekFacts ==
    ASSUME TypeOK, NEW row \in Nat, row > 0, SeekOk(row)
    PROVE  /\ SeekIndex(row) \in 1..(MaxRows + 1)
           /\ row <= nrows => SeekIndex(row) = row
<1>1. nrows \in 0..MaxRows /\ nativeRow \in Int /\ MaxRows \in Nat /\ IntLimit \in Nat \ {0}
  BY BoundsAssumption DEF TypeOK
<1>2. CInt(row) \in Int
  BY <1>1 DEF CInt
<1>3. SeekIndex(row) \in Int
  BY <1>1, <1>2 DEF SeekIndex
<1>4. SeekIndex(row) \in 1..(MaxRows + 1)
  BY <1>1, <1>3 DEF SeekOk
<1> QED BY <1>4, SeekIsExact

\* Next moves both positions to the next row, or leaves both.
LEMMA NextContextStep ==
    ASSUME CursorInv, NextContext
    PROVE  CursorInv'
<1>1. /\ phase = "open" /\ read' = {}
      /\ UNCHANGED <<phase, cursorVars, buffer, seekedBack>>
  BY DEF NextContext
<1>2. /\ TypeOK /\ PositionsAgree /\ seekedBack \in BOOLEAN /\ err \in BOOLEAN
      /\ nativeRow \in 1..(MaxRows + 1) /\ current \in 0..MaxRows \union 1..MaxSeek
      /\ current \in Nat /\ nrows \in 0..MaxRows /\ MaxRows \in Nat
  BY BoundsAssumption DEF CursorInv, TypeOK
<1>3. CASE err' = TRUE /\ UNCHANGED <<nativeRow, current>>
  BY <1>1, <1>2, <1>3, MovedStep DEF PositionsAgree, OnRow
<1>4. CASE /\ current < nrows /\ SeekOk(current + 1)
           /\ nativeRow' = SeekIndex(current + 1) /\ current' = current + 1 /\ err' = err
  <2>1. current + 1 \in Nat /\ current + 1 > 0 /\ current + 1 <= nrows
    BY <1>2, <1>4
  <2>2. nativeRow' \in 1..(MaxRows + 1) /\ nativeRow' = current'
    BY <1>2, <1>4, <2>1, SeekFacts
  <2>3. current' \in 0..MaxRows /\ current <= current'
    BY <1>2, <1>4, <2>1
  <2> QED BY <1>1, <1>2, <1>4, <2>2, <2>3, MovedStep
<1> QED BY <1>3, <1>4 DEF NextContext

\* Seek moves both positions to a row of the result, or leaves both.
LEMMA SeekContextStep ==
    ASSUME CursorInv, NEW row \in 1..MaxSeek, SeekContext(row)
    PROVE  CursorInv'
<1>1. /\ TypeOK /\ row \in Nat /\ row > 0 /\ current \in Int /\ seekedBack \in BOOLEAN
      /\ nrows \in Nat
  BY BoundsAssumption DEF CursorInv, TypeOK
<1>2. /\ phase = "open" /\ SeekOk(row) /\ nativeRow' = SeekIndex(row) /\ current' = row
      /\ seekedBack' = (seekedBack \/ row < current) /\ err' = FALSE /\ read' = {}
      /\ UNCHANGED <<phase, cursorVars, buffer>>
  BY DEF SeekContext
<1>3. /\ nativeRow' \in 1..(MaxRows + 1)
      /\ row <= nrows => nativeRow' = row
  BY <1>1, <1>2, SeekFacts
<1>4. ~seekedBack' => ~seekedBack /\ current <= current'
  <2>1. ~seekedBack' => ~seekedBack /\ ~(row < current)
    BY <1>2, Zenon
  <2> QED BY <1>1, <1>2, <2>1
<1>5. err' \in BOOLEAN /\ seekedBack' \in BOOLEAN /\ current' \in 1..MaxSeek
  BY <1>1, <1>2
<1> QED BY <1>1, <1>2, <1>3, <1>4, <1>5, MovedStep

\* Value and Scan: the fields are read where they are, and the buffer of the
\* row becomes the current one.
LEMMA CopyStep ==
    ASSUME CursorInv, NEW columns \in SUBSET (1..Columns), Copy(columns)
    PROVE  CursorInv'
<1>1. /\ OnRow /\ read' = {Field(current, column) : column \in columns}
      /\ buffer' = BufferOf(current)
      /\ UNCHANGED <<phase, cursorVars, nativeRow, current, err, seekedBack>>
  BY DEF Copy
<1> USE DEF cursorVars
<1>2. /\ TypeOK /\ Ordered /\ Reached /\ NBuffer \in Nat /\ nrows \in Nat
      /\ current \in 1..nrows
      /\ \A i \in 1..NBuffer : rowcount[i] \in Nat /\ Before(i) \in Nat
  BY <1>1, BufferFacts, BoundsAssumption DEF CursorInv, TypeOK, OnRow
<1>3. ASSUME NEW f \in read'
      PROVE  /\ f.row \in 1..nrows /\ f.column \in 1..Columns
             /\ 0 <= f.n /\ f.n < RowsIn(f.buffer) * RowWidth
             /\ ~seekedBack => IsField(f)
  <2>1. PICK column \in 1..Columns : f = Field(current, column)
    BY <1>1, <1>3
  <2> QED BY <1>1, <1>2, <2>1, FieldFacts
<1>4. /\ NBuffer = 0 => buffer' = 1
      /\ NBuffer # 0 => /\ buffer' \in 1..NBuffer
                        /\ Before(buffer') < rowcount[buffer']
                        /\ ~seekedBack => Before(buffer') < current
  <2>1. CASE NBuffer = 0
    BY <1>1, <2>1 DEF BufferOf
  <2>2. CASE NBuffer # 0
    <3>1. buffer' = FindBuffer(current)
      BY <1>1, <2>2 DEF BufferOf
    <3> QED BY <1>2, <2>2, <3>1, BufferFound DEF Reached
  <2> QED BY <2>1, <2>2
<1>5. TypeOK'
  BY <1>1, <1>2, <1>3, <1>4 DEF TypeOK, NBuffer
<1>6. Ordered'
  BY <1>1, <1>2 DEF Ordered, NBuffer, OnRow
<1>7. Reached'
  BY <1>1, <1>4 DEF Reached, Before, NBuffer
<1>8. PositionsAgree'
  BY <1>1 DEF CursorInv, PositionsAgree, OnRow
<1>9. InBounds'
  BY <1>1, <1>3 DEF InBounds, RowsIn, NBuffer, Before, RowWidth
<1>10. ForwardReadsAreTrue'
  BY <1>1, <1>3 DEF ForwardReadsAreTrue, IsField, NBuffer, Before, RowWidth, FirstColumn
<1> QED BY <1>5, <1>6, <1>7, <1>8, <1>9, <1>10 DEF CursorInv

\* A new query starts like the first.
LEMMA FreshCursor ==
    ASSUME phase = "reading", hasRowid \in BOOLEAN, nrows = 0, rowcount = <<>>, buffer = 1,
           nativeRow = 1, current = 0, err = FALSE, read = {}, seekedBack = FALSE
    PROVE  CursorInv
<1>1. NBuffer = 0
  BY DEF NBuffer
<1>2. TypeOK
  <2>1. /\ rowcount \in Seq(0..MaxRows) /\ NBuffer <= MaxChunks
        /\ nrows \in 0..MaxRows /\ nativeRow \in 1..(MaxRows + 1)
        /\ current \in 0..MaxRows
    BY <1>1, BoundsAssumption
  <2> QED BY <2>1 DEF TypeOK
<1>3. Ordered /\ Reached
  BY <1>1 DEF Ordered, Reached
<1>4. PositionsAgree /\ InBounds /\ ForwardReadsAreTrue
  BY DEF PositionsAgree, OnRow, InBounds, ForwardReadsAreTrue
<1> QED BY <1>2, <1>3, <1>4 DEF CursorInv

\* A new query starts from a state that satisfies the invariant.
LEMMA QueryStep ==
    ASSUME Query
    PROVE  CursorInv'
<1>1. NBuffer' = 0
  BY DEF Query, NBuffer
<1>2. TypeOK'
  <2>1. /\ rowcount' \in Seq(0..MaxRows) /\ NBuffer' <= MaxChunks
        /\ nrows' \in 0..MaxRows /\ nativeRow' \in 1..(MaxRows + 1)
        /\ current' \in 0..MaxRows
    BY <1>1, BoundsAssumption DEF Query
  <2> QED BY <2>1 DEF Query, TypeOK
<1>3. Ordered' /\ Reached'
  BY <1>1 DEF Query, Ordered, Reached
<1>4. PositionsAgree' /\ InBounds' /\ ForwardReadsAreTrue'
  BY DEF Query, PositionsAgree, OnRow, InBounds, ForwardReadsAreTrue
<1> QED BY <1>2, <1>3, <1>4 DEF CursorInv

(***************************************************************************)
(* Theorems.                                                               *)
(***************************************************************************)
\* Every method of a Rows and every packet preserves CursorInv.
LEMMA CursorStep ==
    ASSUME CursorInv, [Next]_vars
    PROVE  CursorInv'
<1>1. CASE \E n \in 0..MaxRows, partial \in BOOLEAN : ReadPacket(n, partial)
  BY <1>1, ReadPacketStep
<1>2. CASE EndChunk \/ ReadFails \/ Close
  BY <1>2, PhaseStep
<1>3. CASE NextContext
  BY <1>3, NextContextStep
<1>4. CASE Query
  BY <1>4, QueryStep
<1>5. CASE \E row \in 1..MaxSeek : SeekContext(row)
  BY <1>5, SeekContextStep
<1>6. CASE \E column \in 1..Columns : ValueContext(column)
  BY <1>6, CopyStep DEF ValueContext
<1>7. CASE \E last \in 2..Columns : ScanContext(last)
  <2>1. PICK last \in 2..Columns : Copy(1..last)
    BY <1>7 DEF ScanContext
  <2>2. 1..last \in SUBSET (1..Columns)
    BY <2>1, BoundsAssumption
  <2> QED BY <2>1, <2>2, CopyStep
<1>8. CASE UNCHANGED vars
  BY <1>8 DEF vars, cursorVars, CursorInv, TypeOK, Ordered, Reached, PositionsAgree, OnRow,
              InBounds, ForwardReadsAreTrue, IsField, RowsIn, NBuffer, Before, RowWidth,
              FirstColumn
<1> QED BY <1>1, <1>2, <1>3, <1>4, <1>5, <1>6, <1>7, <1>8 DEF Next

\* However a result is cut into packets, the buffers stay in order and the
\* positions stay together.
THEOREM CursorInvariant == Spec => []CursorInv
<1>1. Init => CursorInv
  BY FreshCursor DEF Init
<1>2. CursorInv /\ [Next]_vars => CursorInv'
  BY CursorStep
<1> QED BY <1>1, <1>2, PTL DEF Spec

\* The variables of Rows and of the native cursor keep their types; the
\* current buffer is always one that exists.
THEOREM CursorTypes == Spec => []TypeOK
  BY CursorInvariant, PTL DEF CursorInv

\* cubesql_cursor_field never reads outside the sizes of a buffer.
THEOREM FieldsAreInBounds == Spec => []InBounds
  BY CursorInvariant, PTL DEF CursorInv

\* Value and Scan return the fields of the current row for any number of
\* packets and rows, as long as no Seek goes back.
THEOREM ForwardIterationIsTrue == Spec => []ForwardReadsAreTrue
  BY CursorInvariant, PTL DEF CursorInv

\* The conversion to a C int and the commands of cubesql_cursor_seek never
\* part the Go position from the native one on a row of the result.
THEOREM GoAndNativePositionsAgree == Spec => []PositionsAgree
  BY CursorInvariant, PTL DEF CursorInv
=============================================================================
