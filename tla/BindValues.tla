----------------------------- MODULE BindValues -----------------------------
(***************************************************************************)
(* Parameters on their way into a statement and fields on their way out:   *)
(* the conversions of database/cubesql, package cubesql, internal/csdk,    *)
(* the shim and the SDK for one connection and its prepared statement.     *)
(*                                                                         *)
(* Go's int becomes a C int, which holds -IntLimit..IntLimit-1, and the    *)
(* index of a prepared bind becomes a field of the protocol that holds     *)
(* 0..IndexLimit-1 (2^31 and 2^16 in the code); the limits are parameters  *)
(* so that a small instance reaches them.  A TEXT or BLOB is represented   *)
(* by its length, a float64 by a number of units of which Grain make up    *)
(* the last decimal that printf's %f writes and Whole make up 1.0; the     *)
(* buffer that %f writes to holds BufDigits digits of the integer part.    *)
(* That the SDK reports an empty BLOB as NULL is documented by the         *)
(* repository.                                                             *)
(***************************************************************************)
EXTENDS Integers, FiniteSets

CONSTANTS
    IntLimit, IndexLimit, Grain, Whole, BufDigits,
    NParams, \* parameters of the statement
    Indexes, \* indexes passed to Stmt.Bind
    Lengths, \* lengths of TEXT and BLOB values and sizes of ZeroBlobs
    Floats   \* float64 values, in units

ASSUME BindAssumption ==
    /\ IntLimit \in Nat \ {0} /\ IndexLimit \in 1..IntLimit
    /\ Grain \in Nat \ {0} /\ Whole \in Nat \ {0} /\ Whole % Grain = 0
    /\ BufDigits \in Nat \ {0}
    /\ NParams \in 1..(IndexLimit - 1)
    /\ Indexes \subseteq Nat /\ Lengths \subseteq Nat /\ Floats \subseteq Nat

VARIABLES
    vm,    \* the server's prepared statement: its parameters, or NoVM
    want,  \* what the application has bound since Prepare or Reset
    wide,  \* an index beyond the protocol's width was bound and accepted
    row,   \* the row made by the last operation, or NoRow
    given, \* the values the application gave for that row
    path,  \* how they were bound
    reply  \* "ok", or why the last operation was refused

vars == <<vm, want, wide, row, given, path, reply>>

Params == 1..NParams
Value(type, n) == [type |-> type, n |-> n]
Null == Value("null", 0)
Values ==
    {Null, Value("int", 1), Value("bool", 1), Value("nan", 0), Value("other", 0)}
    \union {Value("float", u) : u \in Floats}
    \union {Value(type, n) : type \in {"text", "blob", "zeroblob"}, n \in Lengths}
NoVM == <<>>
NoRow == <<>>
Refused(why) == Value(why, 0)
IsRefused(v) == v.type \in {"badType", "invalid", "unsupported"}

(***************************************************************************)
(* Conversions.                                                            *)
(***************************************************************************)
\* C.int(n) for a Go int.
CInt(n) == ((n + IntLimit) % (2 * IntLimit)) - IntLimit

\* The index of a prepared bind in the request: htons of a C int.
WireIndex(i) == CInt(i) % IndexLimit

\* What "%f" makes of a double in a buffer of limited size: the last decimal
\* is rounded, and an integer part that is too long loses its last digits.
FormatF(u) ==
    LET rounded == ((u + Grain \div 2) \div Grain) * Grain
        whole == rounded \div Whole
        excess == CHOOSE k \in 0..whole :
                     /\ whole \div 10 ^ k < 10 ^ BufDigits
                     /\ \A j \in 0..(k - 1) : whole \div 10 ^ j >= 10 ^ BufDigits
    IN IF whole < 10 ^ BufDigits THEN rounded ELSE (whole \div 10 ^ excess) * Whole

\* checkNamedValue: bool becomes int64, other types are rejected.
CheckNamedValue(v) ==
    CASE v.type = "bool"  -> Value("int", v.n)
      [] v.type = "other" -> Refused("badType")
      [] OTHER            -> v

\* Fault: a negative length is not refused.
BytesUnchecked(type, n, least) == Value(type, CInt(n))

\* setBytes, bindBytes and the shim's length checks: the length becomes a C
\* int, and a negative one is refused.
Bytes(type, n, least) ==
    IF CInt(n) < least THEN Refused("invalid") ELSE Value(type, CInt(n))

\* Fault: a double is written with "%f" here as well.
SetOneShotF(v) ==
    CASE v.type = "float" -> Value("float", FormatF(v.n))
      [] v.type = "text" -> Bytes("text", v.n, 0)
      [] v.type = "blob" -> Bytes("blob", v.n, 1)
      [] v.type \in {"zeroblob", "nan"} -> Refused("unsupported")
      [] OTHER -> v

\* setOneShot: what one argument of cubesql_bind becomes.  A double is
\* written with 17 significant digits, which is exact.
SetOneShot(v) ==
    CASE v.type = "text" -> Bytes("text", v.n, 0)
      [] v.type = "blob" -> IF v.n = 0 THEN Refused("unsupported")
                            ELSE Bytes("blob", v.n, 1)
      [] v.type = "zeroblob" -> Refused("unsupported")
      [] v.type = "nan" -> Refused("invalid")
      [] OTHER -> v

\* setPrepared: what one bound value becomes.
SetPrepared(v) ==
    CASE v.type = "float" -> Value("float", FormatF(v.n))
      [] v.type = "text" -> Bytes("text", v.n, 0)
      [] v.type = "blob" -> IF v.n = 0 THEN Value("blob", 0)
                            ELSE Bytes("blob", v.n, 1)
      [] v.type = "zeroblob" -> Bytes("blob", v.n, 0)
      [] v.type = "nan" -> Refused("invalid")
      [] OTHER -> v

\* hasEmptyBlob.
HasEmptyBlob(args) == \E i \in Params : args[i] = Value("blob", 0)

\* The value the caller means.
Meaning(v) ==
    CASE v.type = "bool" -> Value("int", v.n)
      [] v.type = "zeroblob" -> Value("blob", v.n)
      [] OTHER -> v

Init ==
    /\ vm = NoVM /\ want = [i \in Params |-> Null] /\ wide = FALSE
    /\ row = NoRow /\ given = NoRow /\ path = "none" /\ reply = "none"

(***************************************************************************)
(* Operations.  The server rejects an index that is not a parameter's, and *)
(* a parameter that was never bound is NULL.                               *)
(***************************************************************************)
\* Every argument is converted before anything is executed; one that is
\* refused ends the operation.
Outcome(args, converted, how) ==
    IF \E i \in Params : IsRefused(converted[i])
    THEN /\ reply' \in {converted[i].type : i \in {j \in Params : IsRefused(converted[j])}}
         /\ row' = NoRow /\ given' = NoRow /\ path' = how
    ELSE /\ reply' = "ok" /\ row' = converted /\ given' = args /\ path' = how

\* conn.ExecContext of the adapter and of package cubesql, with arguments.
\* One empty BLOB makes all of them go through a temporary statement.
ExecContext(args) ==
    /\ vm = NoVM
    /\ LET checked == [i \in Params |-> CheckNamedValue(args[i])]
           convert(v) == IF IsRefused(v) THEN v
                         ELSE IF HasEmptyBlob(checked) THEN SetPrepared(v)
                         ELSE SetOneShot(v)
       IN Outcome(args, [i \in Params |-> convert(checked[i])],
                  IF HasEmptyBlob(checked) THEN "prepared" ELSE "oneShot")
    /\ UNCHANGED <<vm, want, wide>>

\* QueryContext with arguments always goes through a statement; the query is
\* one that returns its parameters.
QueryContext(args) ==
    /\ vm = NoVM
    /\ LET checked == [i \in Params |-> CheckNamedValue(args[i])]
           convert(v) == IF IsRefused(v) THEN v ELSE SetPrepared(v)
       IN Outcome(args, [i \in Params |-> convert(checked[i])], "prepared")
    /\ UNCHANGED <<vm, want, wide>>

NothingBound == [i \in Params |-> Null]
NoResult == row' = NoRow /\ given' = NoRow /\ path' = "none"

Prepare ==
    /\ vm = NoVM
    /\ vm' = NothingBound /\ want' = NothingBound /\ wide' = FALSE
    /\ NoResult /\ reply' = "ok"

\* Stmt.Bind.  The values of package cubesql have no bool.
Bind(i, v) ==
    /\ vm # NoVM /\ v.type # "bool"
    /\ NoResult
    /\ LET converted == IF v.type = "other" THEN Refused("invalid") ELSE SetPrepared(v)
           index == WireIndex(i)
       IN IF i <= 0 \/ IsRefused(converted)
          THEN reply' = "invalid" /\ UNCHANGED <<vm, want, wide>>
          ELSE IF index \notin Params
          THEN reply' = "server" /\ UNCHANGED <<vm, want, wide>>
          ELSE /\ reply' = "ok"
               /\ vm' = [vm EXCEPT ![index] = converted]
               /\ want' = IF i \in Params THEN [want EXCEPT ![i] = v] ELSE want
               /\ wide' = (wide \/ i >= IndexLimit)

\* Stmt.Exec; the parameters stay bound.
StmtExec ==
    /\ vm # NoVM
    /\ row' = vm /\ given' = want /\ path' = "prepared" /\ reply' = "ok"
    /\ UNCHANGED <<vm, want, wide>>

\* Fault: Reset keeps the old statement.
ResetKeepsBinds == vm

\* Stmt.Reset closes the statement and prepares its text again.
ResetBinds == NothingBound

StmtReset ==
    /\ vm # NoVM
    /\ vm' = ResetBinds /\ want' = NothingBound /\ wide' = FALSE
    /\ NoResult /\ reply' = "ok"

StmtClose ==
    /\ vm # NoVM
    /\ vm' = NoVM /\ want' = NothingBound /\ wide' = FALSE
    /\ NoResult /\ reply' = "ok"

Next ==
    \/ \E args \in [Params -> Values] : ExecContext(args) \/ QueryContext(args)
    \/ Prepare \/ StmtExec \/ StmtReset \/ StmtClose
    \/ \E i \in Indexes, v \in Values : Bind(i, v)

Spec == Init /\ [][Next]_vars

(***************************************************************************)
(* Reading a field back.                                                   *)
(***************************************************************************)
ColumnTypes == {"INTEGER", "FLOAT", "TEXT", "BLOB"}
ScanError == Value("scanError", 0)

\* cubesql_cursor_field and csqlgo_cursor_copy_field: an empty BLOB has the
\* representation of NULL.
Field(v) == IF v = Value("blob", 0) THEN Null ELSE v

\* Fault: NULL is not looked at before the type.
DriverValueNoNull(v, column) ==
    CASE column = "INTEGER" -> IF v.type = "int" THEN v ELSE ScanError
      [] column = "FLOAT" -> IF v.type = "float" THEN v
                             ELSE IF v.type = "int" THEN Value("float", v.n * Whole)
                             ELSE ScanError
      [] column = "BLOB" -> Value("blob", v.n)
      [] OTHER -> Value("text", v.n)

\* driverValue and valueInterface: the type is the column's, not the value's.
DriverValue(v, column) ==
    CASE v = Null -> Null
      [] v # Null /\ column = "INTEGER" -> IF v.type = "int" THEN v ELSE ScanError
      [] v # Null /\ column = "FLOAT" ->
           IF v.type = "float" THEN v
           ELSE IF v.type = "int" THEN Value("float", v.n * Whole)
           ELSE ScanError
      [] v # Null /\ column = "BLOB" -> Value("blob", v.n)
      [] OTHER -> Value("text", v.n)

\* The destinations of Rows.Scan, and the ones among them that take NULL.
NullDestinations == {"any", "bytes", "NullInt64", "NullFloat64", "NullString",
                     "NullBytes", "Value"}
Destinations == NullDestinations \union {"int64", "float64", "string"}

\* What a value that is not NULL becomes in a destination.
Converted(v, column, dest) ==
    CASE dest = "any" -> DriverValue(v, column)
      [] dest \in {"int64", "NullInt64"} -> DriverValue(v, "INTEGER")
      [] dest \in {"float64", "NullFloat64"} -> DriverValue(v, "FLOAT")
      [] dest \in {"string", "NullString"} -> DriverValue(v, "TEXT")
      [] dest \in {"bytes", "NullBytes"} -> DriverValue(v, "BLOB")
      [] dest = "Value" -> v

Scanned(new, old) ==
    [ok |-> new # ScanError, value |-> IF new = ScanError THEN old ELSE new]

\* Fault: NULL leaves a destination that cannot hold it as it was.
ScanValueKeepsOld(v, column, dest, old) ==
    IF v = Null /\ dest \notin NullDestinations
    THEN [ok |-> TRUE, value |-> old]
    ELSE Scanned(IF v = Null THEN Null ELSE Converted(v, column, dest), old)

\* scanValue, old being what the destination held before.
ScanValue(v, column, dest, old) ==
    Scanned(IF v # Null THEN Converted(v, column, dest)
            ELSE IF dest \in NullDestinations THEN Null ELSE ScanError,
            old)

(***************************************************************************)
(* Properties.                                                             *)
(***************************************************************************)
Stored == Values \union {Value("float", FormatF(u)) : u \in Floats}
          \union {Value(type, n) : type \in {"text", "blob"}, n \in 0..(IntLimit - 1)}

\* Every variable has its type.
TypeOK ==
    /\ vm = NoVM \/ vm \in [Params -> Stored]
    /\ want \in [Params -> Values] /\ wide \in BOOLEAN
    /\ row = NoRow \/ row \in [Params -> Stored]
    /\ given = NoRow \/ given \in [Params -> Values]
    /\ path \in {"none", "oneShot", "prepared"}
    /\ reply \in {"none", "ok", "server", "badType", "invalid", "unsupported"}

ServerTypes == {"null", "int", "float", "text", "blob"}

FitsInt(v) == v.type \in {"text", "blob", "zeroblob"} => v.n < IntLimit
FitsFormat(v) ==
    v.type = "float" => v.n % Grain = 0 /\ v.n \div Whole < 10 ^ BufDigits

\* cubesql_bind stores every argument exactly as given, floats included, as
\* long as lengths fit a C int; what it cannot carry is refused.
OneShotIsExact ==
    path = "oneShot" /\ row # NoRow /\ (\A i \in Params : FitsInt(given[i]))
        => \A i \in Params : row[i] = Meaning(given[i])

\* A prepared statement runs with exactly what was last bound to each
\* parameter since Prepare or Reset, NULL where nothing was, whatever binds
\* were refused or rejected in between: no bind is applied to a parameter
\* other than its own.  This holds as long as indexes fit the protocol,
\* lengths fit a C int and floats fit "%f".
PreparedIsExact ==
    path = "prepared" /\ row # NoRow /\ ~wide
    /\ (\A i \in Params : FitsInt(given[i]) /\ FitsFormat(given[i]))
        => \A i \in Params : row[i] = Meaning(given[i])

\* What is stored has one of the types of the server.
StoredTypes ==
    /\ vm # NoVM => \A i \in Params : vm[i].type \in ServerTypes
    /\ row # NoRow => \A i \in Params : row[i].type \in ServerTypes

\* The statement holds what was bound, wherever the C layer can carry it.
BoundIsWanted ==
    vm # NoVM /\ ~wide => \A i \in Params :
        FitsInt(want[i]) /\ FitsFormat(want[i]) => vm[i] = Meaning(want[i])

\* An inductive invariant: a row is made of the bindings of the statement, so
\* those are what the application asked for after every Bind, refused or not.
BindInv ==
    /\ TypeOK /\ StoredTypes /\ BoundIsWanted
    /\ OneShotIsExact /\ PreparedIsExact

\* What was stored is read back as it is, or refused by the scan: the one
\* exception is the empty BLOB, which reads as NULL.  Only then is NULL read
\* for something else.
ReadsAreTrue ==
    row # NoRow => \A i \in Params, column \in ColumnTypes :
        LET out == DriverValue(Field(row[i]), column) IN
          /\ out = Null <=> row[i] \in {Null, Value("blob", 0)}
          /\ out.type = row[i].type => out = row[i]
          /\ out.type = "float" /\ row[i].type = "int" => out.n = row[i].n * Whole

\* Rows.Scan into a variable that still holds the value of an earlier row: a
\* scan that succeeds leaves nothing of that value, one that fails leaves it
\* untouched, NULL is never taken for a value nor a value for NULL, and every
\* stored value but the empty BLOB has a destination that recovers it.
ScansAreTrue ==
    LET old == Value("old", 0) IN
    row # NoRow => \A i \in Params, column \in ColumnTypes :
        LET scan(dest) == ScanValue(Field(row[i]), column, dest, old)
            isNull == row[i] \in {Null, Value("blob", 0)}
        IN /\ \A dest \in Destinations :
                /\ scan(dest).ok <=> scan(dest).value # old
                /\ scan(dest).ok => (scan(dest).value = Null <=> isNull)
           /\ ~isNull => \E dest \in Destinations \ {"any", "Value"} :
                             scan(dest).ok /\ scan(dest).value = row[i]

\* A float64 reaches the statement with its value.
FloatsAreExact ==
    row # NoRow => \A i \in Params : given[i].type = "float" => row[i] = given[i]
=============================================================================
