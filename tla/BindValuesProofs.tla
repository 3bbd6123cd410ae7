-------------------------- MODULE BindValuesProofs --------------------------
(***************************************************************************)
(* Proofs about BindValues, for every width of the C layer, any number of  *)
(* parameters and any lengths, indexes and floats.                         *)
(***************************************************************************)
EXTENDS BindValues, TLAPS

(***************************************************************************)
(* The conversions.                                                        *)
(***************************************************************************)
\* A number that a C int holds is converted to itself, and every number to
\* one that a C int holds.
LEMMA CIntKeeps ==
    ASSUME NEW n \in Nat
    PROVE  /\ CInt(n) \in (-IntLimit)..(IntLimit - 1)
           /\ n < IntLimit => CInt(n) = n
<1>1. IntLimit \in Nat \ {0}
  BY BindAssumption
<1>2. ((n + IntLimit) % (2 * IntLimit)) \in 0..(2 * IntLimit - 1)
  BY <1>1
<1>3. n < IntLimit => ((n + IntLimit) % (2 * IntLimit)) = n + IntLimit
  <2>1. n < IntLimit => n + IntLimit \in 0..(2 * IntLimit - 1)
    BY <1>1
  <2> QED BY <1>1, <2>1
<1> QED BY <1>1, <1>2, <1>3 DEF CInt

\* An index that the protocol's field holds reaches the server as it is.
LEMMA WireIndexKeeps ==
    ASSUME NEW i \in Nat, i < IndexLimit
    PROVE  WireIndex(i) = i
<1>1. IndexLimit \in Nat \ {0} /\ i < IntLimit
  BY BindAssumption
<1>2. CInt(i) = i
  BY <1>1, CIntKeeps
<1> QED BY <1>1, <1>2 DEF WireIndex

\* A multiple of the last decimal that %f writes is not rounded.
LEMMA MultiplesKeep ==
    ASSUME NEW u \in Nat, u % Grain = 0
    PROVE  ((u + Grain \div 2) \div Grain) * Grain = u
<1> DEFINE q == u \div Grain
           h == Grain \div 2
<1>1. Grain \in Nat \ {0}
  BY BindAssumption
<1>2. q \in Nat /\ u = Grain * q
  BY <1>1
<1>3. h \in 0..(Grain - 1)
  BY <1>1
<1> HIDE DEF q, h
<1>4. (Grain * q + h) \div Grain = q
  <2>1. Grain * q + h >= Grain * q /\ Grain * q + h < Grain * (q + 1)
    BY <1>1, <1>2, <1>3
  <2> QED BY <1>1, <1>2, <1>3, <2>1
<1>5. (u + h) \div Grain = q
  BY <1>2, <1>4
<1>6. q * Grain = u
  BY <1>1, <1>2
<1> QED BY <1>5, <1>6 DEF h

\* A float that fits "%f" is written as it is.
LEMMA FormatKeeps ==
    ASSUME NEW u \in Floats, FitsFormat(Value("float", u))
    PROVE  FormatF(u) = u
<1>1. u \in Nat /\ u % Grain = 0 /\ u \div Whole < 10 ^ BufDigits
  BY BindAssumption DEF FitsFormat, Value
<1>2. ((u + Grain \div 2) \div Grain) * Grain = u
  BY <1>1, MultiplesKeep
<1> QED BY <1>1, <1>2 DEF FormatF

\* A value is its type and its number.
LEMMA ValueKinds ==
    ASSUME NEW v \in Values
    PROVE  \/ v = Value("null", 0) \/ v = Value("int", 1) \/ v = Value("bool", 1)
           \/ v = Value("nan", 0) \/ v = Value("other", 0)
           \/ \E u \in Floats : v = Value("float", u)
           \/ \E n \in Lengths : v = Value("text", n)
           \/ \E n \in Lengths : v = Value("blob", n)
           \/ \E n \in Lengths : v = Value("zeroblob", n)
  BY DEF Values, Null

\* The shim's length check lets a length through that a C int holds, and no
\* negative one.
LEMMA BytesFacts ==
    ASSUME NEW n \in Lengths, NEW type \in {"text", "blob"}, NEW least \in {0, 1}
    PROVE  LET b == Bytes(type, n, least) IN
             /\ \/ b = Refused("invalid")
                \/ b \in Stored /\ b.type = type /\ ~IsRefused(b)
             /\ ~IsRefused(b) /\ n < IntLimit => b = Value(type, n)
<1> DEFINE c == CInt(n)
<1>1. n \in Nat /\ IntLimit \in Nat
  BY BindAssumption
<1>2. c \in (-IntLimit)..(IntLimit - 1) /\ (n < IntLimit => c = n)
  BY <1>1, CIntKeeps
<1>3. Bytes(type, n, least) = IF c < least THEN Refused("invalid") ELSE Value(type, c)
  BY DEF Bytes
<1> HIDE DEF c
<1>4. CASE c < least
  <2>1. Bytes(type, n, least) = Refused("invalid") /\ IsRefused(Refused("invalid"))
    BY <1>3, <1>4 DEF Refused, IsRefused, Value
  <2> QED BY <2>1
<1>5. CASE ~(c < least)
  <2>1. Bytes(type, n, least) = Value(type, c) /\ c \in 0..(IntLimit - 1)
    BY <1>1, <1>2, <1>3, <1>5
  <2>2. Value(type, c) \in Stored /\ Value(type, c).type = type /\ ~IsRefused(Value(type, c))
    BY <2>1 DEF Stored, Value, IsRefused
  <2> QED BY <1>2, <2>1, <2>2
<1> QED BY <1>4, <1>5

\* What a conversion makes of a value: a refusal, or a value of the server
\* that is the one meant, wherever the C layer can carry it.
ConvertsTo(v, out, fits) ==
    \/ IsRefused(out) /\ out \in {Refused("badType"), Refused("invalid"), Refused("unsupported")}
    \/ /\ ~IsRefused(out) /\ out \in Stored /\ out.type \in ServerTypes
       /\ fits => out = Meaning(v)

\* setPrepared, behind checkNamedValue or Stmt.Bind.
LEMMA SetPreparedConverts ==
    ASSUME NEW v \in Values, v.type \notin {"bool", "other"}
    PROVE  ConvertsTo(v, SetPrepared(v), FitsInt(v) /\ FitsFormat(v))
<1> USE DEF ConvertsTo, SetPrepared, Meaning, IsRefused, Refused, ServerTypes
<1>1. CASE v \in {Value("null", 0), Value("int", 1)}
  <2>1. v \in Stored
    BY DEF Stored
  <2> QED BY <1>1, <2>1 DEF Value
<1>2. CASE v = Value("nan", 0)
  BY <1>2 DEF Value
<1>3. CASE \E u \in Floats : v = Value("float", u)
  <2>1. PICK u \in Floats : v = Value("float", u)
    BY <1>3
  <2>2. SetPrepared(v) = Value("float", FormatF(u))
    BY <2>1 DEF Value
  <2>3. FitsFormat(v) => FormatF(u) = u
    BY <2>1, FormatKeeps
  <2>4. Value("float", FormatF(u)) \in Stored
    BY DEF Stored
  <2> QED BY <2>1, <2>2, <2>3, <2>4 DEF Value
<1>4. CASE \E n \in Lengths : v = Value("text", n)
  <2>1. PICK n \in Lengths : v = Value("text", n)
    BY <1>4
  <2>2. SetPrepared(v) = Bytes("text", n, 0) /\ Meaning(v) = Value("text", n)
    BY <2>1 DEF Value
  <2>3. FitsInt(v) => n < IntLimit
    BY <2>1 DEF FitsInt, Value
  <2> HIDE DEF SetPrepared, Meaning
  <2> QED BY <2>2, <2>3, BytesFacts DEF Value
<1>5. CASE \E n \in Lengths : v = Value("blob", n)
  <2>1. PICK n \in Lengths : v = Value("blob", n)
    BY <1>5
  <2>2. /\ SetPrepared(v) = IF n = 0 THEN Value("blob", 0) ELSE Bytes("blob", n, 1)
        /\ Meaning(v) = Value("blob", n)
    BY <2>1 DEF Value
  <2>3. FitsInt(v) => n < IntLimit
    BY <2>1 DEF FitsInt, Value
  <2> HIDE DEF SetPrepared, Meaning
  <2>4. CASE n = 0
    <3>1. Value("blob", 0) \in Stored
      BY <2>1, <2>4 DEF Stored, Values
    <3> QED BY <2>2, <2>4, <3>1 DEF Value
  <2>5. CASE n # 0
    BY <2>2, <2>3, <2>5, BytesFacts DEF Value
  <2> QED BY <2>4, <2>5
<1>6. CASE \E n \in Lengths : v = Value("zeroblob", n)
  <2>1. PICK n \in Lengths : v = Value("zeroblob", n)
    BY <1>6
  <2>2. SetPrepared(v) = Bytes("blob", n, 0) /\ Meaning(v) = Value("blob", n)
    BY <2>1 DEF Value
  <2>3. FitsInt(v) => n < IntLimit
    BY <2>1 DEF FitsInt, Value
  <2> HIDE DEF SetPrepared, Meaning
  <2> QED BY <2>2, <2>3, BytesFacts DEF Value
<1>7. CASE v \in {Value("bool", 1), Value("other", 0)}
  BY <1>7 DEF Value
<1> QED BY <1>1, <1>2, <1>3, <1>4, <1>5, <1>6, <1>7, ValueKinds

\* setOneShot, behind checkNamedValue: floats are carried exactly.
LEMMA SetOneShotConverts ==
    ASSUME NEW v \in Values, v.type \notin {"bool", "other"}
    PROVE  ConvertsTo(v, SetOneShot(v), FitsInt(v))
<1> USE DEF ConvertsTo, SetOneShot, Meaning, IsRefused, Refused, ServerTypes
<1>1. CASE v \in {Value("null", 0), Value("int", 1)}
  <2>1. v \in Stored
    BY DEF Stored
  <2> QED BY <1>1, <2>1 DEF Value
<1>2. CASE v = Value("nan", 0) \/ \E n \in Lengths : v = Value("zeroblob", n)
  BY <1>2 DEF Value
<1>3. CASE \E u \in Floats : v = Value("float", u)
  BY <1>3 DEF Value, Stored, Values
<1>4. CASE \E n \in Lengths : v = Value("text", n)
  <2>1. PICK n \in Lengths : v = Value("text", n)
    BY <1>4
  <2>2. SetOneShot(v) = Bytes("text", n, 0) /\ Meaning(v) = Value("text", n)
    BY <2>1 DEF Value
  <2>3. FitsInt(v) => n < IntLimit
    BY <2>1 DEF FitsInt, Value
  <2> HIDE DEF SetOneShot, Meaning
  <2> QED BY <2>2, <2>3, BytesFacts DEF Value
<1>5. CASE \E n \in Lengths : v = Value("blob", n)
  <2>1. PICK n \in Lengths : v = Value("blob", n)
    BY <1>5
  <2>2. /\ SetOneShot(v) = IF n = 0 THEN Refused("unsupported") ELSE Bytes("blob", n, 1)
        /\ Meaning(v) = Value("blob", n)
    BY <2>1 DEF Value
  <2>3. FitsInt(v) => n < IntLimit
    BY <2>1 DEF FitsInt, Value
  <2> HIDE DEF SetOneShot, Meaning
  <2>4. CASE n = 0
    BY <2>2, <2>4 DEF Value
  <2>5. CASE n # 0
    BY <2>2, <2>3, <2>5, BytesFacts DEF Value
  <2> QED BY <2>4, <2>5
<1>6. CASE v \in {Value("bool", 1), Value("other", 0)}
  BY <1>6 DEF Value
<1> QED BY <1>1, <1>2, <1>3, <1>4, <1>5, <1>6, ValueKinds

\* checkNamedValue leaves neither bool nor a type it does not know, and what
\* it makes of a bool means the same.
LEMMA CheckNamedValueFacts ==
    ASSUME NEW v \in Values
    PROVE  LET c == CheckNamedValue(v) IN
             \/ IsRefused(c) /\ c = Refused("badType")
             \/ /\ ~IsRefused(c) /\ c \in Values /\ c.type \notin {"bool", "other"}
                /\ Meaning(c) = Meaning(v)
                /\ FitsInt(c) <=> FitsInt(v)
                /\ FitsFormat(c) <=> FitsFormat(v)
<1>1. CASE v = Value("bool", 1)
  BY <1>1 DEF CheckNamedValue, Value, IsRefused, Values, Meaning, FitsInt, FitsFormat
<1>2. CASE v = Value("other", 0)
  BY <1>2 DEF CheckNamedValue, Value, IsRefused, Refused
<1>3. CASE v.type \notin {"bool", "other"}
  <2>1. CheckNamedValue(v) = v
    BY <1>3 DEF CheckNamedValue
  <2>2. v.type \in {"null", "int", "nan", "float", "text", "blob", "zeroblob"}
    BY <1>3, ValueKinds DEF Value
  <2> QED BY <1>3, <2>1, <2>2 DEF IsRefused
<1> QED BY <1>1, <1>2, <1>3, ValueKinds DEF Value
(***************************************************************************)
(* The inductive invariant.                                                *)
(***************************************************************************)
\* A row made of arguments: all of them refused or every one converted.
LEMMA RowOfArguments ==
    ASSUME NEW args \in [Params -> Values], NEW converted, NEW how \in {"oneShot", "prepared"},
           Outcome(args, converted, how),
           converted = [i \in Params |-> converted[i]],
           \A i \in Params :
               ConvertsTo(args[i], converted[i],
                          FitsInt(args[i]) /\ (how = "prepared" => FitsFormat(args[i]))),
           BindInv, UNCHANGED <<vm, want, wide>>
    PROVE  BindInv'
<1>1. CASE \E i \in Params : IsRefused(converted[i])
  <2>1. /\ reply' \in {converted[i].type : i \in {j \in Params : IsRefused(converted[j])}}
        /\ row' = NoRow /\ given' = NoRow /\ path' = how
    BY <1>1 DEF Outcome
  <2>2. reply' \in {"badType", "invalid", "unsupported"}
    BY <2>1 DEF IsRefused
  <2>3. TypeOK'
    BY <2>1, <2>2 DEF BindInv, TypeOK
  <2> QED BY <2>1, <2>3 DEF BindInv, StoredTypes, BoundIsWanted, OneShotIsExact, PreparedIsExact
<1>2. CASE ~(\E i \in Params : IsRefused(converted[i]))
  <2>1. reply' = "ok" /\ row' = converted /\ given' = args /\ path' = how
    BY <1>2 DEF Outcome
  <2>2. \A i \in Params :
            /\ converted[i] \in Stored /\ converted[i].type \in ServerTypes
            /\ FitsInt(args[i]) /\ (how = "prepared" => FitsFormat(args[i]))
                   => converted[i] = Meaning(args[i])
    BY <1>2 DEF ConvertsTo
  <2>3. converted \in [Params -> Stored]
    <3>1. [i \in Params |-> converted[i]] \in [Params -> Stored]
      BY <2>2
    <3> QED BY <3>1
  <2>4. TypeOK'
    BY <2>1, <2>3 DEF BindInv, TypeOK
  <2>5. StoredTypes' /\ BoundIsWanted'
    BY <2>1, <2>2 DEF BindInv, StoredTypes, BoundIsWanted
  <2>6. OneShotIsExact'
    BY <2>1, <2>2 DEF OneShotIsExact
  <2>7. PreparedIsExact'
    BY <2>1, <2>2 DEF PreparedIsExact
  <2> QED BY <2>4, <2>5, <2>6, <2>7 DEF BindInv
<1> QED BY <1>1, <1>2

\* What CheckNamedValue lets through keeps its meaning on the way on.
LEMMA CheckedConverts ==
    ASSUME NEW v \in Values
    PROVE  LET c == CheckNamedValue(v) IN
             /\ ConvertsTo(v, IF IsRefused(c) THEN c ELSE SetOneShot(c), FitsInt(v))
             /\ ConvertsTo(v, IF IsRefused(c) THEN c ELSE SetPrepared(c),
                           FitsInt(v) /\ FitsFormat(v))
<1>1. CASE IsRefused(CheckNamedValue(v))
  BY <1>1, CheckNamedValueFacts DEF ConvertsTo
<1>2. CASE ~IsRefused(CheckNamedValue(v))
  <2>1. PICK c \in Values : c = CheckNamedValue(v)
    BY <1>2, CheckNamedValueFacts
  <2>2. /\ ~IsRefused(c) /\ c.type \notin {"bool", "other"} /\ Meaning(c) = Meaning(v)
        /\ FitsInt(c) <=> FitsInt(v)
        /\ FitsFormat(c) <=> FitsFormat(v)
    BY <1>2, <2>1, CheckNamedValueFacts
  <2>3. ConvertsTo(c, SetOneShot(c), FitsInt(c))
    BY <2>2, SetOneShotConverts
  <2>4. ConvertsTo(c, SetPrepared(c), FitsInt(c) /\ FitsFormat(c))
    BY <2>2, SetPreparedConverts
  <2> QED BY <2>1, <2>2, <2>3, <2>4 DEF ConvertsTo
<1> QED BY <1>1, <1>2

\* conn.ExecContext with arguments, on either path.
LEMMA ExecContextStep ==
    ASSUME NEW args \in [Params -> Values], ExecContext(args), BindInv
    PROVE  BindInv'
<1> DEFINE checked == [i \in Params |-> CheckNamedValue(args[i])]
           one == [i \in Params |-> IF IsRefused(checked[i]) THEN checked[i]
                                    ELSE SetOneShot(checked[i])]
           prep == [i \in Params |-> IF IsRefused(checked[i]) THEN checked[i]
                                     ELSE SetPrepared(checked[i])]
<1>1. UNCHANGED <<vm, want, wide>>
  BY DEF ExecContext
<1>2. CASE HasEmptyBlob(checked)
  <2>1. Outcome(args, prep, "prepared")
    BY <1>2 DEF ExecContext
  <2>2. \A i \in Params : ConvertsTo(args[i], prep[i], FitsInt(args[i]) /\ FitsFormat(args[i]))
    BY CheckedConverts
  <2>3. prep = [i \in Params |-> prep[i]]
    OBVIOUS
  <2> HIDE DEF prep
  <2> QED BY <1>1, <2>1, <2>2, <2>3, RowOfArguments DEF ConvertsTo
<1>3. CASE ~HasEmptyBlob(checked)
  <2>1. Outcome(args, one, "oneShot")
    BY <1>3 DEF ExecContext
  <2>2. \A i \in Params : ConvertsTo(args[i], one[i], FitsInt(args[i]))
    BY CheckedConverts
  <2>3. one = [i \in Params |-> one[i]]
    OBVIOUS
  <2> HIDE DEF one
  <2> QED BY <1>1, <2>1, <2>2, <2>3, RowOfArguments DEF ConvertsTo
<1> QED BY <1>2, <1>3

\* conn.QueryContext with arguments.
LEMMA QueryContextStep ==
    ASSUME NEW args \in [Params -> Values], QueryContext(args), BindInv
    PROVE  BindInv'
<1> DEFINE checked == [i \in Params |-> CheckNamedValue(args[i])]
           prep == [i \in Params |-> IF IsRefused(checked[i]) THEN checked[i]
                                     ELSE SetPrepared(checked[i])]
<1>1. UNCHANGED <<vm, want, wide>> /\ Outcome(args, prep, "prepared")
  BY DEF QueryContext
<1>2. \A i \in Params : ConvertsTo(args[i], prep[i], FitsInt(args[i]) /\ FitsFormat(args[i]))
  BY CheckedConverts
<1>3. prep = [i \in Params |-> prep[i]]
  OBVIOUS
<1> HIDE DEF prep
<1> QED BY <1>1, <1>2, <1>3, RowOfArguments DEF ConvertsTo

\* Prepare and Reset: every parameter is NULL.
LEMMA UnboundStep ==
    ASSUME BindInv, vm' \in {NoVM, NothingBound}, want' = NothingBound, wide' = FALSE,
           NoResult, reply' = "ok"
    PROVE  BindInv'
<1>1. Null \in Stored /\ Null \in Values
  BY DEF Stored, Values
<1>2. NothingBound \in [Params -> Stored] /\ NothingBound \in [Params -> Values]
  BY <1>1 DEF NothingBound
<1>3. \A i \in Params : NothingBound[i] = Null /\ Null.type \in ServerTypes /\ Meaning(Null) = Null
  BY DEF NothingBound, Null, Value, ServerTypes, Meaning
<1>4. TypeOK'
  BY <1>2 DEF NoResult, TypeOK
<1>5. StoredTypes' /\ BoundIsWanted'
  BY <1>3 DEF NoResult, StoredTypes, BoundIsWanted
<1> QED BY <1>4, <1>5 DEF BindInv, NoResult, OneShotIsExact, PreparedIsExact

\* Stmt.Exec: the row is what is bound.
LEMMA StmtExecStep ==
    ASSUME BindInv, StmtExec
    PROVE  BindInv'
<1> USE DEF BindInv, StmtExec
<1>1. TypeOK'
  BY DEF TypeOK
<1>2. StoredTypes' /\ BoundIsWanted'
  BY DEF StoredTypes, BoundIsWanted
<1>3. OneShotIsExact'
  BY DEF OneShotIsExact
<1>4. PreparedIsExact'
  BY DEF BoundIsWanted, PreparedIsExact
<1> QED BY <1>1, <1>2, <1>3, <1>4

\* Stmt.Bind: an index that the protocol holds binds its own parameter or
\* none.
LEMMA BindStep ==
    ASSUME NEW i \in Indexes, NEW v \in Values, Bind(i, v), BindInv
    PROVE  BindInv'
<1> DEFINE converted == IF v.type = "other" THEN Refused("invalid") ELSE SetPrepared(v)
           index == WireIndex(i)
<1>1. vm # NoVM /\ v.type # "bool" /\ NoResult /\ i \in Nat
  BY BindAssumption DEF Bind
<1>2. CASE UNCHANGED <<vm, want, wide>>
  <2>1. reply' \in {"invalid", "server", "ok"}
    BY DEF Bind
  <2>2. TypeOK'
    BY <1>1, <1>2, <2>1 DEF BindInv, NoResult, TypeOK
  <2> QED BY <1>1, <1>2, <2>2 DEF BindInv, NoResult, StoredTypes, BoundIsWanted, OneShotIsExact, PreparedIsExact
<1>3. CASE ~(UNCHANGED <<vm, want, wide>>)
  <2>1. /\ ~(i <= 0) /\ ~IsRefused(converted) /\ index \in Params
        /\ reply' = "ok" /\ vm' = [vm EXCEPT ![index] = converted]
        /\ want' = IF i \in Params THEN [want EXCEPT ![i] = v] ELSE want
        /\ wide' = (wide \/ i >= IndexLimit)
    BY <1>3 DEF Bind
  <2>2. v.type # "other"
    BY <2>1 DEF Refused, IsRefused, Value
  <2>3. ConvertsTo(v, converted, FitsInt(v) /\ FitsFormat(v)) /\ converted = SetPrepared(v)
    BY <1>1, <2>2, SetPreparedConverts
  <2> HIDE DEF converted
  <2>4. /\ converted \in Stored /\ converted.type \in ServerTypes
        /\ FitsInt(v) /\ FitsFormat(v) => converted = Meaning(v)
    BY <2>1, <2>3 DEF ConvertsTo
  <2>5. i < IndexLimit => index = i
    BY <1>1, WireIndexKeeps
  <2> HIDE DEF index
  <2>6. vm \in [Params -> Stored] /\ want \in [Params -> Values]
    BY <1>1 DEF BindInv, TypeOK
  <2>7. wide' \in BOOLEAN
    BY <2>1
  <2>8. TypeOK'
    BY <1>1, <2>1, <2>4, <2>6, <2>7 DEF NoResult, TypeOK
  <2>9. StoredTypes'
    BY <1>1, <2>1, <2>4, <2>6 DEF BindInv, NoResult, StoredTypes
  <2>10. BoundIsWanted'
    <3> SUFFICES ASSUME ~wide', NEW j \in Params, FitsInt(want'[j]), FitsFormat(want'[j])
                 PROVE  vm'[j] = Meaning(want'[j])
      BY DEF BoundIsWanted
    <3>1. ~wide /\ ~(i >= IndexLimit)
      BY <2>1
    <3>2. i < IndexLimit
      BY <1>1, <3>1, BindAssumption
    <3>3. index = i /\ i \in Params
      BY <2>1, <2>5, <3>2
    <3>4. want' = [want EXCEPT ![i] = v] /\ vm' = [vm EXCEPT ![i] = converted]
      BY <2>1, <3>3
    <3>5. CASE j = i
      BY <2>4, <2>6, <3>3, <3>4, <3>5
    <3>6. CASE j # i
      <4>1. want'[j] = want[j] /\ vm'[j] = vm[j]
        BY <2>6, <3>4, <3>6
      <4> QED BY <1>1, <3>1, <4>1 DEF BindInv, BoundIsWanted
    <3> QED BY <3>5, <3>6
  <2> QED BY <1>1, <2>8, <2>9, <2>10 DEF BindInv, NoResult, OneShotIsExact, PreparedIsExact
<1> QED BY <1>2, <1>3

\* No conversion and no order of Prepare, Bind, Exec, Reset and Close leaves
\* BindInv.
LEMMA BindValuesStep == BindInv /\ [Next]_vars => BindInv'
<1> SUFFICES ASSUME BindInv, [Next]_vars
             PROVE  BindInv'
  OBVIOUS
<1>1. ASSUME NEW args \in [Params -> Values], ExecContext(args) PROVE BindInv'
  BY <1>1, ExecContextStep
<1>2. ASSUME NEW args \in [Params -> Values], QueryContext(args) PROVE BindInv'
  BY <1>2, QueryContextStep
<1>3. CASE Prepare \/ StmtReset \/ StmtClose
  <2>1. /\ vm' \in {NoVM, NothingBound} /\ want' = NothingBound /\ wide' = FALSE
        /\ NoResult /\ reply' = "ok"
    BY <1>3 DEF Prepare, StmtReset, StmtClose, ResetBinds
  <2> QED BY <2>1, UnboundStep
<1>4. CASE StmtExec
  BY <1>4, StmtExecStep
<1>5. ASSUME NEW i \in Indexes, NEW v \in Values, Bind(i, v) PROVE BindInv'
  BY <1>5, BindStep
<1>6. CASE UNCHANGED vars
  BY <1>6 DEF vars, BindInv, TypeOK, StoredTypes, BoundIsWanted, OneShotIsExact, PreparedIsExact
<1> QED BY <1>1, <1>2, <1>3, <1>4, <1>5, <1>6 DEF Next

(***************************************************************************)
(* Theorems.                                                               *)
(***************************************************************************)
\* Whatever is bound, executed and reset, the server's statement holds what
\* the application asked for.
THEOREM BindInvariant == Spec => []BindInv
<1>1. Init => BindInv
  <2> SUFFICES ASSUME Init
               PROVE  BindInv
    OBVIOUS
  <2>1. Null \in Values
    BY DEF Values
  <2>2. TypeOK
    BY <2>1 DEF Init, TypeOK
  <2> QED BY <2>2 DEF Init, BindInv, StoredTypes, BoundIsWanted, OneShotIsExact, PreparedIsExact
<1> QED BY <1>1, BindValuesStep, PTL DEF Spec

\* The statement, the arguments and the rows keep their types: no length is
\* negative on the server.
THEOREM BindTypes == Spec => []TypeOK
<1>1. BindInv => TypeOK
  BY DEF BindInv
<1> QED BY <1>1, BindInvariant, PTL

\* cubesql_bind stores every argument exactly as given, for every width of
\* the C int.
THEOREM OneShotBindsAreExact == Spec => []OneShotIsExact
<1>1. BindInv => OneShotIsExact
  BY DEF BindInv
<1> QED BY <1>1, BindInvariant, PTL

\* A prepared statement runs with exactly what was last bound since Prepare
\* or Reset, for every width of the C int and of the protocol's index.
THEOREM PreparedBindsAreExact == Spec => []PreparedIsExact
<1>1. BindInv => PreparedIsExact
  BY DEF BindInv
<1> QED BY <1>1, BindInvariant, PTL

\* The values of a row, as StoredTypes and TypeOK leave them.
LEMMA StoredKinds ==
    ASSUME NEW v \in Stored, v.type \in ServerTypes
    PROVE  \/ v = Null \/ v = Value("int", 1)
           \/ \E n : v = Value("float", n)
           \/ \E n : v = Value("text", n)
           \/ \E n : v = Value("blob", n)
<1>1. CASE v \in Values
  BY <1>1, ValueKinds DEF ServerTypes, Value, Null
<1>2. CASE v \notin Values
  BY <1>2 DEF Stored
<1> QED BY <1>1, <1>2

\* driverValue and valueInterface on what cubesql_cursor_field returns.
LEMMA FieldReads ==
    ASSUME NEW v \in Stored, v.type \in ServerTypes, NEW column \in ColumnTypes
    PROVE  LET out == DriverValue(Field(v), column) IN
             /\ out = Null <=> v \in {Null, Value("blob", 0)}
             /\ out.type = v.type => out = v
             /\ out.type = "float" /\ v.type = "int" => out.n = v.n * Whole
<1>1. CASE v \in {Null, Value("blob", 0)}
  BY <1>1 DEF DriverValue, Field, Null, Value
<1>2. CASE v = Value("int", 1)
  BY <1>2 DEF DriverValue, Field, Null, Value, ScanError
<1>3. CASE v \notin {Null, Value("blob", 0), Value("int", 1)}
  <2>1. PICK type, n : type \in {"float", "text", "blob"} /\ v = Value(type, n)
    BY <1>3, StoredKinds
  <2>2. Field(v) = v /\ v # Null
    BY <1>3 DEF Field
  <2> QED BY <1>3, <2>1, <2>2 DEF DriverValue, Null, Value, ScanError, ColumnTypes
<1> QED BY <1>1, <1>2, <1>3

\* Value of Rows: what is stored is read back or refused, and NULL stands for
\* NULL and the empty BLOB only.
THEOREM FieldsReadBack == Spec => []ReadsAreTrue
<1>1. BindInv => ReadsAreTrue
  <2> SUFFICES ASSUME BindInv, row # NoRow, NEW i \in Params, NEW column \in ColumnTypes
               PROVE  LET out == DriverValue(Field(row[i]), column) IN
                        /\ out = Null <=> row[i] \in {Null, Value("blob", 0)}
                        /\ out.type = row[i].type => out = row[i]
                        /\ out.type = "float" /\ row[i].type = "int" => out.n = row[i].n * Whole
    BY DEF ReadsAreTrue
  <2>1. row[i] \in Stored /\ row[i].type \in ServerTypes
    BY DEF BindInv, TypeOK, StoredTypes
  <2> QED BY <2>1, FieldReads
<1> QED BY <1>1, BindInvariant, PTL

\* What Converted makes of a value that is not NULL: neither NULL nor
\* something the destination held before.
LEMMA ConvertedFacts ==
    ASSUME NEW v \in Stored, v.type \in ServerTypes, v # Null,
           NEW column \in ColumnTypes, NEW dest \in Destinations
    PROVE  /\ Converted(v, column, dest) # Null
           /\ Converted(v, column, dest) # Value("old", 0)
<1> DEFINE out == Converted(v, column, dest)
<1>1. PICK type, n : type \in {"int", "float", "text", "blob"} /\ v = Value(type, n)
  BY StoredKinds
<1>2. out = v \/ \E c \in ColumnTypes : out = DriverValue(v, c)
  BY DEF Converted, ColumnTypes, Destinations, NullDestinations
<1>3. \A c \in ColumnTypes :
          DriverValue(v, c).type \in {"int", "float", "text", "blob", "scanError"}
  BY <1>1 DEF DriverValue, ColumnTypes, Null, Value, ScanError
<1>4. out.type \in {"int", "float", "text", "blob", "scanError"}
  BY <1>1, <1>2, <1>3 DEF Value
<1> QED BY <1>4 DEF Null, Value

\* A scan fails on ScanError only, and leaves the destination then.
LEMMA ScannedFacts ==
    ASSUME NEW new, NEW old
    PROVE  /\ Scanned(new, old).ok <=> new # ScanError
           /\ new # ScanError => Scanned(new, old).value = new
           /\ new = ScanError => Scanned(new, old).value = old
<1>1. /\ new # ScanError => Scanned(new, old).value = new
      /\ new = ScanError => Scanned(new, old).value = old
  BY DEF Scanned
<1>2. Scanned(new, old).ok <=> new # ScanError
  BY Zenon DEF Scanned
<1> QED BY <1>1, <1>2

\* Rows.Scan of one field into one destination.
LEMMA ScanFacts ==
    ASSUME NEW v \in Stored, v.type \in ServerTypes, NEW column \in ColumnTypes,
           NEW dest \in Destinations
    PROVE  LET s == ScanValue(Field(v), column, dest, Value("old", 0)) IN
             /\ s.ok <=> s.value # Value("old", 0)
             /\ s.ok => (s.value = Null <=> v \in {Null, Value("blob", 0)})
<1>1. Null # ScanError /\ Null # Value("old", 0) /\ ScanError # Value("old", 0)
  BY DEF Null, Value, ScanError
<1>2. CASE v \in {Null, Value("blob", 0)}
  <2>1. Field(v) = Null
    BY <1>2 DEF Field
  <2>2. PICK c \in {Null, ScanError} :
            ScanValue(Field(v), column, dest, Value("old", 0)) = Scanned(c, Value("old", 0))
    BY <2>1 DEF ScanValue
  <2> QED BY <1>1, <1>2, <2>2, ScannedFacts
<1>3. CASE v \notin {Null, Value("blob", 0)}
  <2>1. Field(v) = v /\ v # Null
    BY <1>3 DEF Field
  <2>2. PICK c : c = Converted(v, column, dest)
    OBVIOUS
  <2>3. c # Null /\ c # Value("old", 0)
    BY <2>1, <2>2, ConvertedFacts
  <2>4. ScanValue(Field(v), column, dest, Value("old", 0)) = Scanned(c, Value("old", 0))
    BY <2>1, <2>2 DEF ScanValue
  <2> QED BY <1>3, <2>3, <2>4, ScannedFacts
<1> QED BY <1>2, <1>3

\* The destination that recovers a value.
LEMMA ScanRecovers ==
    ASSUME NEW v \in Stored, v.type \in ServerTypes, v \notin {Null, Value("blob", 0)},
           NEW column \in ColumnTypes
    PROVE  \E dest \in Destinations \ {"any", "Value"} :
               LET s == ScanValue(Field(v), column, dest, Value("old", 0)) IN
                 s.ok /\ s.value = v
<1> DEFINE dest == CASE v.type = "int" -> "int64" [] v.type = "float" -> "float64"
                     [] v.type = "text" -> "string" [] OTHER -> "bytes"
<1>1. PICK type, n : type \in {"int", "float", "text", "blob"} /\ v = Value(type, n)
  BY StoredKinds
<1>2. dest \in {"int64", "float64", "string", "bytes"}
  OBVIOUS
<1>3. dest \in Destinations \ {"any", "Value"}
  BY <1>2 DEF Destinations, NullDestinations
<1>4. Field(v) = v /\ v # Null /\ v # ScanError
  BY <1>1 DEF Field, Value, ScanError
<1>5. Converted(v, column, dest) = v
  BY <1>1, <1>4 DEF Converted, DriverValue, Value
<1>6. ScanValue(Field(v), column, dest, Value("old", 0)) = Scanned(v, Value("old", 0))
  BY <1>4, <1>5 DEF ScanValue
<1>7. LET s == ScanValue(Field(v), column, dest, Value("old", 0)) IN s.ok /\ s.value = v
  BY <1>4, <1>6, ScannedFacts
<1> QED BY <1>3, <1>7

\* Rows.Scan: nothing of an earlier row survives a scan that succeeds, and
\* every stored value but the empty BLOB can be scanned as it is.
THEOREM ScansReplace == Spec => []ScansAreTrue
<1>1. BindInv => ScansAreTrue
  <2> SUFFICES ASSUME BindInv, row # NoRow, NEW i \in Params, NEW column \in ColumnTypes
               PROVE  LET old == Value("old", 0)
                          scan(dest) == ScanValue(Field(row[i]), column, dest, old)
                          isNull == row[i] \in {Null, Value("blob", 0)}
                      IN /\ \A dest \in Destinations :
                              /\ scan(dest).ok <=> scan(dest).value # old
                              /\ scan(dest).ok => (scan(dest).value = Null <=> isNull)
                         /\ ~isNull => \E dest \in Destinations \ {"any", "Value"} :
                                           scan(dest).ok /\ scan(dest).value = row[i]
    BY DEF ScansAreTrue
  <2>1. row[i] \in Stored /\ row[i].type \in ServerTypes
    BY DEF BindInv, TypeOK, StoredTypes
  <2>2. PICK v \in Stored : v = row[i]
    BY <2>1
  <2> QED BY <2>1, <2>2, ScanFacts, ScanRecovers
<1> QED BY <1>1, BindInvariant, PTL
=============================================================================
