----------------------------- MODULE Coercion -----------------------------
(***************************************************************************)
(* The conversion of one value to the type a schema declares:              *)
(* internal/uir/compat.go and coerceValue with its helpers in              *)
(* internal/uir/project.go.                                                *)
(*                                                                         *)
(* A value is [go, n]: its Go type and a number.  Integers and booleans    *)
(* count units, floats and the decimal texts ("text") count halves, so     *)
(* that a fraction exists.  "word" is any other text, with n = 1 when it   *)
(* is well-formed base64 or hex.  "nonfinite" floats are -Inf, NaN, +Inf.  *)
(* Widths are constants; exponents are not limited.  Go leaves the         *)
(* conversion of a float outside the range of an integer type to the       *)
(* machine: it is a set of outcomes here, and so is every result that      *)
(* depends on it.                                                          *)
(***************************************************************************)
EXTENDS Digits

CONSTANTS
    W32, W64,   \* bits of the integers
    M32, M64    \* bits of the significands of float32 and float64

ASSUME WidthAssumption ==
    /\ {W32, W64, M32, M64} \subseteq Nat
    /\ 1 < M32 /\ M32 < W32 /\ W32 <= M64 /\ M64 < W64

(* The types of internal/uir/types.go that hold one value. *)
Signed32 == {"Int32", "SInt32", "SFixed32"}
Signed64 == {"Int64", "SInt64", "SFixed64"}
Unsigned32 == {"UInt32", "Fixed32"}
Unsigned64 == {"UInt64", "Fixed64"}
IsInteger == Signed32 \cup Signed64 \cup Unsigned32 \cup Unsigned64
IsFloat == {"Float32", "Float64"}
IsLogical == {"Timestamp", "Date", "Time", "Duration", "Decimal"}
Texts == {"String", "Enum"} \cup IsLogical
ScalarTypes == IsInteger \cup IsFloat \cup Texts \cup {"Boolean", "Bytes", "Null"}

(* The Go types of a string's contents. *)
GoText == {"text", "word", "truth"}

NonFinite == {"nonfinite32", "nonfinite64"}

(* The Go type that carries a value of type t. *)
GoOf(t) ==
    CASE t \in Signed32 -> {"int32"}     [] t \in Signed64 -> {"int64"}
      [] t \in Unsigned32 -> {"uint32"}  [] t \in Unsigned64 -> {"uint64"}
      [] t = "Float32" -> {"float32", "nonfinite32"}
      [] t = "Float64" -> {"float64", "nonfinite64"}
      [] t = "Boolean" -> {"bool"}       [] t = "Bytes" -> {"bytes"}
      [] t \in Texts -> GoText           [] OTHER -> {"nil"}

(* Kinds of conversions, in the order of ConversionKind. *)
Lossless == 0
SafeCoerce == 1
Lossy == 2
Unsupported == 3

MergeKind(a, b) == IF b > a THEN b ELSE a

----------------------------------------------------------------------------
(* compat.go *)

Width(t) == IF t \in Signed32 \cup Unsigned32 THEN 32 ELSE 64
IsUnsigned(t) == t \in Unsigned32 \cup Unsigned64

Entry(a, l, s) == [allowed |-> a, lossless |-> l, safe |-> s]

CompatTable == {<<"Int32", "Int64">>, <<"Int32", "Float64">>,
                <<"Boolean", "Int32">>, <<"Boolean", "Int64">>}

(* The defect: a change of signedness counts as widening. *)
WidensAnySign(src, dst) == Width(dst) >= Width(src)

Widens(src, dst) == Width(dst) >= Width(src) /\ IsUnsigned(src) = IsUnsigned(dst)

LookupCompat(src, dst) ==
    IF src = dst \/ <<src, dst>> \in CompatTable THEN Entry(TRUE, TRUE, TRUE)
    ELSE
    CASE src \in IsInteger /\ dst \in IsInteger ->
             Entry(TRUE, Widens(src, dst), Widens(src, dst))
      [] src \in IsInteger /\ dst \in IsFloat ->
             Entry(TRUE, FALSE, dst = "Float64")
      [] src \in IsFloat /\ dst \in IsInteger -> Entry(TRUE, FALSE, FALSE)
      [] src = "Float32" /\ dst = "Float64" -> Entry(TRUE, TRUE, TRUE)
      [] src = "Float64" /\ dst = "Float32" -> Entry(TRUE, FALSE, FALSE)
      [] {src, dst} = {"Bytes", "String"} -> Entry(TRUE, FALSE, TRUE)
      [] {src, dst} = {"Enum", "String"} -> Entry(TRUE, TRUE, TRUE)
      [] src \in IsLogical /\ dst \in IsLogical \cup {"String"} ->
             Entry(TRUE, TRUE, TRUE)
      [] src = "Null" -> Entry(TRUE, TRUE, TRUE)
      [] OTHER -> Entry(FALSE, FALSE, FALSE)

----------------------------------------------------------------------------
(* The machine's numbers *)

Int64 == -Pow2[W64 - 1] .. Pow2[W64 - 1] - 1
Int32 == -Pow2[W32 - 1] .. Pow2[W32 - 1] - 1
Uint64 == 0 .. Pow2[W64] - 1
Uint32 == 0 .. Pow2[W32] - 1

Magnitude(h) == IF h < 0 THEN -h ELSE h
WithSign(n, h) == IF h < 0 THEN -n ELSE n

(* The exponent of a in a float with m significant bits. *)
Exponent(a, m) ==
    CHOOSE i \in 0 .. a : a < Pow2[m + i] /\ (i = 0 \/ a >= Pow2[m + i - 1])

(* The multiple of d that is nearest to a, the even one of two. *)
Nearest(a, d) ==
    LET q == a \div d
        r == a % d
        up == 2 * r > d \/ (2 * r = d /\ q % 2 = 1)
    IN  (IF up THEN q + 1 ELSE q) * d

(* The float with m significant bits that is nearest to h halves. *)
Round(h, m) == WithSign(Nearest(Magnitude(h), Pow2[Exponent(Magnitude(h), m)]), h)

Trunc(h) == WithSign(Magnitude(h) \div 2, h)
Integral(h) == h % 2 = 0

(* int64(f) and uint64(f): exact in range, the machine's choice outside. *)
ToRange(h, range) == IF Trunc(h) \in range THEN {Trunc(h)} ELSE range

(* The floats with m significant bits, in halves. *)
Floats(m) == {h \in Int : Round(h, m) = h}

(* The numbers of a value of Go type g. *)
GoRange(g) ==
    CASE g = "int64" -> Int64          [] g = "int32" -> Int32
      [] g = "uint64" -> Uint64        [] g = "uint32" -> Uint32
      [] g = "float64" -> Floats(M64)  [] g = "float32" -> Floats(M32)
      [] g \in NonFinite -> -1 .. 1    [] g \in {"bytes", "nil"} -> {0}
      [] g \in {"bool", "truth", "word"} -> {0, 1}
      [] OTHER -> Int

(* The values of a Go type, and those of all of them. *)
GoValues(g) == [go : {g}, n : GoRange(g)]
Values == GoValues("int64") \cup GoValues("int32") \cup GoValues("uint64")
          \cup GoValues("uint32") \cup GoValues("float64") \cup GoValues("float32")
          \cup GoValues("nonfinite64") \cup GoValues("nonfinite32") \cup GoValues("bytes")
          \cup GoValues("nil") \cup GoValues("bool") \cup GoValues("truth")
          \cup GoValues("word") \cup GoValues("text")

----------------------------------------------------------------------------
(* project.go: each helper gives the set of its possible results           *)

Value(g, x) == [go |-> g, n |-> x]
Ok(g, x, k) == [ok |-> TRUE, val |-> Value(g, x), kind |-> k, note |-> Lossless]
Err == [ok |-> FALSE, val |-> Value("nil", 0), kind |-> Unsupported,
        note |-> Lossless]

(* f > math.MaxInt64 || f < math.MinInt64: the limits are floats here. *)
OutOfInt64(h) == \/ h > Round(2 * (Pow2[W64 - 1] - 1), M64)
                 \/ h < -(2 * Pow2[W64 - 1])

FloatToInt64(h, lossiness) ==
    IF (~Integral(h) /\ lossiness # "permissive") \/ OutOfInt64(h)
    THEN {Err}
    ELSE {Ok("int64", i, IF Integral(h) THEN SafeCoerce ELSE Lossy) :
             i \in ToRange(h, Int64)}

ToInt64(v, lossiness) ==
    CASE v.go \in {"int64", "int32", "uint32"} -> {Ok("int64", v.n, Lossless)}
      [] v.go = "uint64" ->
             IF v.n \in Int64 THEN {Ok("int64", v.n, SafeCoerce)}
             ELSE IF lossiness # "permissive" THEN {Err}
             ELSE {Ok("int64", LowSigned(v.n, W64), Lossy)}
      [] v.go \in {"float32", "float64"} -> FloatToInt64(v.n, lossiness)
      [] v.go = "text" /\ Integral(v.n) /\ Trunc(v.n) \in Int64 ->
             {Ok("int64", Trunc(v.n), SafeCoerce)}
      [] v.go = "bool" -> {Ok("int64", v.n, SafeCoerce)}
      [] OTHER -> {Err}

(* A signed number as uint64, with the kind it has when it fits. *)
SignedToUint64(n, k, lossiness) ==
    IF n >= 0 THEN {Ok("uint64", n, k)}
    ELSE IF lossiness # "permissive" THEN {Err}
    ELSE {Ok("uint64", Low(n, W64), Lossy)}

FloatToUint64(h, lossiness) ==
    IF h < 0 \/ ~Integral(h)
    THEN IF lossiness # "permissive" THEN {Err}
         ELSE {Ok("uint64", u, Lossy) : u \in ToRange(h, Uint64)}
    ELSE IF h > Round(2 * (Pow2[W64] - 1), M64) THEN {Err}
    ELSE {Ok("uint64", u, SafeCoerce) : u \in ToRange(h, Uint64)}

ToUint64(v, lossiness) ==
    CASE v.go \in {"uint64", "uint32"} -> {Ok("uint64", v.n, Lossless)}
      [] v.go \in {"int64", "int32"} -> SignedToUint64(v.n, SafeCoerce, lossiness)
      [] v.go = "float64" -> FloatToUint64(v.n, lossiness)
      [] v.go = "nonfinite64" ->  \* NaN is not its own truncation, -Inf < 0
             IF v.n = 1 \/ lossiness # "permissive" THEN {Err}
             ELSE {Ok("uint64", u, Lossy) : u \in Uint64}
      [] OTHER -> UNION {IF r.ok THEN SignedToUint64(r.val.n, r.kind, lossiness)
                         ELSE {Err} : r \in ToInt64(v, lossiness)}

(* float64(v) of a 64-bit integer, checked by converting it back. *)
IntegerToFloat64(n, range, lossiness) ==
    LET f == Round(2 * n, M64)
    IN  {IF back = n THEN Ok("float64", f, SafeCoerce)
         ELSE IF lossiness = "strict" THEN Err
         ELSE Ok("float64", f, IF range = Int64 THEN Lossy ELSE SafeCoerce) :
            back \in ToRange(f, range)}

ToFloat64(v, lossiness) ==
    CASE v.go \in {"float64", "nonfinite64"} -> {Ok(v.go, v.n, Lossless)}
      [] v.go = "float32" -> {Ok("float64", v.n, SafeCoerce)}
      [] v.go = "nonfinite32" -> {Ok("nonfinite64", v.n, SafeCoerce)}
      [] v.go = "int64" -> IntegerToFloat64(v.n, Int64, lossiness)
      [] v.go = "uint64" -> IntegerToFloat64(v.n, Uint64, lossiness)
      [] v.go \in {"int32", "uint32"} -> {Ok("float64", 2 * v.n, Lossless)}
      [] v.go = "text" -> {Ok("float64", Round(v.n, M64), SafeCoerce)}
      [] OTHER -> {Err}

(* The defect: only the upper end is checked. *)
NarrowUpperOnly(r, go, range, w, lossiness) ==
    IF ~r.ok THEN Err
    ELSE IF r.val.n > Pow2[w] - 1 \/ (go = "int32" /\ r.val.n > Pow2[w - 1] - 1)
    THEN Err
    ELSE Ok(go, IF go = "int32" THEN LowSigned(r.val.n, w) ELSE Low(r.val.n, w), r.kind)

(* A 64-bit result as a 32-bit one: cut only when permitted, and noted. *)
Narrow(r, go, range, w, lossiness) ==
    IF ~r.ok THEN Err
    ELSE IF r.val.n \in range THEN Ok(go, r.val.n, r.kind)
    ELSE IF lossiness # "permissive" THEN Err
    ELSE [Ok(go, IF go = "int32" THEN LowSigned(r.val.n, w) ELSE Low(r.val.n, w),
             r.kind) EXCEPT !.note = Lossy]

ToFloat32(r, lossiness) ==
    LET f == Round(r.val.n, M32)
    IN  IF ~r.ok THEN Err
        ELSE IF r.val.go = "nonfinite64"    \* NaN differs from itself
             THEN Ok("nonfinite32", r.val.n, IF r.val.n = 0 THEN Lossy ELSE r.kind)
        ELSE IF f = r.val.n THEN Ok("float32", f, r.kind)
        ELSE IF lossiness = "strict" THEN Err
        ELSE Ok("float32", f, Lossy)

(* fmt.Sprint *)
Printed(v) == CASE v.go \in GoText -> v
                [] v.go \in {"float32", "float64"} -> Value("text", v.n)
                [] v.go = "bool" -> Value("truth", v.n)
                [] v.go \in NonFinite \cup {"bytes"} -> Value("word", 0)
                [] OTHER -> Value("text", 2 * v.n)

ToBoolean(v, k) ==
    CASE v.go = "int64" -> {Ok("bool", IF v.n # 0 THEN 1 ELSE 0, SafeCoerce)}
      [] v.go = "truth" -> {Ok("bool", v.n, SafeCoerce)}
      [] v.go = "text" /\ v.n \in {0, 2} -> {Ok("bool", v.n \div 2, SafeCoerce)}
      [] v.go \in {"text", "word"} -> {Err}
      [] OTHER -> {Ok(v.go, v.n, k)}   \* a bool; any other value stays as it is

(* Whether the text of a number is base64 or hex depends on its digits. *)
WellFormed(v) == IF v.go = "word" THEN {v.n = 1} ELSE BOOLEAN

CoerceBytes(v, bytes) ==
    CASE v.go = "bytes" -> {Ok("bytes", v.n, Lossless)}
      [] v.go \in GoText /\ bytes = "reject" -> {Err}
      [] v.go \in GoText /\ bytes # "reject" ->
             {IF w THEN Ok("bytes", 0, SafeCoerce)
              ELSE IF bytes = "hex" THEN Err
              ELSE Ok("bytes", 0, Lossy) : w \in WellFormed(v)}
      [] OTHER -> {Err}

BytesToText(v, bytes) ==
    CASE v.go # "bytes" -> {Ok(Printed(v).go, Printed(v).n, SafeCoerce)}
      [] v.go = "bytes" /\ bytes = "reject" -> {Err}
      [] OTHER -> {Ok("word", 1, SafeCoerce)}

(* zeroForType *)
ZeroForType(t) ==
    CASE t \in IsFloat \cup IsInteger \cup {"Boolean", "Bytes"} ->
             Value(CHOOSE g \in GoOf(t) : g \notin NonFinite, 0)
      [] t \in Texts -> Value("word", 0)
      [] OTHER -> Value("nil", 0)

(* The switch of coerceValue over the target type. *)
Switch(v, to, kind, lossiness) ==
    CASE to \in Signed32 -> {Narrow(r, "int32", Int32, W32, lossiness) :
                                r \in ToInt64(v, lossiness)}
      [] to \in Signed64 -> ToInt64(v, lossiness)
      [] to \in Unsigned32 -> {Narrow(r, "uint32", Uint32, W32, lossiness) :
                                  r \in ToUint64(v, lossiness)}
      [] to \in Unsigned64 -> ToUint64(v, lossiness)
      [] to = "Float32" -> {ToFloat32(r, lossiness) : r \in ToFloat64(v, lossiness)}
      [] to = "Float64" -> ToFloat64(v, lossiness)
      [] to \in Texts -> {IF v.go \in GoText THEN Ok(v.go, v.n, kind)
                          ELSE Ok(Printed(v).go, Printed(v).n, SafeCoerce)}
      [] to = "Boolean" -> ToBoolean(v, kind)
      [] to = "Null" -> {Ok("nil", 0, kind)}
      [] OTHER -> {Ok(v.go, v.n, kind)}

(* coerceValue: note is what it adds to the report besides its result. *)
CoerceValue(v, from, to, lossiness, bytes) ==
    LET entry == LookupCompat(from, to)
        kind == IF from = to \/ from = "Unknown" \/ entry.lossless THEN Lossless
                ELSE IF entry.safe THEN SafeCoerce ELSE Lossy
        forced == /\ lossiness = "permissive" /\ ~entry.allowed
                  /\ ~({from, to} \subseteq IsInteger \cup IsFloat)
        merged(r) == IF to \in IsInteger \cup IsFloat
                     THEN MergeKind(kind, r.kind) ELSE r.kind
    IN  IF v.go = "nil" \/ from = "Null"
        THEN {Ok(ZeroForType(to).go, ZeroForType(to).n, Lossless)}
        ELSE IF to = "Bytes" THEN CoerceBytes(v, bytes)
        ELSE IF to = "String" /\ from = "Bytes" THEN BytesToText(v, bytes)
        ELSE {[r EXCEPT !.kind = merged(r),
                       !.note = IF forced THEN Lossy ELSE @] :
                r \in Switch(v, to, kind, lossiness)}
=============================================================================
