------------------------------- MODULE Heads -------------------------------
(***************************************************************************)
(* How MessagePack and CBOR begin a value (internal/codec/msgpack.go and   *)
(* cbor.go): a head with a number in it, or followed by the big-endian     *)
(* bytes of one.  A CBOR head is <<major, info>> with info a number below  *)
(* Small, or the code of a width.                                          *)
(***************************************************************************)
EXTENDS Bytes

CONSTANTS
    FixInt,     \* the largest number in one byte (127)
    NegFix,     \* the smallest, negated (32)
    FixStr,     \* the longest text whose length is in its head (31)
    FixSize,    \* the largest array or map whose size is in its head (15)
    Small       \* numbers below it are in a CBOR head (24)

ASSUME HeadAssumption == /\ FixInt \in 0 .. MaxInt(1) /\ NegFix \in 1 .. -MinInt(1)
                         /\ FixStr \in 0 .. MaxUint(1) /\ FixSize \in 0 .. MaxUint(1)
                         /\ Small \in 1 .. MaxUint(1)

(* A head followed by a number of w bytes. *)
Wide(h, x, w) == <<Lead(h, 0)>> \o BigEndian(x, w)

(* What a head announces, with the number n, and the bytes after it. *)
Announced(what, n, rest) == [ok |-> TRUE, what |-> what, n |-> n, rest |-> rest]
NoHead == [ok |-> FALSE, what |-> "none", n |-> 0, rest |-> <<>>]

(* The first of the widths, in bytes, that holds x. *)
Fewest(widths, x) == CHOOSE i \in DOMAIN widths :
                         /\ x <= MaxUint(widths[i])
                         /\ \A j \in 1 .. i - 1 : x > MaxUint(widths[j])

----------------------------------------------------------------------------
(* MessagePack: heads that a number of w bytes follows, and what it is. *)
Follows == [uint8 |-> <<"uint", 1>>, uint16 |-> <<"uint", 2>>, uint32 |-> <<"uint", 4>>,
            uint64 |-> <<"uint", 8>>, int8 |-> <<"int", 1>>, int16 |-> <<"int", 2>>,
            int32 |-> <<"int", 4>>, int64 |-> <<"int", 8>>,
            float32 |-> <<"float32", 4>>, float64 |-> <<"float64", 8>>,
            bin8 |-> <<"bin", 1>>, bin16 |-> <<"bin", 2>>, bin32 |-> <<"bin", 4>>,
            str8 |-> <<"str", 1>>, str16 |-> <<"str", 2>>, str32 |-> <<"str", 4>>,
            array16 |-> <<"array", 2>>, array32 |-> <<"array", 4>>,
            map16 |-> <<"map", 2>>, map32 |-> <<"map", 4>>]

(* Heads that hold their number. *)
Holds == [fixint |-> "int", negfixint |-> "int", fixstr |-> "str", fixarray |-> "array",
          fixmap |-> "map"]

StrHeads == <<"str8", "str16", "str32">>
BinHeads == <<"bin8", "bin16", "bin32">>
ArrayHeads == <<"array16", "array32">>
MapHeads == <<"map16", "map32">>

(* A length in the head when it fits, else in the fewest bytes. *)
Sized(fix, max, heads, l) ==
    IF l <= max THEN <<Lead(fix, l)>>
    ELSE LET widths == [i \in DOMAIN heads |-> Follows[heads[i]][2]]
             i == Fewest(widths, l)
         IN  Wide(heads[i], l, widths[i])

TextHead(l) == Sized("fixstr", FixStr, StrHeads, l)
BytesHead(l) == Sized("bin8", -1, BinHeads, l)
ArrayHead(l) == Sized("fixarray", FixSize, ArrayHeads, l)
MapHead(l) == Sized("fixmap", FixSize, MapHeads, l)

GenerateUnsigned(x) ==
    CASE x <= FixInt -> <<Lead("fixint", x)>>
      [] FixInt < x /\ x <= MaxUint(1) -> Wide("uint8", x, 1)
      [] MaxUint(1) < x /\ x <= MaxUint(2) -> Wide("uint16", x, 2)
      [] MaxUint(2) < x /\ x <= MaxUint(4) -> Wide("uint32", x, 4)
      [] OTHER -> Wide("uint64", x, 8)

InInt(x, w) == x \in MinInt(w) .. MaxInt(w)

GenerateSigned(x) ==
    CASE x \in 0 .. FixInt -> <<Lead("fixint", x)>>
      [] x \in -NegFix .. -1 -> <<Lead("negfixint", x)>>
      [] x \notin -NegFix .. FixInt /\ InInt(x, 1) -> Wide("int8", x, 1)
      [] ~InInt(x, 1) /\ InInt(x, 2) -> Wide("int16", x, 2)
      [] ~InInt(x, 2) /\ InInt(x, 4) -> Wide("int32", x, 4)
      [] OTHER -> Wide("int64", x, 8)

(* The head that data starts with, or none. *)
ReadHead(data) ==
    IF data = <<>> THEN NoHead
    ELSE
    LET h == data[1][1]
        d == Tail(data)
        what == Follows[h][1]
        w == Follows[h][2]
    IN  CASE h \in DOMAIN Holds -> Announced(Holds[h], data[1][2], d)
          [] h \in DOMAIN Follows ->
                 IF IsRaw(d, w)
                 THEN Announced(what, IF what = "int" THEN SignedOf(d, w) ELSE UnsignedOf(d, w),
                                Drop(d, w))
                 ELSE NoHead
          [] OTHER -> NoHead

----------------------------------------------------------------------------
(* CBOR: the codes 24 .. 27 of the widths. *)
Widths == <<1, 2, 4, 8>>
WidthCode(i) == Small + i - 1

CborHead(major, x) ==
    IF x < Small THEN <<Lead(major, x)>>
    ELSE LET i == Fewest(Widths, x)
         IN  <<Lead(major, WidthCode(i))>> \o BigEndian(x, Widths[i])

CborSigned(x) == IF x < 0 THEN CborHead("negative", -(x + 1)) ELSE CborHead("unsigned", x)

(* The head that data starts with, when it has a number. *)
ReadCborHead(data) ==
    LET major == data[1][1]
        info == data[1][2]
        d == Tail(data)
        wide == info - Small + 1        \* the place of its width
    IN  IF data = <<>> THEN NoHead
        ELSE IF major \in {"simple", "byte"} THEN NoHead
        ELSE IF info < Small THEN Announced(major, info, d)
        ELSE IF wide \notin DOMAIN Widths THEN NoHead
        ELSE IF ~IsRaw(d, Widths[wide]) THEN NoHead
        ELSE Announced(major, UnsignedOf(d, Widths[wide]), Drop(d, Widths[wide]))
=============================================================================
