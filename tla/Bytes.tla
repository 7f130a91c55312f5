------------------------------- MODULE Bytes -------------------------------
(***************************************************************************)
(* What the binary codecs of internal/codec share: payload trees and the   *)
(* bytes of numbers.                                                       *)
(*                                                                         *)
(* A tree is [key, t, go, n, s, ch]: key and type of the node, the Go type *)
(* of its value, the value as a number or (texts, bytes and keys) as a     *)
(* sequence of bytes, and its children.  A byte has ByteBits bits instead  *)
(* of 8; integers have 1, 2, 4 and 8 bytes as in the code.  Floats are   *)
(* their bit patterns, with go naming the width they were written in.      *)
(***************************************************************************)
EXTENDS Digits

CONSTANT ByteBits

ASSUME ByteAssumption == ByteBits \in Nat /\ ByteBits > 1

Radix == Pow2[ByteBits]     \* the values of a byte (256)

Tree(k, t, g, x, b, c) == [key |-> k, t |-> t, go |-> g, n |-> x, s |-> b, ch |-> c]
NullTree(k) == Tree(k, "Null", "nil", 0, <<>>, <<>>)
NumberTree(k, t, g, x) == Tree(k, t, g, x, <<>>, <<>>)
TextTree(k, b) == Tree(k, "String", "string", 0, b, <<>>)
BytesTree(k, b) == Tree(k, "Bytes", "bytes", 0, b, <<>>)
BoolTree(k, x) == Tree(k, "Boolean", "bool", x, <<>>, <<>>)
Container(k, t, c) == Tree(k, t, "nil", 0, <<>>, c)

SignedGo == {"int64", "int32"}
UnsignedGo == {"uint64", "uint32"}
IntTypes == {"Int32", "Int64", "UInt32", "UInt64", "SInt32", "SInt64",
             "Fixed32", "Fixed64", "SFixed32", "SFixed64"}

(* The integers of w bytes. *)
MaxUint(w) == Pow2[ByteBits * w] - 1
MaxInt(w) == Pow2[ByteBits * w - 1] - 1
MinInt(w) == -Pow2[ByteBits * w - 1]

(* Elements of a stream: a head (its kind and the number it holds) or a    *)
(* byte.  A decoder knows from the ones before it which it reads.          *)
Lead(h, x) == <<h, x>>
Byte(b) == <<"byte", b>>
Raw(b) == [i \in DOMAIN b |-> Byte(b[i])]
IsRaw(d, w) == Len(d) >= w /\ \A i \in 1 .. w : d[i][1] = "byte"
Content(d, w) == [i \in 1 .. w |-> d[i][2]]
Drop(d, w) == SubSeq(d, w + 1, Len(d))

(* binary.BigEndian: the low w bytes of x, and the number they make. *)
BigEndian(x, w) == [i \in 1 .. w |-> Byte(Digit(x, ByteBits, w - i + 1))]
UnsignedOf(d, w) == Number([i \in 1 .. w |-> d[w - i + 1][2]], ByteBits)
SignedOf(d, w) == LowSigned(UnsignedOf(d, w), ByteBits * w)

(* A decoder's answer: a tree and the bytes left, or an error. *)
Read(node, rest) == [ok |-> TRUE, node |-> node, rest |-> rest]
Refused == [ok |-> FALSE, node |-> NullTree(<<>>), rest |-> <<>>]
=============================================================================
