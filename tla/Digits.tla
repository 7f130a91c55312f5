------------------------------- MODULE Digits -------------------------------
(***************************************************************************)
(* The machine's numbers: powers of two, the low bits of an integer, and   *)
(* an integer as digits of g bits each, the lowest first, as shifts and    *)
(* masks take it apart and put it together.  Recursions are functions,     *)
(* because the proofs need them.                                           *)
(***************************************************************************)
EXTENDS Integers, Sequences

Pow2[n \in Nat] == IF n = 0 THEN 1 ELSE 2 * Pow2[n - 1]

(* Two's complement: the low w bits of n, read as unsigned or signed. *)
Low(n, w) == n % Pow2[w]
LowSigned(n, w) == IF Low(n, w) >= Pow2[w - 1] THEN Low(n, w) - Pow2[w] ELSE Low(n, w)

(* The i-th digit: n >> (g * (i - 1)), masked. *)
Digit(n, g, i) == (n \div Pow2[g * (i - 1)]) % Pow2[g]
Digits(n, g, w) == [i \in 1 .. w |-> Digit(n, g, i)]

(* The sums of the first members of a sequence. *)
Sums(s) == LET sum[k \in 0 .. Len(s)] == IF k = 0 THEN 0 ELSE sum[k - 1] + s[k] IN sum

(* The number of the digits: d[1] | d[2] << g | d[3] << 2g ... *)
Number(d, g) == Sums([i \in DOMAIN d |-> d[i] * Pow2[g * (i - 1)]])[Len(d)]
=============================================================================
