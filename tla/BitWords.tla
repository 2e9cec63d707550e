------------------------------ MODULE BitWords ------------------------------
(***************************************************************************)
(* Unsigned machine words of WIDTH bits as the sets of the positions of     *)
(* their one bits: the operators of C that the benchmarks use on them.      *)
(***************************************************************************)
EXTENDS Naturals, FiniteSetsExt

CONSTANT WIDTH

Bit == 0 .. WIDTH - 1

Xor(x, y) == (x \cup y) \ (x \cap y)
Not(x) == Bit \ x
ShiftR(x, n) == {i \in Bit : i + n \in x}
ShiftL(x, n) == {i \in Bit : i >= n /\ i - n \in x}
RotL(x, n) == {(i + n) % WIDTH : i \in x}

\* Addition: a carry comes to a bit from a lower one that is set in both words,
\* through bits that are set in one.
Carries(x, y) == {k \in Bit : \E j \in x \cap y : j < k /\ j + 1 .. k - 1 \subseteq x \cup y}
Plus(x, y) == Xor(Xor(x, y), Carries(x, y))

\* The word of a number below 2^31, and the number of such a word.
FromNat(n) == {i \in Bit \cap (0 .. 30) : (n \div 2^i) % 2 = 1}
ToNat(x) == SumSet({2^i : i \in x})
=============================================================================
