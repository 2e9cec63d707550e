------------------------------- MODULE Mont64 -------------------------------
(***************************************************************************)
(* The benchmark mont64.c: (a*b)^4 modulo m, once by division and once by   *)
(* Montgomery multiplication.  A word has W bits instead of 64, and         *)
(* arithmetic wraps at 2^W as the C code's does; the double word product is *)
(* built from half words, as in the branch for compilers without __int128.  *)
(* Signed words appear only as the shift that spreads the top bit.          *)
(***************************************************************************)
EXTENDS Integers, Bitwise

CONSTANT W   \* bits of a word, even

Word == 0 .. 2^W - 1
HALF == 2^(W \div 2)
Wrap(x) == x % 2^W
ShiftLeft(x, n) == Wrap(x * 2^n)
TopBit(x) == x \div 2^(W - 1)

\* mulul64: the low and the high word of the product u * v.
mulul64(u, v) ==
  LET u1 == u \div HALF
      u0 == u % HALF
      v1 == v \div HALF
      v0 == v % HALF
      low == Wrap(u0 * v0)
      mid == Wrap((u1 * v0) + (low \div HALF))
      cross == Wrap((u0 * v1) + (mid % HALF))
  IN [lo |-> Wrap(ShiftLeft(cross, W \div 2) + (low % HALF)),
      hi |-> Wrap((u1 * v1) + (mid \div HALF) + (cross \div HALF))]

\* One of the W steps of modul64: shift x || y left, subtract z when the bit
\* that was shifted out or what is left shows that it fits.
DivideStep(p, z) ==
  LET x == Wrap(2 * p.x + TopBit(p.y))
      y == ShiftLeft(p.y, 1)
  IN IF TopBit(p.x) = 1 \/ x >= z
     THEN [x |-> Wrap(x - z), y |-> Wrap(y + 1)]
     ELSE [x |-> x, y |-> y]

\* modul64: x || y modulo z, for x < z.
modul64(x, y, z) ==
  LET step[i \in 0 .. W] ==
        IF i = 0 THEN [x |-> x, y |-> y] ELSE DivideStep(step[i - 1], z)
  IN step[W].x

NoOverflow(t, u) ==   \* mutant
  LET lo == Wrap(t.lo + u.lo)
      hi == Wrap(t.hi + u.hi + IF lo < t.lo THEN 1 ELSE 0)
  IN [hi |-> hi, ov |-> FALSE]

\* The double word sum of two double words, and whether it overflowed.
Add128(t, u) ==
  LET lo == Wrap(t.lo + u.lo)
      hi == Wrap(t.hi + u.hi + IF lo < t.lo THEN 1 ELSE 0)
  IN [hi |-> hi,
      ov |-> hi < t.hi \/ (hi = t.hi /\ lo < t.lo)]

\* montmul: abar * bbar / 2^W modulo m.
montmul(abar, bbar, m, mprime) ==
  LET t == mulul64(abar, bbar)
      u == Add128(t, mulul64(Wrap(t.lo * mprime), m))
  IN IF u.ov \/ u.hi >= m THEN Wrap(u.hi - m) ELSE u.hi

\* xbinGCD for a = 2^(W-1), the half of 2^W that fits a word: u and v with
\* u * 2a - v * b = 1.  The average of u and b is taken without a carry.
xbinGCD(a, b) ==
  LET step[i \in 0 .. W] ==      \* a has i bits left
        IF i = W THEN [u |-> 1, v |-> 0]
        ELSE LET p == step[i + 1]
             IN IF p.u % 2 = 0
                THEN [u |-> p.u \div 2, v |-> p.v \div 2]
                ELSE [u |-> Wrap(((p.u ^^ b) \div 2) + (p.u & b)),
                      v |-> Wrap((p.v \div 2) + a)]
  IN step[0]

\* benchmark_body for in_a, in_b < in_m, in_m odd: the two results and the
\* errors it counts.
Benchmark(a, b, m) ==
  LET hr == 2^(W - 1)
      Square(x) == LET p == mulul64(x, x) IN modul64(p.hi, p.lo, m)
      first == mulul64(a, b)
      p1 == Square(Square(modul64(first.hi, first.lo, m)))
      inverse == xbinGCD(hr, m)
      rinv == inverse.u
      mprime == inverse.v
      abar == modul64(a, 0, m)
      bbar == modul64(b, 0, m)
      MontSquare(x) == montmul(x, x, m, mprime)
      q == mulul64(MontSquare(MontSquare(montmul(abar, bbar, m, mprime))),
                   rinv)
      p == modul64(q.hi, q.lo, m)
  IN [plain |-> p1, montgomery |-> p,
      errors |-> IF Wrap(2 * hr * rinv - m * mprime) /= 1 \/ p /= p1
                 THEN 1 ELSE 0]

Inputs == {t \in Word \X Word \X Word : t[3] % 2 = 1 /\ t[1] < t[3] /\ t[2] < t[3]}
=============================================================================
