------------------------------ MODULE NettleAes ------------------------------
(***************************************************************************)
(* The cipher of the benchmark nettle-aes.c: table driven AES for keys of   *)
(* 16, 24 and 32 bytes.  A byte is a number below 256, a word the sequence  *)
(* of its four bytes, the low one first, as the macros B0 to B3 take them   *)
(* and LE_READ_UINT32 reads them.  The tables of the source, 2,368 numbers, *)
(* are given here by what they contain: products in the field of AES.       *)
(***************************************************************************)
EXTENDS Integers, Sequences, SequencesExt

Byte == 0 .. 255
\* What a table has for byte b is at b + 1.  TLC computes a concatenation as a
\* whole, and so each table only once.
AsTable(entries) == entries \o << >>

\* Exclusive or, by a table for the two halves of a byte.
HalfXorOf(n) ==
  LET Differ(q) == ((n \div 2^q) + (n \div 2^(q + 4))) % 2
  IN Differ(0) + 2 * Differ(1) + 4 * Differ(2) + 8 * Differ(3)
HalfXor == AsTable([q \in 1 .. 256 |-> HalfXorOf(q - 1)])
Xor(m, n) == 16 * HalfXor[16 * (m \div 16) + (n \div 16) + 1]
               + HalfXor[16 * (m % 16) + (n % 16) + 1]

XorBytes(m, n) ==
  <<Xor(m[1], n[1]), Xor(m[2], n[2]), Xor(m[3], n[3]), Xor(m[4], n[4])>>

\* ROTL32 by 8 * n bits.
Rotate(w, n) ==
  LET Of(q) == w[((q - 1 - n) % 4) + 1] IN <<Of(1), Of(2), Of(3), Of(4)>>

-----------------------------------------------------------------------------
(* The tables. *)

Twice(b) == IF b < 128 THEN 2 * b ELSE Xor(2 * b - 256, 27)

\* The product of b and the sum of the powers of two in c.
RECURSIVE Times(_, _)
Times(c, b) ==
  IF c = 0 THEN 0
  ELSE Xor(Times(c \div 2, Twice(b)), IF c % 2 = 1 THEN b ELSE 0)

InverseOf(b) == IF b = 0 THEN 0 ELSE CHOOSE c \in Byte : Times(b, c) = 1

RotateByte(b, n) == ((b * 2^n) % 256) + (b \div 2^(8 - n))

\* The S-box of encryption and the one that undoes it.
Substitute(b) ==
  LET v == InverseOf(b)
  IN Xor(Xor(Xor(v, RotateByte(v, 1)), Xor(RotateByte(v, 2), RotateByte(v, 3))),
         Xor(RotateByte(v, 4), 99))
Restore(b) ==
  InverseOf(Xor(Xor(RotateByte(b, 1), RotateByte(b, 3)), Xor(RotateByte(b, 6), 5)))
sbox == AsTable([q \in 1 .. 256 |-> Substitute(q - 1)])
isbox == AsTable([q \in 1 .. 256 |-> Restore(q - 1)])

Column(b, f) == <<Times(f[1], b), Times(f[2], b), Times(f[3], b), Times(f[4], b)>>

\* The first table of each direction; table j is the first one rotated by j
\* bytes.  mtable is that of decryption without the S-box.
dtable == AsTable([q \in 1 .. 256 |-> Column(sbox[q], <<2, 1, 1, 3>>)])
itable == AsTable([q \in 1 .. 256 |-> Column(isbox[q], <<14, 9, 13, 11>>)])
mtable == AsTable([q \in 1 .. 256 |-> Column(q - 1, <<14, 9, 13, 11>>)])

\* Step: which word the next byte of a column comes from.
_aes_encrypt_table == [sbox |-> sbox, table |-> dtable, step |-> 1]
_aes_decrypt_table == [sbox |-> isbox, table |-> itable, step |-> 3]

-----------------------------------------------------------------------------
(* The key schedule. *)

rcon == [q \in 1 .. 10 |-> Times(2^(q - 1), 1)]
SUBBYTE(w) == <<sbox[w[1] + 1], sbox[w[2] + 1], sbox[w[3] + 1], sbox[w[4] + 1]>>

\* The word a subkey is combined with, for subkey q (from zero) of nk words of
\* key, after the word t.
Mangled(q, nk, t) ==
  IF q % nk = 0 THEN XorBytes(SUBBYTE(Rotate(t, 3)), <<rcon[q \div nk], 0, 0, 0>>)
  ELSE IF nk > 6 /\ q % nk = 4 THEN SUBBYTE(t)
  ELSE t

Block(bytes, q) == SubSeq(bytes, 4 * q - 3, 4 * q)

\* _aes_set_key: the words of the key, then one subkey after another.
RECURSIVE Expanded(_, _, _)
Expanded(subkeys, nk, lastkey) ==
  IF Len(subkeys) = lastkey THEN subkeys
  ELSE LET q == Len(subkeys)
       IN Expanded(Append(subkeys, XorBytes(subkeys[q - nk + 1],
                                            Mangled(q, nk, Last(subkeys)))),
                   nk, lastkey)

_aes_set_key(nr, nk, key) ==
  Expanded([q \in 1 .. nk |-> Block(key, q)], nk, 4 * (nr + 1))

\* aes_set_encrypt_key: a key size between the three is truncated.
aes_set_encrypt_key(keysize, key) ==
  LET nk == IF keysize = 32 THEN 8 ELSE IF keysize >= 24 THEN 6 ELSE 4
      nr == IF keysize = 32 THEN 14 ELSE IF keysize >= 24 THEN 12 ELSE 10
  IN [rounds |-> nr, keys |-> _aes_set_key(nr, nk, key)]

\* MIX_COLUMN.
MIX_COLUMN(w) ==
  LET Part(q) == Rotate(mtable[w[q] + 1], q - 1)
  IN XorBytes(XorBytes(Part(1), Part(2)), XorBytes(Part(3), Part(4)))

MixesLastToo(rounds, keys) ==   \* mutant
  FlattenSeq([g \in 1 .. rounds + 1 |->
    LET Of(c) == LET subkey == keys[4 * (rounds + 1 - g) + c]
                 IN IF g > 1 THEN MIX_COLUMN(subkey) ELSE subkey
    IN <<Of(1), Of(2), Of(3), Of(4)>>])

\* _nettle_aes_invert: the subkeys in reverse order by fours, and all but the
\* first and the last four mixed.
_nettle_aes_invert(rounds, keys) ==
  FlattenSeq([g \in 1 .. rounds + 1 |->
    LET Of(c) == LET subkey == keys[4 * (rounds + 1 - g) + c]
                 IN IF g \in 2 .. rounds THEN MIX_COLUMN(subkey) ELSE subkey
    IN <<Of(1), Of(2), Of(3), Of(4)>>])

aes_invert_key(ctx) ==
  [rounds |-> ctx.rounds, keys |-> _nettle_aes_invert(ctx.rounds, ctx.keys)]

aes_set_decrypt_key(keysize, key) ==
  aes_invert_key(aes_set_encrypt_key(keysize, key))

-----------------------------------------------------------------------------
(* One block, and a number of them. *)

\* Byte q of column c comes from byte q of the word `step' further on.
From(T, w, c, q) == w[((c - 1 + T.step * (q - 1)) % 4) + 1][q]

AES_ROUND(T, w, c, k) ==
  LET Part(q) == Rotate(T.table[From(T, w, c, q) + 1], q - 1)
  IN XorBytes(XorBytes(XorBytes(Part(1), Part(2)), XorBytes(Part(3), Part(4))), k)
AES_FINAL_ROUND(T, w, c, k) ==
  LET Of(q) == T.sbox[From(T, w, c, q) + 1]
  IN XorBytes(<<Of(1), Of(2), Of(3), Of(4)>>, k)

CipherBlock(T, ctx, src) ==
  LET Key(r, c) == ctx.keys[4 * r + c]
      First(c) == XorBytes(Block(src, c), Key(0, c))
      Round(w, r) == <<AES_ROUND(T, w, 1, Key(r, 1)), AES_ROUND(T, w, 2, Key(r, 2)),
                       AES_ROUND(T, w, 3, Key(r, 3)), AES_ROUND(T, w, 4, Key(r, 4))>>
      last == FoldLeft(Round, <<First(1), First(2), First(3), First(4)>>,
                       [r \in 1 .. ctx.rounds - 1 |-> r])
      Final(c) == AES_FINAL_ROUND(T, last, c, Key(ctx.rounds, c))
  IN Final(1) \o Final(2) \o Final(3) \o Final(4)

\* FOR_BLOCKS: each block by itself; the length is a multiple of a block.
ForBlocks(T, ctx, src) ==
  FlattenSeq([q \in 1 .. Len(src) \div 16 |->
                CipherBlock(T, ctx, SubSeq(src, 16 * q - 15, 16 * q))])

aes_encrypt(ctx, src) == ForBlocks(_aes_encrypt_table, ctx, src)
aes_decrypt(ctx, src) == ForBlocks(_aes_decrypt_table, ctx, src)

-----------------------------------------------------------------------------
(* A round as FIPS 197 describes it, without tables: the reference AES_ROUND *)
(* is compared with.                                                        *)

Substituted(s) == <<SUBBYTE(s[1]), SUBBYTE(s[2]), SUBBYTE(s[3]), SUBBYTE(s[4])>>
ShiftedColumn(s, c) == [q \in 1 .. 4 |-> s[((c + q - 2) % 4) + 1][q]]
MixedColumn(a) ==
  LET Row(b, c, d, e) == Xor(Xor(Times(2, b), Times(3, c)), Xor(d, e))
  IN <<Row(a[1], a[2], a[3], a[4]), Row(a[2], a[3], a[4], a[1]),
       Row(a[3], a[4], a[1], a[2]), Row(a[4], a[1], a[2], a[3])>>
FipsRound(s, c, k) == XorBytes(MixedColumn(ShiftedColumn(Substituted(s), c)), k)
=============================================================================
