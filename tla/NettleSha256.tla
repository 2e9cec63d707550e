---------------------------- MODULE NettleSha256 ----------------------------
(***************************************************************************)
(* The hash of the benchmark nettle-sha256.c.                               *)
(*                                                                         *)
(* The first part is the compression of one block: words of 32 bits, the    *)
(* registers that change roles instead of places, the message schedule in   *)
(* a ring of sixteen words.  The round constants K and the initial state    *)
(* are parameters, given the values of the code where it is checked.        *)
(*                                                                         *)
(* The second part is the context: how update cuts a message that comes in  *)
(* pieces into blocks of BLOCK bytes (64 in the code), and how digest pads  *)
(* the last one with SIZE bytes (8) for the length.  There the state is the *)
(* sequence of the blocks compressed so far, and a byte of a message is a   *)
(* number that no padding byte is.                                          *)
(***************************************************************************)
EXTENDS Integers, Sequences, SequencesExt, FiniteSetsExt

CONSTANTS K,             \* the 64 round constants, as words
          H0,            \* the initial state
          BLOCKS,        \* the blocks of a message, of sixteen words each
          BLOCK, SIZE,   \* bytes of a block and of its length field
          MaxLength      \* bound on the length of a message, for TLC

Words == INSTANCE BitWords WITH WIDTH <- 32

-----------------------------------------------------------------------------
(* One block. *)

Choice(x, y, z) == Words!Xor(z, x \cap Words!Xor(y, z))
Majority(x, y, z) == Words!Xor(x \cap y, z \cap Words!Xor(x, y))
XorRot(x, a, b, c) ==
  Words!Xor(Words!RotL(x, a), Words!Xor(Words!RotL(x, b), c))
S0(x) == XorRot(x, 30, 19, Words!RotL(x, 10))
S1(x) == XorRot(x, 26, 21, Words!RotL(x, 7))
s0(x) == XorRot(x, 25, 14, Words!ShiftR(x, 3))
s1(x) == XorRot(x, 15, 13, Words!ShiftR(x, 10))
SumOf(words) == FoldLeft(Words!Plus, {}, words)

\* Round i of the 64: the register in role r, of the roles a to h, is the one
\* at (r - i) % 8; only those in the roles d and h change.
ROUND(v, i, data) ==
  LET At(r) == (r - i) % 8
      In(r) == v[At(r)]
      h == SumOf(<<In(7), S1(In(4)), Choice(In(4), In(5), In(6)), K[i], data>>)
  IN [v EXCEPT ![At(3)] = Words!Plus(In(3), h),
               ![At(7)] = SumOf(<<h, S0(In(0)), Majority(In(0), In(1), In(2))>>)]

\* EXPAND: the ring after the word for round i >= 16 replaced the oldest one.
EXPAND(ring, i) ==
  [ring EXCEPT ![i % 16] = SumOf(<<ring[i % 16], s1(ring[(i - 2) % 16]),
                                   ring[(i - 7) % 16], s0(ring[(i - 15) % 16])>>)]

VARIABLES work,   \* the compression of a block: state, data, v and i, and the
                  \* blocks that follow
          fips    \* history: the schedule and the registers of FIPS 180-4

compressVars == <<work, fips>>

StartBlock(state, blocks) ==
  /\ work' = [state |-> state, i |-> 0, v |-> state,
              data |-> [t \in 0 .. 15 |-> Head(blocks)[t + 1]], blocks |-> Tail(blocks)]
  /\ fips' = [w |-> Head(blocks), v |-> [r \in 0 .. 7 |-> state[r]]]

CompressInit ==
  /\ work = [state |-> H0, i |-> 0, v |-> H0,
             data |-> [t \in 0 .. 15 |-> Head(BLOCKS)[t + 1]], blocks |-> Tail(BLOCKS)]
  /\ fips = [w |-> Head(BLOCKS), v |-> H0]

\* The word w[t] and the registers after it, as FIPS 180-4 has them: every
\* register takes the value of its neighbour.
Scheduled(w, t) ==
  IF t < 16 THEN w
  ELSE Append(w, SumOf(<<s1(w[t - 1]), w[t - 6], s0(w[t - 14]), w[t - 15]>>))
FipsRound(v, t, word) ==
  LET T1 == SumOf(<<v[7], S1(v[4]), Choice(v[4], v[5], v[6]), K[t], word>>)
      T2 == Words!Plus(S0(v[0]), Majority(v[0], v[1], v[2]))
  IN [r \in 0 .. 7 |-> CASE r = 0 -> Words!Plus(T1, T2)
                       [] r = 4 -> Words!Plus(v[3], T1)
                       [] OTHER -> v[r - 1]]

\* One round of _nettle_sha256_compress.
CompressRound ==
  /\ work.i < 64
  /\ LET ring == IF work.i < 16 THEN work.data ELSE EXPAND(work.data, work.i)
         w == Scheduled(fips.w, work.i)
     IN /\ work' = [work EXCEPT !.data = ring, !.i = @ + 1,
                                !.v = ROUND(@, work.i, ring[work.i % 16])]
        /\ fips' = [w |-> w, v |-> FipsRound(fips.v, work.i, w[work.i + 1])]

\* After the last round the state is updated.
Updated == [r \in 0 .. 7 |-> Words!Plus(work.state[r], work.v[r])]
NextBlock ==
  /\ work.i = 64 /\ work.blocks /= << >>
  /\ StartBlock(Updated, work.blocks)

CompressNext == CompressRound \/ NextBlock

-----------------------------------------------------------------------------
(* The context. *)

VARIABLES ctx,      \* state, count, block, index
          message,  \* the bytes given to update since the context was reset
          digested  \* the last digest: the message and the blocks compressed

shaVars == <<ctx, message, digested>>

Junk == -1          \* a byte of a context on the stack before it is written

\* sha256_init: the block is left as it is.
Reset(c) == [c EXCEPT !.state = << >>, !.count = 0, !.index = 0]

ShaInit ==
  /\ ctx = Reset([state |-> << >>, count |-> 0, index |-> 0,
                  block |-> [i \in 1 .. BLOCK |-> Junk]])
  /\ message = << >>
  /\ digested = << >>

\* COMPRESS.
Compress(c, block) == [c EXCEPT !.state = Append(@, block)]

\* memcpy to a position of the block of the context.
Copy(c, at, data) ==
  [c EXCEPT !.block = [i \in 1 .. BLOCK |->
     IF i - at \in DOMAIN data THEN data[i - at] ELSE @[i]]]

Counted(c, block) == [Compress(c, block) EXCEPT !.count = @ + 1]

\* The whole blocks of data go past the buffer; the rest stays in it.
RECURSIVE WholeBlocks(_, _)
WholeBlocks(c, data) ==
  IF Len(data) >= BLOCK
  THEN WholeBlocks(Counted(c, SubSeq(data, 1, BLOCK)),
                   SubSeq(data, BLOCK + 1, Len(data)))
  ELSE [Copy(c, 0, data) EXCEPT !.index = Len(data)]

ForgetsToCount(c, data) ==   \* mutant
  LET left == BLOCK - c.index
      filled == Copy(c, c.index, SubSeq(data, 1, left))
  IN IF c.index = 0 THEN WholeBlocks(c, data)
     ELSE IF Len(data) < left
     THEN [Copy(c, c.index, data) EXCEPT !.index = @ + Len(data)]
     ELSE WholeBlocks(Compress(filled, filled.block),
                      SubSeq(data, left + 1, Len(data)))

\* MD_UPDATE.
MD_UPDATE(c, data) ==
  LET left == BLOCK - c.index
      filled == Copy(c, c.index, SubSeq(data, 1, left))
  IN IF c.index = 0 THEN WholeBlocks(c, data)
     ELSE IF Len(data) < left
     THEN [Copy(c, c.index, data) EXCEPT !.index = @ + Len(data)]
     ELSE WholeBlocks(Counted(filled, filled.block),
                      SubSeq(data, left + 1, Len(data)))

Zeros(n) == [i \in 1 .. n |-> 0]

\* MD_PAD: the first byte of padding, then zeros; a block of its own for the
\* length when no room is left for it.  Neither index nor count changes.
MD_PAD(c) ==
  LET i == c.index + 1
      marked == Copy(c, c.index, <<128>>)
      full == Copy(marked, i, Zeros(BLOCK - i))
  IN IF i > BLOCK - SIZE
     THEN Copy(Compress(full, full.block), 0, Zeros(BLOCK - SIZE))
     ELSE Copy(marked, i, Zeros(BLOCK - SIZE - i))

\* WRITE_UINT64: the bytes of n, the most significant one first.
BigEndian(n) == [i \in 1 .. SIZE |-> (n \div 256^(SIZE - i)) % 256]

Update ==
  \E n \in 0 .. MaxLength - Len(message) :
    LET data == [i \in 1 .. n |-> 256 * (1 + Len(digested)) + Len(message) + i]
    IN /\ ctx' = MD_UPDATE(ctx, data)
       /\ message' = message \o data
       /\ UNCHANGED digested

\* sha256_digest: pad, write the length, compress, and start again.
Digest ==
  LET padded == MD_PAD(ctx)
      bits == padded.count * 8 * BLOCK + padded.index * 8
      last == Copy(padded, BLOCK - SIZE, BigEndian(bits))
      done == Compress(last, last.block)
  IN /\ ctx' = Reset(done)
     /\ digested' = <<message, done.state>>
     /\ message' = << >>

ShaNext == Update \/ Digest
=============================================================================
