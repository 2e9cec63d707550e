-------------------------------- MODULE Crc32 --------------------------------
(***************************************************************************)
(* The benchmark crc_32.c: a checksum of 1024 octets of the benchmarks'      *)
(* random numbers, a table look-up for each octet.  The words are sets of   *)
(* bits, as wide as an unsigned long of the target.                         *)
(***************************************************************************)
EXTENDS Integers

CONSTANTS OCTETS,   \* how many octets are summed
          CRC       \* the result that verify_benchmark expects

Long == INSTANCE BitWords WITH WIDTH <- 64

\* The seed, 31 bits of a long, is kept in two halves: high * 2^16 + low.
VARIABLES seed, oldcrc32,
          summed,   \* i: how many octets were
          serial    \* history: the checksum computed bit by bit

crcVars == <<seed, oldcrc32, summed, serial>>

\* The polynomial 0xedb88320, lowest-order term first.
Polynomial == {5, 8, 9, 15, 19, 20, 21, 23, 24, 26, 27, 29, 30, 31}

\* One shift of the register the table stands for.
Shifted(word) ==
  IF 0 \in word THEN Long!Xor(Long!ShiftR(word, 1), Polynomial) ELSE Long!ShiftR(word, 1)
ShiftedByOctet(word) ==
  Shifted(Shifted(Shifted(Shifted(Shifted(Shifted(Shifted(Shifted(word))))))))

\* The 256 entries, which the source lists, are the eight shifts of their index.
crc_32_tab(index) == ShiftedByOctet(index)

TakesWholeWord(octet, crc) ==   \* mutant
  Long!Xor(crc_32_tab(Long!Xor(crc, octet) \cap (0 .. 8)), Long!ShiftR(crc, 8))

UPDC32(octet, crc) ==
  Long!Xor(crc_32_tab(Long!Xor(crc, octet) \cap (0 .. 7)), Long!ShiftR(crc, 8))

\* rand_beebs: (seed * 1103515245 + 12345) modulo 2^31, where 1103515245 is
\* 16838 * 2^16 + 20077; the number is the high half.
rand_beebs(s) ==
  LET low == s.low * 20077 + 12345
      high == s.high * 20077 + ((s.low * 16838) % 2^15) + (low \div 2^16)
  IN [low |-> low % 2^16, high |-> high % 2^15]

\* srand_beebs (0) and the register with all its 32 bits set.
CrcInit ==
  /\ seed = [low |-> 0, high |-> 0]
  /\ oldcrc32 = 0 .. 31 /\ serial = 0 .. 31
  /\ summed = 0

\* One turn of crc32pseudo.
crc32pseudo ==
  /\ summed < OCTETS
  /\ LET random == rand_beebs(seed)
         octet == Long!FromNat(random.high % 256)
     IN /\ seed' = random
        /\ oldcrc32' = UPDC32(octet, oldcrc32)
        /\ serial' = ShiftedByOctet(Long!Xor(serial, octet))
  /\ summed' = summed + 1

\* What benchmark_body returns of the complement.
CrcResult == Long!ToNat(Long!Not(oldcrc32) \cap (0 .. 14))
CrcDone == summed = OCTETS

CrcSpec == CrcInit /\ [][crc32pseudo]_crcVars

-----------------------------------------------------------------------------
(* Properties.                                                             *)

TableIsSerial == oldcrc32 = serial

\* crc_32.c: a look-up in crc_32_tab for eight bits does what eight shifts do,
\* and the sum of the octets of the benchmark is the one verify_benchmark expects.
CrcByTable == TableIsSerial /\ (CrcDone => CrcResult = CRC)
=============================================================================
