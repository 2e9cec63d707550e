----------------------------- MODULE Algorithms -----------------------------
(***************************************************************************)
(* The parts of the repository that compute by themselves: the pass and     *)
(* what it makes of a program, the argument strings of exec.c, and the      *)
(* kernels of the Embench programs.  A behaviour is one of them: `uses'      *)
(* says which, the containers of Sglib among them.                          *)
(***************************************************************************)
EXTENDS Sglib, CFlatPass, ArgStack, Crc32

CONSTANTS
  K, H0, BLOCKS, DIGEST,            \* of SHA-256, with the digest of the blocks
  BLOCK, SIZE, MaxLength,
  Montgomery, Texts, Ciphers        \* inputs of mont64.c, libhuffbench.c, nettle-aes.c

VARIABLES
  job,                                                       \* of the kernels without a state of their own
  work, fips, ctx, message, digested                         \* NettleSha256

compressVars == <<work, fips>>
contextVars == <<ctx, message, digested>>
algorithmVars == <<sglibVars, job, compressVars, contextVars, crcVars, argVars,
                   passVars>>

Sha == INSTANCE NettleSha256
Mont == INSTANCE Mont64 WITH W <- 4
Huff == INSTANCE Huffbench WITH SYMBOLS <- 4, BYTE_BITS <- 2, LONG_BITS <- 64
Aes == INSTANCE NettleAes

-----------------------------------------------------------------------------
(* The kernels that are a function of their input. *)

NoJob == [of |-> "none"]
NoCall == [filename |-> << >>, argv |-> << >>, envp |-> << >>, rlim |-> 0, stack_top |-> 0]
Jobs ==
  [of : {"mont64"}, input : Montgomery] \cup [of : {"huffbench"}, input : Texts]
    \cup [of : {"aes"}, input : Ciphers]

Answer ==
  CASE job.of = "mont64" -> Mont!Benchmark(job.input[1], job.input[2], job.input[3])
    [] job.of = "huffbench" -> Huff!compdecomp(job.input)
    [] job.of = "aes" ->
         LET size == Len(job.input.key)
             encrypted == Aes!aes_encrypt(Aes!aes_set_encrypt_key(size, job.input.key),
                                          job.input.text)
         IN [encrypted |-> encrypted,
             decrypted |-> Aes!aes_decrypt(Aes!aes_set_decrypt_key(size, job.input.key),
                                           encrypted)]

Compute ==
  /\ uses = "kernel" /\ DOMAIN job = {"of", "input"}
  /\ job' = [of |-> job.of, input |-> job.input, answer |-> Answer]

Answered(kernel) == job.of = kernel /\ DOMAIN job = {"of", "input", "answer"}

-----------------------------------------------------------------------------

NoProgram == [f \in {MAIN} |-> << <<Ret>> >>]
Others == {"sha256 block", "sha256 context", "crc32", "kernel",
           "argument strings", "pass"}

AlgorithmsInit ==
  \E subject \in Containers \cup Others :
    /\ SglibInitial(subject)
    /\ Sha!CompressInit /\ Sha!ShaInit /\ CrcInit
    /\ job \in (IF subject = "kernel" THEN Jobs ELSE {NoJob})
    /\ \E call \in (IF subject = "argument strings" THEN ArgCalls ELSE {NoCall}) :
         ArgInitial(call)
    /\ \E module \in (IF subject = "pass" THEN PassPrograms ELSE {NoProgram}) :
         PassInitial(module)

AlgorithmsNext ==
  \/ /\ SglibNext
     /\ UNCHANGED <<job, compressVars, contextVars, crcVars, argVars, passVars>>
  \/ /\ Compute
     /\ UNCHANGED <<sglibVars, compressVars, contextVars, crcVars, argVars, passVars>>
  \/ /\ uses = "sha256 block" /\ Sha!CompressNext
     /\ UNCHANGED <<sglibVars, job, contextVars, crcVars, argVars, passVars>>
  \/ /\ uses = "sha256 context" /\ Sha!ShaNext
     /\ UNCHANGED <<sglibVars, job, compressVars, crcVars, argVars, passVars>>
  \/ /\ uses = "crc32" /\ crc32pseudo
     /\ UNCHANGED <<sglibVars, job, compressVars, contextVars, argVars, passVars>>
  \/ /\ uses = "argument strings" /\ ArgNext
     /\ UNCHANGED <<sglibVars, job, compressVars, contextVars, crcVars, passVars>>
  \/ /\ uses = "pass" /\ PassNext
     /\ UNCHANGED <<sglibVars, job, compressVars, contextVars, crcVars, argVars>>

AlgorithmsSpec == AlgorithmsInit /\ [][AlgorithmsNext]_algorithmVars

-----------------------------------------------------------------------------
(* Properties. *)

\* mont64.c: both ways to (a*b)^4 modulo m give it, and the check of the inverse
\* in benchmark_body finds no error.
MontgomeryAgrees ==
  Answered("mont64") =>
    LET product == job.input[1] * job.input[2]
    IN /\ job.answer.errors = 0
       /\ job.answer.plain = job.answer.montgomery
       /\ job.answer.plain = (product * product * product * product) % job.input[3]

\* libhuffbench.c: what is compressed and decompressed is the text again, and no
\* prefix code has fewer bits than the one the heap made.
HuffmanRestores ==
  Answered("huffbench") =>
    /\ job.answer.data = job.input
    /\ job.answer.comp = << >> \/
       Len(Huff!Encoded(job.input, Huff!Codes(job.input)))
         = Huff!LeastCost(Huff!Weights(job.input))

Inverts ==
  /\ job.answer.decrypted = job.input.text
  /\ job.input.expected \in {<< >>, job.answer.encrypted}

RoundIsFips ==
  LET words == [c \in 1 .. 4 |-> Aes!Block(job.input.text, c)]
  IN \A c \in 1 .. 4 :
       Aes!AES_ROUND(Aes!_aes_encrypt_table, words, c, words[1])
         = Aes!FipsRound(words, c, words[1])

\* nettle-aes.c: decryption inverts encryption for every size of key, the text
\* of the benchmark encrypts to what verify_benchmark expects, and a round by
\* tables is a round of FIPS 197.
AesIsFips == Answered("aes") => Inverts /\ RoundIsFips

RoundsAreFips ==
  /\ \A r \in 0 .. 7 : work.v[(r - work.i) % 8] = fips.v[r]
  /\ work.i = 64 /\ work.blocks = << >> => Sha!Updated = DIGEST

PadsMessage ==
  digested /= << >> =>
    LET text == FlattenSeq(digested[2])
        bytes == Len(digested[1])
    IN /\ \E zeros \in 0 .. BLOCK - 1 :
            text = digested[1] \o <<128>> \o Sha!Zeros(zeros) \o Sha!BigEndian(8 * bytes)
       /\ \A k \in DOMAIN digested[2] : Len(digested[2][k]) = BLOCK

\* nettle-sha256.c: renaming the registers instead of moving them, and a ring of
\* sixteen words for the schedule, are the rounds of FIPS 180-4; the digest of
\* the benchmark's message is the one it expects. Whatever the pieces of a
\* message, the blocks compressed for it are the message, the byte 0x80, zeros
\* and the length in bits, and no block more.
ShaIsFips == RoundsAreFips /\ PadsMessage
=============================================================================
