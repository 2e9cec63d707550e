---------------------------- MODULE MCAlgorithms ----------------------------
(* The constants and the test data of the programs, and small inputs.       *)
EXTENDS Algorithms, TLC

MC_W == INSTANCE BitWords WITH WIDTH <- 32

\* A word, given by its two halves.
MCWord(halves) ==
  MC_W!FromNat(halves[2]) \cup {b + 16 : b \in MC_W!FromNat(halves[1])}
MCWords(all) == [r \in 0 .. Len(all) - 1 |-> MCWord(all[r + 1])]

\* nettle-sha256.c: K, H0, the two blocks of msg as MD_PAD pads it, and hash.
MCK == MCWords(
  <<<<\h428a, \h2f98>>, <<\h7137, \h4491>>, <<\hb5c0, \hfbcf>>, <<\he9b5, \hdba5>>,
    <<\h3956, \hc25b>>, <<\h59f1, \h11f1>>, <<\h923f, \h82a4>>, <<\hab1c, \h5ed5>>,
    <<\hd807, \haa98>>, <<\h1283, \h5b01>>, <<\h2431, \h85be>>, <<\h550c, \h7dc3>>,
    <<\h72be, \h5d74>>, <<\h80de, \hb1fe>>, <<\h9bdc, \h06a7>>, <<\hc19b, \hf174>>,
    <<\he49b, \h69c1>>, <<\hefbe, \h4786>>, <<\h0fc1, \h9dc6>>, <<\h240c, \ha1cc>>,
    <<\h2de9, \h2c6f>>, <<\h4a74, \h84aa>>, <<\h5cb0, \ha9dc>>, <<\h76f9, \h88da>>,
    <<\h983e, \h5152>>, <<\ha831, \hc66d>>, <<\hb003, \h27c8>>, <<\hbf59, \h7fc7>>,
    <<\hc6e0, \h0bf3>>, <<\hd5a7, \h9147>>, <<\h06ca, \h6351>>, <<\h1429, \h2967>>,
    <<\h27b7, \h0a85>>, <<\h2e1b, \h2138>>, <<\h4d2c, \h6dfc>>, <<\h5338, \h0d13>>,
    <<\h650a, \h7354>>, <<\h766a, \h0abb>>, <<\h81c2, \hc92e>>, <<\h9272, \h2c85>>,
    <<\ha2bf, \he8a1>>, <<\ha81a, \h664b>>, <<\hc24b, \h8b70>>, <<\hc76c, \h51a3>>,
    <<\hd192, \he819>>, <<\hd699, \h0624>>, <<\hf40e, \h3585>>, <<\h106a, \ha070>>,
    <<\h19a4, \hc116>>, <<\h1e37, \h6c08>>, <<\h2748, \h774c>>, <<\h34b0, \hbcb5>>,
    <<\h391c, \h0cb3>>, <<\h4ed8, \haa4a>>, <<\h5b9c, \hca4f>>, <<\h682e, \h6ff3>>,
    <<\h748f, \h82ee>>, <<\h78a5, \h636f>>, <<\h84c8, \h7814>>, <<\h8cc7, \h0208>>,
    <<\h90be, \hfffa>>, <<\ha450, \h6ceb>>, <<\hbef9, \ha3f7>>, <<\hc671, \h78f2>>>>)
MCH0 == MCWords(
  <<<<\h6a09, \he667>>, <<\hbb67, \hae85>>, <<\h3c6e, \hf372>>, <<\ha54f, \hf53a>>,
    <<\h510e, \h527f>>, <<\h9b05, \h688c>>, <<\h1f83, \hd9ab>>, <<\h5be0, \hcd19>>>>)
MCDIGEST == MCWords(
  <<<<\h248d, \h6a61>>, <<\hd206, \h38b8>>, <<\he5c0, \h2693>>, <<\h0c3e, \h6039>>,
    <<\ha33c, \he459>>, <<\h64ff, \h2167>>, <<\hf6ec, \hedd4>>, <<\h19db, \h06c1>>>>)
MCBLOCKS == <<
  [t \in 1 .. 16 |-> MCWord(
    <<<<\h6162, \h6364>>, <<\h6263, \h6465>>, <<\h6364, \h6566>>, <<\h6465, \h6667>>,
      <<\h6566, \h6768>>, <<\h6667, \h6869>>, <<\h6768, \h696a>>, <<\h6869, \h6a6b>>,
      <<\h696a, \h6b6c>>, <<\h6a6b, \h6c6d>>, <<\h6b6c, \h6d6e>>, <<\h6c6d, \h6e6f>>,
      <<\h6d6e, \h6f70>>, <<\h6e6f, \h7071>>, <<\h8000, \h0000>>, <<\h0000, \h0000>>>>[t])],
  [t \in 1 .. 16 |-> MCWord(
    <<<<\h0000, \h0000>>, <<\h0000, \h0000>>, <<\h0000, \h0000>>, <<\h0000, \h0000>>,
      <<\h0000, \h0000>>, <<\h0000, \h0000>>, <<\h0000, \h0000>>, <<\h0000, \h0000>>,
      <<\h0000, \h0000>>, <<\h0000, \h0000>>, <<\h0000, \h0000>>, <<\h0000, \h0000>>,
      <<\h0000, \h0000>>, <<\h0000, \h0000>>, <<\h0000, \h0000>>, <<\h0000, \h01c0>>>>[t])] >>

\* All words of four bits, the modulus odd and above the factors.
MCMontgomery == Mont!Inputs

\* All texts of up to five of four characters, and all frequencies up to four.
MCRun(c, n) == [k \in 1 .. n |-> c]
MCTexts ==
  UNION {[1 .. n -> 0 .. 3] : n \in 0 .. 5} \cup
  {MCRun(0, often[1]) \o MCRun(1, often[2]) \o MCRun(2, often[3]) \o MCRun(3, often[4]) :
     often \in [1 .. 4 -> 0 .. 4]}

\* nettle-aes.c: key, and the first two blocks of plaintext and of expected.
MCKey == <<201, 149, 85, 49, 166, 80, 209, 84, 123, 216, 197, 170, 164, 164,
           189, 172, 92, 234, 18, 199, 248, 131, 214, 184, 93, 214, 207, 45,
           96, 200, 165, 240>>
MCPlain == <<215, 127, 179, 140, 34, 37, 196, 111, 185, 213, 201, 24, 192,
             146, 208, 8, 133, 42, 243, 104, 189, 132, 175, 242, 12, 139, 245,
             30, 81, 112, 70, 112>>
MCExpected == <<15, 23, 0, 16, 7, 130, 127, 249, 69, 218, 21, 14, 84, 148,
                143, 34, 116, 159, 3, 205, 88, 26, 178, 107, 154, 104, 5, 231,
                203, 31, 117, 173>>
MCCounting == [b \in 1 .. 16 |-> 15 * b]
MCCiphers ==
  {[key |-> MCKey, text |-> MCPlain, expected |-> MCExpected]}
    \cup {[key |-> SubSeq(MCKey, 1, size), text |-> text, expected |-> << >>] :
            size \in {16, 20, 24, 32}, text \in {MCPlain, MCCounting}}

\* Strings of lengths around a page and around the longest that is allowed.
MCStrings == {<< >>, <<1>>, <<2, 1>>, <<1, 2, 1, 2>>, <<1, 1, 1, 1, 1>>}
MCVectors == UNION {[1 .. n -> MCStrings] : n \in 0 .. 2}
\* Four empty ones, each of which may be without its NUL when it is copied, are
\* more than there are NULs behind them.
MCEmpty(n) == [k \in 1 .. n |-> << >>]
MCArgCalls ==
  [filename : {<<1>>, <<2, 2, 2>>}, argv : MCVectors \cup {MCEmpty(5)},
   envp : UNION {[1 .. n -> MCStrings \ {<<2, 1>>}] : n \in 0 .. 1},
   rlim : {16, 64, 96}, stack_top : {8, 28, 36}]
    \cup [filename : {<<1>>}, argv : {MCEmpty(4)}, envp : {<< >>}, rlim : {64}, stack_top : {28}]

\* main of two blocks, g of two, and a function of the runtime that branches.
MCCalls == {CallTo("g"), CallTo("lib"), CallPointer("g"), CallTo("cflat_finalize_and_print")}
MCBodies == {<< >>, <<Plain>>} \cup {<<call>> : call \in MCCalls}
MCBranches == {Branch(<<2>>), Branch(<<1, 2>>)}
MCPassPrograms ==
  {("main" :> <<Append(first, branch), Append(second, ending)>>)
     @@ ("g" :> <<Append(body, middle), <<Plain, Ret>> >>)
     @@ ("cflat_finalize_and_print" :> << <<Plain, Branch(<<2>>)>>, <<Ret>> >>) :
     first \in MCBodies \cup {<<CallTo("g"), CallTo("g")>>},
     branch \in MCBranches, second \in MCBodies, ending \in {Ret, Unreachable},
     body \in {<< >>} \cup {<<call>> : call \in MCCalls \ {CallTo("lib")}},
     middle \in MCBranches \cup {Ret}}
=============================================================================
