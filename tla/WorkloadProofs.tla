--------------------------- MODULE WorkloadProofs ---------------------------
(***************************************************************************)
(* Theorems about the programs that the attestation is tried on: about     *)
(* ArgStack, the argument pages of exec.c, SglibArrays, what sglib.h keeps *)
(* in arrays, DlList, its double linked list, and Crc32.                   *)
(***************************************************************************)
EXTENDS ArgStack, DlList, Crc32, SequenceTheorems, FiniteSetTheorems, FunctionTheorems,
        WellFoundedInduction, TLAPS

LEMMA Least ==
  ASSUME NEW T, T \subseteq Nat, T # {}
  PROVE  \E x \in T : \A y \in T : x <= y
  <1>. DEFINE R == {ss \in Nat \X Nat : ss[1] < ss[2]}
  <1>1. IsWellFoundedOn(R, Nat)
    BY NatLessThanWellFounded, Zenon DEF OpToRel
  <1>2. ASSUME NEW x \in Nat, NEW y \in Nat, x < y
        PROVE  <<x, y>> \in R
    <2>. DEFINE pair == <<x, y>>
    <2>1. pair[1] = x /\ pair[2] = y /\ pair \in Nat \X Nat
      OBVIOUS
    <2>. HIDE DEF pair
    <2>2. pair \in R
      BY <1>2, <2>1
    <2>. QED  BY <2>2 DEF pair
  <1>. HIDE DEF R
  <1>3. PICK x \in T : \A y \in T : ~ (<<y, x>> \in R)
    BY <1>1, WFMin, Zenon
  <1>4. ASSUME NEW y \in T PROVE x <= y
    <2>1. ~ (y < x)
      BY <1>2, <1>3
    <2>. QED  BY <2>1
  <1>. QED  BY <1>4

-----------------------------------------------------------------------------
(* ArgStack: the invariant.                                                *)

\* All strings, from the lowest address up: the last one copied comes first.
Strings == ArgumentsGiven \o args.envp \o <<args.filename>>

\* How far the area has moved down; what was copied to an address is there now.
Shift == STACK_TOP_MAX - vm_end
CopiedTo(k, b) == stack[placed[k].at - Shift + b - 1] = placed[k].bytes[b]
Copied(k) == \A b \in 1 .. Len(placed[k].bytes) : CopiedTo(k, b)
EndOf(k) == placed[k].at + Len(placed[k].bytes)
\* The string at place k among those that were copied.
StringOf(k) == Strings[Len(Strings) - Len(placed) + k]

TypeOK ==
  /\ args \in ArgCalls
  /\ stage \in {"count", "copy", "loaded", "placed", "failed"}
  /\ left \in Seq(Nat) /\ faithful \in BOOLEAN
  /\ {p, pos, argmin, argc, exec, vm_start, vm_end} \subseteq Int
  /\ stack \in [0 .. STACK_TOP_MAX - 1 -> Nat]
  /\ placed \in Seq([at : Int, bytes : Seq(Nat)])

CountOK ==
  stage = "count" =>
    /\ p = STACK_TOP_MAX - PTR_SIZE /\ vm_end = STACK_TOP_MAX
    /\ vm_start = STACK_TOP_MAX - PAGE_SIZE
    /\ placed = << >> /\ left = << >> /\ todo = << >> /\ exec = UNSET /\ faithful

LimitOK ==
  stage \in {"copy", "loaded"} =>
    /\ vm_end = STACK_TOP_MAX
    /\ argmin = STACK_TOP_MAX - PTR_SIZE - Room
    /\ argmin >= 0 /\ p >= argmin

ArgcOK ==
  /\ stage = "copy" => argc = Len(args.argv)
  /\ stage \in {"loaded", "placed"} => argc \in 0 .. Len(ArgumentsGiven)

TodoOK ==
  /\ stage = "copy" => /\ Len(placed) <= Len(CopyOrder)
                       /\ todo = SubSeq(CopyOrder, Len(placed) + 1, Len(CopyOrder))
  /\ stage \in {"loaded", "placed"} => Len(placed) = Len(CopyOrder) /\ left = << >>

\* The strings that were copied lie one above the other, below the pointer's room.
PlacedOK ==
  stage \in {"copy", "loaded", "placed"} =>
    /\ \A k \in 1 .. Len(placed) :
         /\ Len(placed[k].bytes) = Len(StringOf(k)) + 1
         /\ faithful => placed[k].bytes = Append(StringOf(k), NUL)
         /\ placed[k].at >= 0 /\ EndOf(k) <= STACK_TOP_MAX - PTR_SIZE
         /\ k > 1 => EndOf(1) <= placed[k].at
         /\ k < Len(placed) => EndOf(k) = placed[k + 1].at
    /\ exec = IF placed = << >> THEN UNSET ELSE placed[Len(placed)].at - Shift

MemoryOK ==
  stage \in {"copy", "loaded", "placed"} =>
    \A k \in (IF left = << >> THEN 1 ELSE 2) .. Len(placed) :
      /\ Copied(k)
      /\ stage # "placed" => vm_start <= placed[k].at

\* The string that is being copied is there behind pos.
PieceOK ==
  stage = "copy" /\ left # << >> =>
    /\ placed # << >>
    /\ Len(left) <= Len(placed[1].bytes)
    /\ left = SubSeq(placed[1].bytes, 1, Len(left))
    /\ pos = placed[1].at + Len(left)
    /\ vm_start <= pos
    /\ \A b \in Len(left) + 1 .. Len(placed[1].bytes) : CopiedTo(1, b)

FrontOK ==
  /\ stage = "copy" =>
       p = IF placed = << >> THEN STACK_TOP_MAX - PTR_SIZE ELSE placed[1].at
  /\ stage \in {"loaded", "placed"} /\ faithful =>
       p = placed[Len(ArgumentsGiven) - argc + 1].at - Shift

AreaOK ==
  /\ stage # "failed" => vm_start <= STACK_TOP_MAX - PTR_SIZE /\ vm_end <= STACK_TOP_MAX
  /\ stage = "placed" => \A k \in 1 .. Len(placed) : placed[k].at - Shift >= 0

ArgInv ==
  TypeOK /\ CountOK /\ LimitOK /\ ArgcOK /\ TodoOK /\ PlacedOK /\ MemoryOK /\ PieceOK
    /\ FrontOK /\ AreaOK

-----------------------------------------------------------------------------
(* Pages and strings.                                                      *)

LEMMA PageOfParts ==
  ASSUME NEW q \in Int, NEW r \in 0 .. PAGE_SIZE - 1
  PROVE  PageOf(q * PAGE_SIZE + r) = q * PAGE_SIZE
  <1>1. PAGE_SIZE \in Nat \ {0}
    BY ArgAssumption
  <1>2. (q * PAGE_SIZE + r) % PAGE_SIZE = r
    BY <1>1
  <1>. QED  BY <1>1, <1>2 DEF PageOf

\* All of a piece is in one page.
LEMMA PieceInPage ==
  ASSUME NEW e \in Int, NEW n \in Int, n >= 1,
         n <= IF e % PAGE_SIZE = 0 THEN PAGE_SIZE ELSE e % PAGE_SIZE
  PROVE  PageOf(e - n) \in Int /\ PageOf(e - n) <= e - n
         /\ \A a \in e - n .. e - 1 : PageOf(a) = PageOf(e - n)
  <1>. DEFINE q == IF e % PAGE_SIZE = 0 THEN e \div PAGE_SIZE - 1 ELSE e \div PAGE_SIZE
              b == q * PAGE_SIZE
  <1>1. PAGE_SIZE \in Nat \ {0}
    BY ArgAssumption
  <1>2. /\ e \div PAGE_SIZE \in Int /\ e % PAGE_SIZE \in 0 .. PAGE_SIZE - 1
        /\ e = (e \div PAGE_SIZE) * PAGE_SIZE + (e % PAGE_SIZE)
    BY <1>1
  <1>3. q \in Int /\ b \in Int /\ b <= e - n /\ e - 1 <= b + PAGE_SIZE - 1
    <2>1. CASE e % PAGE_SIZE = 0
      <3>1. (e \div PAGE_SIZE - 1) * PAGE_SIZE = (e \div PAGE_SIZE) * PAGE_SIZE - PAGE_SIZE
        BY <1>1, <1>2
      <3>. QED  BY <1>1, <1>2, <2>1, <3>1
    <2>2. CASE e % PAGE_SIZE # 0
      BY <1>1, <1>2, <2>2
    <2>. QED  BY <2>1, <2>2
  <1>. HIDE DEF q
  <1>4. ASSUME NEW a \in e - n .. e - 1 PROVE PageOf(a) = b
    <2>. DEFINE r == a - b
    <2>1. r \in 0 .. PAGE_SIZE - 1 /\ a = b + r
      BY <1>1, <1>3
    <2>. HIDE DEF r
    <2>2. PageOf(q * PAGE_SIZE + r) = q * PAGE_SIZE
      BY <1>3, <2>1, PageOfParts
    <2>. QED  BY <2>1, <2>2
  <1>. HIDE DEF b
  <1>5. e - n \in e - n .. e - 1
    OBVIOUS
  <1>. QED  BY <1>3, <1>4, <1>5

LEMMA CutAgain ==
  ASSUME NEW T, NEW s \in Seq(T), NEW l \in 0 .. Len(s), NEW m \in 0 .. l
  PROVE  /\ SubSeq(SubSeq(s, 1, l), 1, m) = SubSeq(s, 1, m)
         /\ Len(SubSeq(s, 1, m)) = m /\ SubSeq(s, 1, m) \in Seq(T)
         /\ \A k \in 1 .. m : SubSeq(s, 1, m)[k] = s[k]
  <1>1. SubSeq(s, 1, l) \in Seq(T) /\ Len(SubSeq(s, 1, l)) = l
        /\ \A k \in 1 .. l : SubSeq(s, 1, l)[k] = s[k]
    OBVIOUS
  <1>2. SubSeq(s, 1, m) \in Seq(T) /\ Len(SubSeq(s, 1, m)) = m
        /\ \A k \in 1 .. m : SubSeq(s, 1, m)[k] = s[k]
    OBVIOUS
  <1>. DEFINE t == SubSeq(s, 1, l)
  <1>. HIDE DEF t
  <1>3. t \in Seq(T) /\ Len(t) = l /\ \A k \in 1 .. l : t[k] = s[k]
    BY <1>1 DEF t
  <1>4. SubSeq(t, 1, m) = SubSeq(s, 1, m)
    BY <1>3
  <1>. QED  BY <1>2, <1>4 DEF t

LEMMA ElementsTyped ==
  ASSUME NEW T, NEW s \in Seq(T) PROVE Len(s) \in Nat /\ \A k \in 1 .. Len(s) : s[k] \in T
  OBVIOUS

LEMMA InFront ==
  ASSUME NEW T, NEW e \in T, NEW s \in Seq(T)
  PROVE  /\ <<e>> \o s \in Seq(T) /\ Len(<<e>> \o s) = Len(s) + 1 /\ (<<e>> \o s)[1] = e
         /\ \A k \in 1 .. Len(s) : (<<e>> \o s)[k + 1] = s[k]
  OBVIOUS

LEMMA RestOf ==
  ASSUME NEW T, NEW s \in Seq(T), NEW m \in 0 .. Len(s), SubSeq(s, m + 1, Len(s)) # << >>
  PROVE  /\ m < Len(s) /\ Head(SubSeq(s, m + 1, Len(s))) = s[m + 1]
         /\ Tail(SubSeq(s, m + 1, Len(s))) = SubSeq(s, m + 2, Len(s))
  <1>1. m < Len(s)
    OBVIOUS
  <1>2. Head(SubSeq(s, m + 1, Len(s))) = s[m + 1]
    BY <1>1
  <1>3. Tail(SubSeq(s, m + 1, Len(s))) = SubSeq(s, m + 2, Len(s))
    BY <1>1
  <1>. QED  BY <1>1, <1>2, <1>3

LEMMA RestNone ==
  ASSUME NEW T, NEW s \in Seq(T), NEW m \in 0 .. Len(s), SubSeq(s, m + 1, Len(s)) = << >>
  PROVE  m = Len(s)
  OBVIOUS

InThreeParts(s, a, b, c) ==
  /\ Len(s) = Len(a) + Len(b) + Len(c)
  /\ \A k \in 1 .. Len(a) : s[k] = a[k]
  /\ \A k \in 1 .. Len(b) : s[Len(a) + k] = b[k]
  /\ \A k \in 1 .. Len(c) : s[Len(a) + Len(b) + k] = c[k]

LEMMA ThreeParts ==
  ASSUME NEW T, NEW a \in Seq(T), NEW b \in Seq(T), NEW c \in Seq(T)
  PROVE  /\ a \o b \o c \in Seq(T) /\ a \o b \o c = a \o (b \o c)
         /\ InThreeParts(a \o b \o c, a, b, c)
  BY DEF InThreeParts

LEMMA Associative ==
  ASSUME NEW T, NEW a \in Seq(T), NEW b \in Seq(T), NEW c \in Seq(T)
  PROVE  a \o b \o c = a \o (b \o c)
  BY ThreeParts

LEMMA ArgsTyped ==
  ASSUME args \in ArgCalls
  PROVE  /\ args.filename \in String /\ args.argv \in Seq(String) /\ args.envp \in Seq(String)
         /\ args.rlim \in Nat /\ args.stack_top \in 0 .. STACK_TOP_MAX
         /\ Limit(args.rlim) \in Nat /\ PTR_SIZE + Limit(args.rlim) <= STACK_TOP_MAX
         /\ PTR_SIZE \in 1 .. PAGE_SIZE /\ PAGE_SIZE \in Nat /\ STACK_TOP_MAX \in Nat
         /\ MMAP_MIN_ADDR \in Nat
  <1>1. args \in [filename : String, argv : Seq(String), envp : Seq(String),
                  rlim : Nat, stack_top : 0 .. STACK_TOP_MAX]
    BY ArgAssumption
  <1>2. {STACK_TOP_MAX, MMAP_MIN_ADDR, STK_LIM, ARG_MAX} \subseteq Nat
        /\ PTR_SIZE \in 1 .. PAGE_SIZE /\ PAGE_SIZE \in Nat
    BY ArgAssumption
  <1>3. PTR_SIZE + Limit(args.rlim) <= STACK_TOP_MAX
    BY ArgAssumption
  <1>4. (STK_LIM \div 4) * 3 \in Nat /\ args.rlim \div 4 \in Nat
    BY <1>1, <1>2
  <1>5. Limit(args.rlim) \in Nat
    BY <1>2, <1>4 DEF Limit, Larger, Smaller
  <1>. QED  BY <1>1, <1>2, <1>3, <1>5

LEMMA StringsTyped ==
  ASSUME args \in ArgCalls
  PROVE  /\ ArgumentsGiven \in Seq(String) /\ Strings \in Seq(String)
         /\ Len(ArgumentsGiven) = Larger(Len(args.argv), 1)
         /\ Len(Strings) = Len(ArgumentsGiven) + Len(args.envp) + 1
         /\ \A k \in 1 .. Len(ArgumentsGiven) : Strings[k] = ArgumentsGiven[k]
         /\ \A k \in 1 .. Len(args.envp) : Strings[Len(ArgumentsGiven) + k] = args.envp[k]
         /\ Strings[Len(Strings)] = args.filename
  <1>1. args.filename \in String /\ args.argv \in Seq(String) /\ args.envp \in Seq(String)
    BY ArgsTyped
  <1>2. << >> \in String
    BY DEF String
  <1>3. ArgumentsGiven \in Seq(String)
    BY <1>1, <1>2 DEF ArgumentsGiven
  <1>4. Len(ArgumentsGiven) = Larger(Len(args.argv), 1)
    <2>1. CASE args.argv = << >>
      BY <2>1 DEF ArgumentsGiven, Larger
    <2>2. CASE args.argv # << >>
      <3>1. Len(args.argv) >= 1 /\ Len(args.argv) \in Nat
        BY <1>1, <2>2
      <3>. QED  BY <2>2, <3>1 DEF ArgumentsGiven, Larger
    <2>. QED  BY <2>1, <2>2
  <1>5. <<args.filename>> \in Seq(String) /\ Len(<<args.filename>>) = 1
        /\ <<args.filename>>[1] = args.filename
    BY <1>1
  <1>. DEFINE a == ArgumentsGiven
              b == args.envp
              c == <<args.filename>>
  <1>6. Strings = a \o b \o c
    BY DEF Strings
  <1>7. /\ a \in Seq(String) /\ b \in Seq(String) /\ c \in Seq(String)
        /\ Len(c) = 1 /\ c[1] = args.filename
    BY <1>1, <1>3, <1>5
  <1>. HIDE DEF a, b, c
  <1>8. /\ Strings \in Seq(String) /\ Len(Strings) = Len(a) + Len(b) + 1
        /\ \A k \in 1 .. Len(a) : Strings[k] = a[k]
        /\ \A k \in 1 .. Len(b) : Strings[Len(a) + k] = b[k]
        /\ Strings[Len(a) + Len(b) + 1] = args.filename
    <2>1. Strings \in Seq(String) /\ InThreeParts(Strings, a, b, c)
      BY <1>6, <1>7, ThreeParts
    <2>2. Strings[Len(a) + Len(b) + 1] = c[1]
      BY <1>7, <2>1 DEF InThreeParts
    <2>. QED  BY <1>7, <2>1, <2>2 DEF InThreeParts
  <1>. QED  BY <1>3, <1>4, <1>8 DEF a, b

\* The strings are copied from the last one to the first, each with its NUL.
LEMMA CopyOrderIs ==
  ASSUME args \in ArgCalls
  PROVE  /\ CopyOrder \in Seq([bytes : Seq(Nat), user : BOOLEAN])
         /\ Len(CopyOrder) = Len(Strings)
         /\ \A k \in 1 .. Len(Strings) :
              CopyOrder[k].bytes = Append(Strings[Len(Strings) + 1 - k], NUL)
  <1>. DEFINE T == [bytes : Seq(Nat), user : BOOLEAN]
              E == Reverse(ByUser(args.envp))
              A == Reverse(ByUser(args.argv))
              F == ByKernel(args.filename)
              Z == IF args.argv = << >> THEN ByKernel(<< >>) ELSE << >>
  <1>1. args.filename \in String /\ args.argv \in Seq(String) /\ args.envp \in Seq(String)
    BY ArgsTyped
  <1>2. ASSUME NEW s \in String PROVE Append(s, NUL) \in Seq(Nat)
    BY DEF String, NUL
  <1>3. ASSUME NEW v \in Seq(String)
        PROVE  /\ Reverse(ByUser(v)) \in Seq(T)
               /\ Len(Reverse(ByUser(v))) = Len(v)
               /\ \A k \in 1 .. Len(v) :
                    Reverse(ByUser(v))[k].bytes = Append(v[Len(v) + 1 - k], NUL)
    <2>1. \A k \in 1 .. Len(v) : [bytes |-> Append(v[k], NUL), user |-> TRUE] \in T
      BY <1>2
    <2>2. ByUser(v) \in Seq(T) /\ Len(ByUser(v)) = Len(v)
          /\ \A k \in 1 .. Len(v) : ByUser(v)[k].bytes = Append(v[k], NUL)
      BY <2>1 DEF ByUser
    <2>. HIDE DEF T
    <2>. QED  BY <2>2 DEF Reverse
  <1>4. ASSUME NEW s \in String
        PROVE  ByKernel(s) \in Seq(T) /\ Len(ByKernel(s)) = 1
               /\ ByKernel(s)[1].bytes = Append(s, NUL)
    BY <1>2 DEF ByKernel
  <1>5. E \in Seq(T) /\ Len(E) = Len(args.envp)
        /\ \A k \in 1 .. Len(args.envp) : E[k].bytes = Append(args.envp[Len(args.envp) + 1 - k], NUL)
    BY <1>1, <1>3
  <1>6. A \in Seq(T) /\ Len(A) = Len(args.argv)
        /\ \A k \in 1 .. Len(args.argv) : A[k].bytes = Append(args.argv[Len(args.argv) + 1 - k], NUL)
    BY <1>1, <1>3
  <1>7. << >> \in String
    BY DEF String
  <1>8. /\ A \o Z \in Seq(T) /\ Len(A \o Z) = Len(ArgumentsGiven)
        /\ \A k \in 1 .. Len(ArgumentsGiven) :
             (A \o Z)[k].bytes = Append(ArgumentsGiven[Len(ArgumentsGiven) + 1 - k], NUL)
    <2>1. CASE args.argv = << >>
      <3>1. A = << >> /\ Z = ByKernel(<< >>)
        BY <1>6, <2>1
      <3>2. A \o Z = ByKernel(<< >>)
        <4>1. ByKernel(<< >>) \in Seq(T)
          BY <1>4, <1>7
        <4>. HIDE DEF A, Z
        <4>. QED  BY <3>1, <4>1
      <3>3. ArgumentsGiven = << << >> >> /\ Len(ArgumentsGiven) = 1 /\ ArgumentsGiven[1] = << >>
        BY <2>1 DEF ArgumentsGiven
      <3>. HIDE DEF T, A, Z
      <3>. QED  BY <1>4, <1>7, <3>2, <3>3
    <2>2. CASE args.argv # << >>
      <3>1. Z = << >>
        BY <2>2
      <3>. HIDE DEF A, Z, T
      <3>2. A \o Z = A
        BY <1>6, <3>1
      <3>. QED  BY <1>6, <2>2, <3>2 DEF ArgumentsGiven
    <2>. QED  BY <2>1, <2>2
  <1>9. CopyOrder = F \o E \o A \o Z
    BY DEF CopyOrder
  <1>10. F \in Seq(T) /\ Len(F) = 1 /\ F[1].bytes = Append(args.filename, NUL)
    BY <1>1, <1>4
  <1>11. Z \in Seq(T)
    BY <1>4, <1>7
  <1>. HIDE DEF T, E, A, F, Z
  <1>. DEFINE AZ == A \o Z
  <1>12. CopyOrder = F \o E \o AZ /\ F \o E \in Seq(T)
    <2>1. F \o E \in Seq(T)
      BY <1>5, <1>10
    <2>2. F \o E \o A \o Z = F \o E \o (A \o Z)
      <3>. DEFINE FE == F \o E
      <3>. HIDE DEF FE
      <3>1. FE \in Seq(T) /\ A \in Seq(T) /\ Z \in Seq(T)
        BY <1>6, <1>11, <2>1 DEF FE
      <3>2. FE \o A \o Z = FE \o (A \o Z)
        BY <3>1, Associative
      <3>. QED  BY <3>2 DEF FE
    <2>. QED  BY <1>9, <2>1, <2>2
  <1>13. /\ AZ \in Seq(T) /\ Len(AZ) = Len(ArgumentsGiven)
         /\ \A k \in 1 .. Len(ArgumentsGiven) :
              AZ[k].bytes = Append(ArgumentsGiven[Len(ArgumentsGiven) + 1 - k], NUL)
    BY <1>8
  <1>. HIDE DEF AZ
  <1>. DEFINE m == Len(args.envp)
              n == Len(ArgumentsGiven)
  <1>14. m \in Nat /\ n \in Nat /\ Len(Strings) = n + m + 1 /\ Len(E) = m
    BY <1>1, <1>5, StringsTyped
  <1>15. /\ CopyOrder \in Seq(T) /\ Len(CopyOrder) = 1 + m + n
         /\ CopyOrder[1] = F[1]
         /\ \A k \in 1 .. m : CopyOrder[1 + k] = E[k]
         /\ \A k \in 1 .. n : CopyOrder[1 + m + k] = AZ[k]
    <2>1. CopyOrder \in Seq(T) /\ InThreeParts(CopyOrder, F, E, AZ)
      BY <1>5, <1>10, <1>12, <1>13, ThreeParts
    <2>2. Len(F) = 1 /\ Len(E) = m /\ Len(AZ) = n
      BY <1>10, <1>13, <1>14
    <2>3. CopyOrder[1] = F[1]
      BY <2>1, <2>2 DEF InThreeParts
    <2>. QED  BY <2>1, <2>2, <2>3 DEF InThreeParts
  <1>16. /\ \A k \in 1 .. n : Strings[k] = ArgumentsGiven[k]
         /\ \A k \in 1 .. m : Strings[n + k] = args.envp[k]
         /\ Strings[n + m + 1] = args.filename
    BY <1>14, StringsTyped
  <1>17. /\ \A k \in 1 .. m : E[k].bytes = Append(args.envp[m + 1 - k], NUL)
         /\ \A k \in 1 .. n : AZ[k].bytes = Append(ArgumentsGiven[n + 1 - k], NUL)
    BY <1>5, <1>13
  <1>. HIDE DEF m, n
  <1>18. ASSUME NEW k \in 1 .. 1 + m + n
         PROVE  CopyOrder[k].bytes = Append(Strings[n + m + 2 - k], NUL)
    <2>1. CASE k = 1
      BY <1>10, <1>14, <1>15, <1>16, <2>1
    <2>2. CASE k \in 2 .. 1 + m
      <3>1. k - 1 \in 1 .. m /\ k = 1 + (k - 1) /\ n + m + 2 - k = n + (m + 1 - (k - 1))
            /\ m + 1 - (k - 1) \in 1 .. m
        BY <1>14, <2>2
      <3>2. CopyOrder[k] = E[k - 1] /\ Strings[n + m + 2 - k] = args.envp[m + 1 - (k - 1)]
        BY <1>15, <1>16, <3>1, Zenon
      <3>. QED  BY <1>17, <3>1, <3>2
    <2>3. CASE k \in 2 + m .. 1 + m + n
      <3>1. k - 1 - m \in 1 .. n /\ k = 1 + m + (k - 1 - m) /\ n + m + 2 - k = n + 1 - (k - 1 - m)
            /\ n + m + 2 - k \in 1 .. n
        BY <1>14, <2>3
      <3>2. CopyOrder[k] = AZ[k - 1 - m]
        BY <1>15, <3>1, Zenon
      <3>3. Strings[n + m + 2 - k] = ArgumentsGiven[n + 1 - (k - 1 - m)]
        BY <1>16, <3>1, Zenon
      <3>. QED  BY <1>17, <3>1, <3>2, <3>3
    <2>. QED  BY <1>14, <2>1, <2>2, <2>3
  <1>19. Len(CopyOrder) = Len(Strings)
    BY <1>14, <1>15
  <1>20. ASSUME NEW k \in 1 .. Len(Strings)
         PROVE  CopyOrder[k].bytes = Append(Strings[Len(Strings) + 1 - k], NUL)
    <2>1. k \in 1 .. 1 + m + n /\ Len(Strings) + 1 - k = n + m + 2 - k
      BY <1>14
    <2>. QED  BY <1>18, <2>1
  <1>. QED  BY <1>15, <1>19, <1>20 DEF T

-----------------------------------------------------------------------------
(* One step.                                                               *)

LEMMA RoomTyped ==
  ASSUME args \in ArgCalls
  PROVE  Room \in Int /\ Room <= Limit(args.rlim)
         /\ STACK_TOP_MAX - PTR_SIZE - Room \in Nat
  <1>. DEFINE n == Larger(Len(args.argv), 1) + Len(args.envp)
  <1>1. n \in Nat /\ Limit(args.rlim) \in Nat /\ PTR_SIZE \in Nat /\ STACK_TOP_MAX \in Nat
        /\ PTR_SIZE + Limit(args.rlim) <= STACK_TOP_MAX
    <2>1. Len(args.argv) \in Nat /\ Len(args.envp) \in Nat
      BY ArgsTyped
    <2>2. Larger(Len(args.argv), 1) \in Nat
      BY <2>1 DEF Larger
    <2>3. n \in Nat
      <3>. DEFINE l == Larger(Len(args.argv), 1)
                  m == Len(args.envp)
      <3>1. l \in Nat /\ m \in Nat
        BY <2>1, <2>2
      <3>. HIDE DEF l, m
      <3>2. l + m \in Nat
        BY <3>1
      <3>. QED  BY <3>2 DEF l, m
    <2>. HIDE DEF n
    <2>. QED  BY <2>3, ArgsTyped
  <1>2. Room = Limit(args.rlim) - n * PTR_SIZE
    BY DEF Room
  <1>. HIDE DEF n
  <1>3. n * PTR_SIZE \in Nat
    BY <1>1
  <1>. QED  BY <1>1, <1>2, <1>3

LEMMA SameCall ==
  ASSUME args' = args
  PROVE  Strings' = Strings /\ Room' = Room /\ CopyOrder' = CopyOrder
         /\ ArgumentsGiven' = ArgumentsGiven
  BY DEF Strings, Room, CopyOrder, ArgumentsGiven

\* Nothing is claimed of a call that failed but its types.
LEMMA FailedStep ==
  ASSUME TypeOK', stage' = "failed" PROVE ArgInv'
  BY DEF ArgInv, CountOK, LimitOK, ArgcOK, TodoOK, PlacedOK, MemoryOK, PieceOK, FrontOK, AreaOK

LEMMA StackLimitsStep ==
  ASSUME ArgInv, StackLimits PROVE ArgInv'
  <1>1. TypeOK /\ stage = "count" /\ args' = args
    BY DEF StackLimits, ArgInv
  <1>2. Room \in Int /\ Room <= Limit(args.rlim) /\ STACK_TOP_MAX - PTR_SIZE - Room \in Nat
    BY <1>1, RoomTyped DEF TypeOK
  <1>3. args.argv \in Seq(String) /\ STACK_TOP_MAX \in Nat /\ PTR_SIZE \in 1 .. PAGE_SIZE /\ PAGE_SIZE \in Nat
    BY <1>1, ArgsTyped DEF TypeOK
  <1>4. TypeOK'
    <2>1. p \in Int /\ argc \in Int /\ argmin \in Int
      BY <1>1 DEF TypeOK
    <2>2. Len(args.argv) \in Int /\ p - Room \in Int
      BY <1>2, <1>3, <2>1
    <2>3. argc' \in Int /\ argmin' \in Int /\ stage' \in {"copy", "failed"}
      BY <2>1, <2>2 DEF StackLimits
    <2>4. UNCHANGED <<args, left, pos, p, exec, vm_start, vm_end, stack, placed, faithful>>
      BY DEF StackLimits
    <2>. QED  BY <1>1, <2>3, <2>4 DEF TypeOK
  <1>5. CASE stage' = "failed"
    BY <1>4, <1>5, FailedStep
  <1>6. CASE stage' # "failed"
    <2>1. /\ stage' = "copy" /\ argc' = Len(args.argv) /\ argmin' = p - Room /\ Room > 0
          /\ todo' = CopyOrder
          /\ UNCHANGED <<args, left, pos, p, exec, vm_start, vm_end, stack, placed, faithful>>
      BY <1>6 DEF StackLimits
    <2>2. /\ p = STACK_TOP_MAX - PTR_SIZE /\ vm_end = STACK_TOP_MAX
          /\ vm_start = STACK_TOP_MAX - PAGE_SIZE
          /\ placed = << >> /\ left = << >> /\ exec = UNSET
      BY <1>1 DEF ArgInv, CountOK
    <2>3. CopyOrder \in Seq([bytes : Seq(Nat), user : BOOLEAN])
      BY <1>1, CopyOrderIs DEF TypeOK
    <2>4. Room' = Room /\ CopyOrder' = CopyOrder
      BY <1>1, SameCall
    <2>5. LimitOK'
      BY <1>2, <1>3, <2>1, <2>2, <2>4 DEF LimitOK
    <2>6. TodoOK'
      BY <2>1, <2>2, <2>3, <2>4 DEF TodoOK
    <2>7. PlacedOK' /\ MemoryOK' /\ PieceOK' /\ FrontOK'
      BY <2>1, <2>2 DEF PlacedOK, MemoryOK, PieceOK, FrontOK
    <2>8. AreaOK'
      BY <1>3, <2>1, <2>2 DEF AreaOK
    <2>. QED  BY <1>4, <2>1, <2>5, <2>6, <2>7, <2>8 DEF ArgInv, CountOK, ArgcOK
  <1>. QED  BY <1>5, <1>6

LEMMA CopyStringStep ==
  ASSUME ArgInv, NEW bytes, todo # << >>,
         bytes \in {Head(todo).bytes} \cup Rewritten(Head(todo).bytes), CopyString(bytes)
  PROVE  ArgInv'
  <1>. DEFINE N == Len(Strings)
              L == Len(placed)
              one == [at |-> p - Len(bytes), bytes |-> bytes]
  <1>1. TypeOK /\ stage = "copy" /\ left = << >> /\ args' = args
    BY DEF CopyString, ArgInv, layoutVars
  <1>2. /\ CopyOrder \in Seq([bytes : Seq(Nat), user : BOOLEAN]) /\ Len(CopyOrder) = N
        /\ \A k \in 1 .. N : CopyOrder[k].bytes = Append(Strings[N + 1 - k], NUL)
    BY <1>1, CopyOrderIs DEF TypeOK
  <1>3. Strings \in Seq(String) /\ N \in Nat /\ L \in Nat
    BY <1>1, StringsTyped DEF TypeOK
  <1>4. L <= N /\ todo = SubSeq(CopyOrder, L + 1, N)
    BY <1>1, <1>2 DEF ArgInv, TodoOK
  <1>5. L < N /\ Head(todo) = CopyOrder[L + 1] /\ Tail(todo) = SubSeq(CopyOrder, L + 2, N)
    <2>1. L \in 0 .. Len(CopyOrder) /\ todo = SubSeq(CopyOrder, L + 1, Len(CopyOrder))
      BY <1>2, <1>3, <1>4
    <2>. QED  BY <1>2, <2>1, RestOf
  <1>6. Head(todo).bytes = Append(Strings[N - L], NUL) /\ Strings[N - L] \in String
        /\ Head(todo).bytes \in Seq(Nat)
    <2>1. CopyOrder[L + 1].bytes = Append(Strings[N + 1 - (L + 1)], NUL) /\ N + 1 - (L + 1) = N - L
          /\ N - L \in 1 .. N /\ CopyOrder[L + 1] \in [bytes : Seq(Nat), user : BOOLEAN]
      <3>1. L + 1 \in 1 .. N /\ N + 1 - (L + 1) = N - L /\ N - L \in 1 .. N
        BY <1>3, <1>5
      <3>2. CopyOrder[L + 1] \in [bytes : Seq(Nat), user : BOOLEAN]
        BY <1>2, <3>1, ElementsTyped
      <3>. HIDE DEF L, N
      <3>3. CopyOrder[L + 1].bytes = Append(Strings[N + 1 - (L + 1)], NUL)
        BY <1>2, <3>1, Zenon
      <3>. QED  BY <3>1, <3>2, <3>3
    <2>. QED  BY <1>3, <1>5, <2>1, SMTT(30)
  <1>7. bytes \in Seq(Nat) /\ Len(bytes) = Len(Strings[N - L]) + 1
    <2>1. Len(bytes) = Len(Head(todo).bytes)
      BY DEF CopyString
    <2>2. ASSUME NEW c \in {NUL, 1}
          PROVE  [k \in 1 .. Len(Head(todo).bytes) |-> c] \in Seq(Nat)
      BY <1>6 DEF NUL
    <2>3. bytes \in Seq(Nat)
      BY <1>6, <2>2 DEF Rewritten
    <2>4. Len(Append(Strings[N - L], NUL)) = Len(Strings[N - L]) + 1
      BY <1>6 DEF String
    <2>. QED  BY <1>6, <2>1, <2>3, <2>4
  <1>8. /\ p - Len(bytes) \in Int /\ p \in Int /\ Len(bytes) \in Nat \ {0}
        /\ STACK_TOP_MAX \in Nat /\ PTR_SIZE \in Nat /\ exec \in Int /\ argmin \in Int
        /\ PTR_SIZE <= PAGE_SIZE /\ PAGE_SIZE \in Nat /\ vm_start \in Int
    <2>1. Len(Strings[N - L]) \in Nat
      BY <1>6 DEF String
    <2>2. Len(bytes) \in Nat \ {0}
      BY <1>7, <2>1
    <2>3. /\ p \in Int /\ exec \in Int /\ argmin \in Int /\ vm_start \in Int
      BY <1>1 DEF TypeOK
    <2>4. /\ STACK_TOP_MAX \in Nat /\ PTR_SIZE \in Nat /\ PTR_SIZE <= PAGE_SIZE /\ PAGE_SIZE \in Nat
      BY <1>1, ArgsTyped DEF TypeOK
    <2>. QED  BY <2>2, <2>3, <2>4
  <1>9. one \in [at : Int, bytes : Seq(Nat)]
    BY <1>7, <1>8
  <1>. HIDE DEF one
  <1>10. /\ <<one>> \o placed \in Seq([at : Int, bytes : Seq(Nat)])
         /\ Len(<<one>> \o placed) = L + 1 /\ (<<one>> \o placed)[1] = one
         /\ \A k \in 1 .. L : (<<one>> \o placed)[k + 1] = placed[k]
    <2>1. placed \in Seq([at : Int, bytes : Seq(Nat)])
      BY <1>1 DEF TypeOK
    <2>. QED  BY <1>9, <2>1, InFront, SMTT(30)
  <1>11. TypeOK'
    BY <1>1, <1>7, <1>8, <1>10 DEF TypeOK, CopyString, layoutVars, one
  <1>12. CASE stage' = "failed"
    BY <1>11, <1>12, FailedStep
  <1>13. CASE stage' # "failed"
    <2>1. /\ stage' = "copy" /\ p' = p - Len(bytes) /\ pos' = p /\ p - Len(bytes) >= argmin
          /\ left' = bytes /\ todo' = Tail(todo)
          /\ exec' = IF exec = UNSET THEN p - Len(bytes) ELSE exec
          /\ placed' = <<one>> \o placed
          /\ faithful' = (faithful /\ bytes = Head(todo).bytes)
          /\ UNCHANGED <<args, argmin, argc, vm_end, vm_start, stack>>
      BY <1>1, <1>8, <1>13 DEF CopyString, layoutVars, one
    <2>2. Strings' = Strings /\ Room' = Room /\ CopyOrder' = CopyOrder
      BY <1>1, SameCall
    <2>3. /\ Len(placed') = L + 1 /\ placed'[1] = one
          /\ \A k \in 1 .. L : placed'[k + 1] = placed[k]
          /\ \A k \in 2 .. L + 1 : k - 1 \in 1 .. L /\ placed'[k] = placed[k - 1]
      <3>1. ASSUME NEW k \in 2 .. L + 1 PROVE k - 1 \in 1 .. L /\ placed'[k] = placed[k - 1]
        <4>1. k - 1 \in 1 .. L /\ (k - 1) + 1 = k
          BY <1>3
        <4>. QED  BY <1>10, <2>1, <4>1
      <3>. QED  BY <1>10, <2>1, <3>1
    <2>4. one.at = p - Len(bytes) /\ one.bytes = bytes
      BY DEF one
    <2>5. /\ vm_end = STACK_TOP_MAX /\ argmin = STACK_TOP_MAX - PTR_SIZE - Room
          /\ argmin >= 0 /\ p >= argmin
      BY <1>1 DEF ArgInv, LimitOK
    <2>6. LimitOK'
      BY <2>1, <2>2, <2>5 DEF LimitOK
    <2>7. ArgcOK' /\ CountOK'
      BY <1>1, <2>1 DEF ArgInv, ArgcOK, CountOK
    <2>8. TodoOK'
      <3>1. L + 1 <= N /\ L + 2 = (L + 1) + 1
        BY <1>3, <1>5
      <3>. HIDE DEF L, N
      <3>. QED  BY <1>2, <1>5, <2>1, <2>2, <2>3, <3>1 DEF TodoOK
    <2>9. Shift = 0 /\ Shift' = 0
      BY <1>8, <2>1, <2>5 DEF Shift
    <2>10. /\ \A k \in 1 .. L :
               /\ Len(placed[k].bytes) = Len(StringOf(k)) + 1
               /\ faithful => placed[k].bytes = Append(StringOf(k), NUL)
               /\ placed[k].at >= 0 /\ EndOf(k) <= STACK_TOP_MAX - PTR_SIZE
               /\ k > 1 => EndOf(1) <= placed[k].at
               /\ k < L => EndOf(k) = placed[k + 1].at
           /\ exec = IF placed = << >> THEN UNSET ELSE placed[L].at - Shift
      BY <1>1 DEF ArgInv, PlacedOK
    <2>11. p = IF placed = << >> THEN STACK_TOP_MAX - PTR_SIZE ELSE placed[1].at
      BY <1>1 DEF ArgInv, FrontOK
    <2>12. \A k \in 1 .. L : placed[k].at \in Int /\ placed[k].bytes \in Seq(Nat)
                              /\ Len(placed[k].bytes) \in Nat
      <3>1. placed \in Seq([at : Int, bytes : Seq(Nat)])
        BY <1>1 DEF TypeOK
      <3>2. \A k \in 1 .. L : placed[k] \in [at : Int, bytes : Seq(Nat)]
        BY <3>1, ElementsTyped
      <3>. QED  BY <3>2
    <2>13. (L = 0) = (placed = << >>)
      BY <1>1 DEF TypeOK
    <2>14. \A k \in 1 .. L : p <= placed[k].at /\ placed[k].at <= STACK_TOP_MAX - PTR_SIZE
      <3>. SUFFICES ASSUME NEW k \in 1 .. L
                    PROVE  p <= placed[k].at /\ placed[k].at <= STACK_TOP_MAX - PTR_SIZE
        OBVIOUS
      <3>1. L >= 1 /\ p = placed[1].at /\ 1 \in 1 .. L
        BY <1>3, <2>11, <2>13
      <3>2. k > 1 => EndOf(1) <= placed[k].at
        BY <2>10
      <3>3. EndOf(k) <= STACK_TOP_MAX - PTR_SIZE
        BY <2>10
      <3>5. k = 1 \/ k > 1
        BY <1>3
      <3>. HIDE DEF L
      <3>4. /\ placed[1].at \in Int /\ Len(placed[1].bytes) \in Nat
            /\ placed[k].at \in Int /\ Len(placed[k].bytes) \in Nat
        BY <2>12, <3>1, Zenon
      <3>6. placed[k].at <= STACK_TOP_MAX - PTR_SIZE
        BY <1>8, <3>3, <3>4 DEF EndOf
      <3>7. CASE k = 1
        BY <1>8, <3>1, <3>4, <3>6, <3>7
      <3>8. CASE k > 1
        <4>1. placed[1].at + Len(placed[1].bytes) <= placed[k].at
          BY <3>2, <3>8 DEF EndOf
        <4>. QED  BY <3>1, <3>4, <3>6, <4>1
      <3>. QED  BY <3>5, <3>7, <3>8
    <2>15. EndOf(1)' = p /\ \A k \in 1 .. L : EndOf(k + 1)' = EndOf(k)
      BY <1>8, <2>3, <2>4, <1>3 DEF EndOf
    <2>16. p <= STACK_TOP_MAX - PTR_SIZE
      <3>1. CASE L = 0
        BY <1>8, <2>11, <2>13, <3>1
      <3>2. CASE L # 0
        BY <1>3, <1>8, <2>11, <2>12, <2>13, <2>14, <3>2
      <3>. QED  BY <3>1, <3>2
    <2>17. StringOf(1)' = Strings[N - L] /\ \A k \in 1 .. L : StringOf(k + 1)' = StringOf(k)
      <3>1. N - (L + 1) + 1 = N - L /\ \A k \in 1 .. L : N - (L + 1) + (k + 1) = N - L + k
        BY <1>3
      <3>. QED  BY <2>2, <2>3, <3>1 DEF StringOf
    <2>18. ASSUME NEW k \in 1 .. L + 1
           PROVE  /\ Len(placed'[k].bytes) = Len(StringOf(k)') + 1
                  /\ faithful' => placed'[k].bytes = Append(StringOf(k)', NUL)
                  /\ placed'[k].at >= 0 /\ EndOf(k)' <= STACK_TOP_MAX - PTR_SIZE
                  /\ k > 1 => EndOf(1)' <= placed'[k].at
                  /\ k < L + 1 => EndOf(k)' = placed'[k + 1].at
      <3>1. CASE k = 1
        <4>1. L >= 1 => p = placed[1].at /\ placed'[2] = placed[1]
          BY <1>3, <2>3, <2>11, <2>13
        <4>2. p - Len(bytes) >= 0
          BY <1>8, <2>1, <2>5
        <4>3. faithful' => bytes = Append(Strings[N - L], NUL)
          BY <1>6, <2>1
        <4>4. k < L + 1 => L >= 1
          BY <1>3, <3>1
        <4>. HIDE DEF L, N
        <4>5. placed'[k] = one /\ EndOf(k)' = p /\ StringOf(k)' = Strings[N - L]
          BY <2>3, <2>15, <2>17, <3>1
        <4>6. k < L + 1 => EndOf(k)' = placed'[k + 1].at
          BY <3>1, <4>1, <4>4, <4>5
        <4>. QED  BY <1>7, <2>4, <2>16, <3>1, <4>2, <4>3, <4>5, <4>6
      <3>2. CASE k > 1
        <4>1. PICK j \in 1 .. L : k = j + 1
          BY <1>3, <3>2
        <4>2. placed'[k] = placed[j] /\ EndOf(k)' = EndOf(j) /\ StringOf(k)' = StringOf(j)
          BY <2>3, <2>15, <2>17, <4>1
        <4>3. k < L + 1 => placed'[k + 1] = placed[j + 1] /\ j < L
          BY <1>3, <2>3, <4>1
        <4>. QED  BY <1>3, <1>8, <2>1, <2>10, <2>12, <2>14, <2>15, <4>1, <4>2, <4>3
      <3>. QED  BY <1>3, <3>1, <3>2
    <2>19. exec' = IF placed' = << >> THEN UNSET ELSE placed'[L + 1].at - Shift'
      <3>1. placed' # << >>
        BY <1>3, <1>11, <2>3 DEF TypeOK
      <3>2. CASE L = 0
        BY <1>8, <2>1, <2>3, <2>4, <2>9, <2>10, <2>13, <3>1, <3>2
      <3>3. CASE L # 0
        <4>1. L \in 1 .. L /\ placed'[L + 1] = placed[L] /\ exec = placed[L].at
          <5>1. L \in 1 .. L
            BY <1>3, <3>3
          <5>2. placed'[L + 1] = placed[L] /\ placed[L].at \in Int
            BY <2>3, <2>12, <5>1
          <5>3. exec = placed[L].at - Shift
            BY <2>10, <2>13, <3>3
          <5>. HIDE DEF L
          <5>. QED  BY <2>9, <5>1, <5>2, <5>3
        <4>2. exec # UNSET
          BY <1>8, <2>10, <2>12, <4>1 DEF UNSET
        <4>3. exec' = exec
          BY <2>1, <4>2
        <4>4. placed[L].at \in Int
          BY <2>12, <4>1
        <4>5. placed'[L + 1].at - Shift' = placed[L].at
          <5>. HIDE DEF L
          <5>. QED  BY <2>9, <4>1, <4>4
        <4>. HIDE DEF L
        <4>. QED  BY <3>1, <4>1, <4>3, <4>5
      <3>. QED  BY <3>2, <3>3
    <2>20. PlacedOK'
      BY <2>1, <2>3, <2>18, <2>19 DEF PlacedOK
    <2>21. \A k \in 1 .. L : Copied(k) /\ vm_start <= placed[k].at
      BY <1>1 DEF ArgInv, MemoryOK
    <2>22. MemoryOK'
      <3>1. left' # << >>
        BY <1>7, <1>8, <2>1
      <3>. SUFFICES ASSUME NEW k \in 2 .. L + 1
                    PROVE  Copied(k)' /\ vm_start' <= placed'[k].at
        BY <2>1, <2>3, <3>1 DEF MemoryOK
      <3>2. k - 1 \in 1 .. L /\ placed'[k] = placed[k - 1]
        BY <2>3
      <3>. QED  BY <2>1, <2>9, <2>21, <3>2 DEF Copied, CopiedTo
    <2>23. vm_start <= STACK_TOP_MAX - PTR_SIZE
      BY <1>1 DEF ArgInv, AreaOK
    <2>24. vm_start <= p
      <3>1. CASE L = 0
        BY <1>8, <2>11, <2>13, <2>23, <3>1
      <3>2. CASE L # 0
        BY <1>3, <1>8, <2>11, <2>12, <2>13, <2>21, <3>2
      <3>. QED  BY <3>1, <3>2
    <2>25. PieceOK'
      <3>1. placed' # << >>
        BY <1>3, <1>11, <2>3 DEF TypeOK
      <3>2. bytes = SubSeq(bytes, 1, Len(bytes))
        BY <1>7
      <3>. QED  BY <1>8, <2>1, <2>3, <2>4, <2>24, <3>1, <3>2, SMTT(30) DEF PieceOK
    <2>26. FrontOK' /\ AreaOK'
      <3>1. placed' # << >>
        BY <1>3, <1>11, <2>3 DEF TypeOK
      <3>. QED  BY <1>1, <2>1, <2>3, <2>4, <2>23, <3>1 DEF FrontOK, AreaOK, ArgInv
    <2>. QED  BY <1>11, <2>6, <2>7, <2>8, <2>20, <2>22, <2>25, <2>26 DEF ArgInv
  <1>. QED  BY <1>12, <1>13

LEMMA CopyPieceStep ==
  ASSUME ArgInv, CopyPiece PROVE ArgInv'
  <1>. DEFINE N == Len(Strings)
              L == Len(placed)
              l == Len(left)
              n == PieceLength
              from == pos - n
              A == placed[1].at
              B == placed[1].bytes
  <1>1. /\ TypeOK /\ stage = "copy" /\ left # << >>
        /\ UNCHANGED <<args, argmin, argc, vm_end, stage, todo, p, exec, placed, faithful>>
        /\ left' = SubSeq(left, 1, l - n) /\ pos' = from
        /\ vm_start' = Smaller(vm_start, PageOf(from))
        /\ stack' = [a \in DOMAIN stack |->
                       IF a \in from .. pos - 1 /\ PageOf(a) = PageOf(from)
                       THEN left[l - pos + a + 1] ELSE stack[a]]
    BY DEF CopyPiece, ArgInv, layoutVars, get_arg_page
  <1>2. /\ left \in Seq(Nat) /\ {p, pos, argmin, argc, exec, vm_start, vm_end} \subseteq Int
        /\ pos \in Int /\ vm_start \in Int
        /\ stack \in [0 .. STACK_TOP_MAX - 1 -> Nat]
        /\ placed \in Seq([at : Int, bytes : Seq(Nat)]) /\ args \in ArgCalls
    BY <1>1 DEF TypeOK
  <1>3. l \in Nat /\ l >= 1
    BY <1>1, <1>2
  <1>4. STACK_TOP_MAX \in Nat /\ PTR_SIZE \in Nat /\ PTR_SIZE >= 1 /\ PAGE_SIZE \in Nat /\ PAGE_SIZE >= 1
    BY <1>2, ArgsTyped, ArgAssumption
  <1>5. n \in 1 .. l /\ n <= IF pos % PAGE_SIZE = 0 THEN PAGE_SIZE ELSE pos % PAGE_SIZE
    <2>1. pos % PAGE_SIZE \in Nat
      BY <1>2, <1>4
    <2>. HIDE DEF l
    <2>. QED  BY <1>3, <1>4, <2>1 DEF PieceLength, Smaller, l
  <1>6. PageOf(from) \in Int /\ PageOf(from) <= from
        /\ \A a \in from .. pos - 1 : PageOf(a) = PageOf(from)
    <2>1. n \in Int /\ n >= 1 /\ pos \in Int
      BY <1>2, <1>5
    <2>. HIDE DEF n
    <2>. QED  BY <1>5, <2>1, PieceInPage
  <1>7. /\ placed # << >> /\ l <= Len(B) /\ left = SubSeq(B, 1, l) /\ pos = A + l
        /\ vm_start <= pos
        /\ \A b \in l + 1 .. Len(B) : CopiedTo(1, b)
    BY <1>1 DEF ArgInv, PieceOK
  <1>8. L \in Nat /\ 1 \in 1 .. L
    <2>1. placed \in Seq([at : Int, bytes : Seq(Nat)]) /\ placed # << >>
      BY <1>2, <1>7
    <2>2. L \in Nat /\ L # 0
      BY <2>1, LenProperties, EmptySeq
    <2>. HIDE DEF L
    <2>. QED  BY <2>2
  <1>9. \A k \in 1 .. L : placed[k].at \in Int /\ placed[k].bytes \in Seq(Nat)
                          /\ Len(placed[k].bytes) \in Nat
    <2>1. \A k \in 1 .. L : placed[k] \in [at : Int, bytes : Seq(Nat)]
      BY <1>2, ElementsTyped
    <2>. QED  BY <2>1
  <1>10. \A k \in 1 .. L : placed[k].at >= 0 /\ EndOf(k) <= STACK_TOP_MAX - PTR_SIZE
                           /\ (k > 1 => EndOf(1) <= placed[k].at)
    BY <1>1 DEF ArgInv, PlacedOK
  <1>11. vm_end = STACK_TOP_MAX /\ vm_end' = STACK_TOP_MAX /\ Shift = 0 /\ Shift' = 0
    BY <1>1, <1>4 DEF ArgInv, LimitOK, Shift
  <1>12. A \in Int /\ B \in Seq(Nat) /\ Len(B) \in Nat /\ A >= 0
         /\ A + Len(B) <= STACK_TOP_MAX - PTR_SIZE
    BY <1>8, <1>9, <1>10 DEF EndOf
  <1>13. /\ left' = SubSeq(B, 1, l - n) /\ Len(left') = l - n /\ left' \in Seq(Nat)
         /\ \A b \in 1 .. l : left[b] = B[b]
    <2>1. l \in 0 .. Len(B) /\ l - n \in 0 .. l
      BY <1>3, <1>5, <1>7, <1>12
    <2>. HIDE DEF l, n, B
    <2>. QED  BY <1>1, <1>7, <1>12, <2>1, CutAgain, SMTT(30)
  <1>. HIDE DEF l, n, A, B, L, N
  <1>14. /\ l \in Nat /\ n \in Int /\ 1 <= n /\ n <= l /\ pos = A + l /\ A \in Int /\ A >= 0
         /\ Len(B) \in Nat /\ l <= Len(B) /\ A + Len(B) <= STACK_TOP_MAX - PTR_SIZE
         /\ STACK_TOP_MAX \in Nat /\ PTR_SIZE \in Nat /\ PTR_SIZE >= 1
         /\ from = A + l - n
    BY <1>3, <1>4, <1>5, <1>7, <1>12
  <1>15. \A a \in from .. pos - 1 : l - pos + a + 1 \in 1 .. l
    BY <1>2, <1>3, <1>5
  <1>16. /\ \A a \in 0 .. STACK_TOP_MAX - 1 : a \notin from .. pos - 1 => stack'[a] = stack[a]
         /\ \A b \in l - n + 1 .. l : stack'[A + b - 1] = B[b]
    <2>1. DOMAIN stack = 0 .. STACK_TOP_MAX - 1
      BY <1>2
    <2>2. ASSUME NEW a \in 0 .. STACK_TOP_MAX - 1, a \notin from .. pos - 1
          PROVE  stack'[a] = stack[a]
      BY <1>1, <2>1, <2>2
    <2>3. ASSUME NEW b \in l - n + 1 .. l PROVE stack'[A + b - 1] = B[b]
      <3>1. /\ A + b - 1 \in from .. pos - 1 /\ A + b - 1 \in 0 .. STACK_TOP_MAX - 1
            /\ l - pos + (A + b - 1) + 1 = b /\ b \in 1 .. l
        BY <1>14
      <3>2. stack'[A + b - 1] = left[l - pos + (A + b - 1) + 1]
        BY <1>1, <1>6, <2>1, <3>1
      <3>. QED  BY <1>13, <3>1, <3>2
    <2>. QED  BY <2>2, <2>3
  <1>17. TypeOK'
    <2>1. stack' \in [0 .. STACK_TOP_MAX - 1 -> Nat]
      <3>1. ASSUME NEW a \in from .. pos - 1 PROVE left[l - pos + a + 1] \in Nat
        BY <1>2, <1>15, SMTT(30) DEF l
      <3>. QED  BY <1>1, <1>2, <3>1
    <2>2. vm_start' \in Int
      BY <1>1, <1>2, <1>6 DEF Smaller
    <2>3. pos' \in Int
      BY <1>1, <1>2, <1>5
    <2>. QED  BY <1>1, <1>2, <1>13, <2>1, <2>2, <2>3 DEF TypeOK
  <1>18. vm_start' <= vm_start /\ vm_start' <= from
    BY <1>1, <1>2, <1>5, <1>6, SMTT(30) DEF Smaller
  <1>19. Strings' = Strings /\ Room' = Room /\ CopyOrder' = CopyOrder /\ ArgumentsGiven' = ArgumentsGiven
    BY <1>1, SameCall
  <1>20. ASSUME NEW k \in 2 .. L PROVE Copied(k)' /\ vm_start' <= placed'[k].at
    <2>1. Copied(k) /\ vm_start <= placed[k].at
      BY <1>1, <1>8, <1>20 DEF ArgInv, MemoryOK, L
    <2>2. k \in 1 .. L /\ k > 1
      BY <1>8
    <2>3. /\ placed[k].at \in Int /\ Len(placed[k].bytes) \in Nat
          /\ pos <= placed[k].at /\ placed[k].at >= 0 /\ EndOf(k) <= STACK_TOP_MAX - PTR_SIZE
      <3>1. EndOf(1) = A + Len(B)
        BY DEF EndOf, A, B
      <3>2. /\ EndOf(1) <= placed[k].at /\ placed[k].at >= 0 /\ EndOf(k) <= STACK_TOP_MAX - PTR_SIZE
            /\ placed[k].at \in Int /\ Len(placed[k].bytes) \in Nat
        BY <1>9, <1>10, <2>2
      <3>. QED  BY <1>3, <1>7, <1>12, <3>1, <3>2
    <2>4. vm_start' <= placed'[k].at
      <3>1. vm_start' \in Int /\ vm_start \in Int
        BY <1>1, <1>2, <1>6 DEF Smaller
      <3>2. placed'[k].at = placed[k].at
        BY <1>1
      <3>. QED  BY <1>18, <2>1, <2>3, <3>1, <3>2
    <2>5. ASSUME NEW b \in 1 .. Len(placed[k].bytes) PROVE CopiedTo(k, b)'
      <3>1. CopiedTo(k, b)
        BY <2>1 DEF Copied
      <3>2. placed[k].at + b - 1 \in 0 .. STACK_TOP_MAX - 1 /\ placed[k].at + b - 1 \notin from .. pos - 1
            /\ placed[k].at - 0 + b - 1 = placed[k].at + b - 1
        <4>1. placed[k].at + Len(placed[k].bytes) <= STACK_TOP_MAX - PTR_SIZE
          BY <2>3 DEF EndOf
        <4>2. b \in Int /\ 1 <= b /\ b <= Len(placed[k].bytes)
          BY <2>3
        <4>3. pos \in Int
          BY <1>2
        <4>. DEFINE at == placed[k].at
                    m == Len(placed[k].bytes)
        <4>4. at \in Int /\ m \in Nat /\ pos <= at /\ at >= 0 /\ at + m <= STACK_TOP_MAX - PTR_SIZE
          BY <2>3, <4>1
        <4>5. b <= m
          BY <4>2
        <4>6. STACK_TOP_MAX \in Nat /\ PTR_SIZE \in Nat
          BY <1>14
        <4>. HIDE DEF at, m
        <4>7. at + b - 1 \in 0 .. STACK_TOP_MAX - 1 /\ at + b - 1 \notin from .. pos - 1
              /\ at - 0 + b - 1 = at + b - 1
          BY <4>2, <4>3, <4>4, <4>5, <4>6
        <4>. QED  BY <4>7 DEF at
      <3>3. stack'[placed[k].at + b - 1] = stack[placed[k].at + b - 1]
        BY <1>16, <3>2
      <3>. QED  BY <1>1, <1>11, <3>1, <3>2, <3>3 DEF CopiedTo
    <2>. QED  BY <1>1, <2>4, <2>5 DEF Copied
  <1>21. ASSUME NEW b \in l - n + 1 .. Len(B) PROVE CopiedTo(1, b)'
    <2>1. A + b - 1 \in 0 .. STACK_TOP_MAX - 1 /\ A - 0 + b - 1 = A + b - 1
      BY <1>14
    <2>2. stack'[A + b - 1] = B[b]
      <3>1. CASE b <= l
        BY <1>3, <1>5, <1>16, <3>1
      <3>2. CASE b > l
        <4>1. A + b - 1 \notin from .. pos - 1 /\ b \in l + 1 .. Len(B)
          BY <1>14, <3>2
        <4>2. stack[A + b - 1] = B[b]
          BY <1>7, <1>11, <2>1, <4>1 DEF CopiedTo, A, B
        <4>. QED  BY <1>16, <2>1, <4>1, <4>2
      <3>. QED  BY <1>14, <3>1, <3>2
    <2>. QED  BY <1>1, <1>11, <2>1, <2>2 DEF CopiedTo, A, B
  <1>22. MemoryOK'
    <2>1. CASE left' # << >>
      BY <1>1, <1>20, <2>1 DEF MemoryOK, L
    <2>2. CASE left' = << >>
      <3>1. l - n = 0 /\ from = A
        BY <1>13, <1>14, <2>2
      <3>2. Copied(1)' /\ vm_start' <= placed'[1].at
        BY <1>1, <1>18, <1>21, <3>1 DEF Copied, A, B
      <3>3. ASSUME NEW k \in 1 .. L PROVE Copied(k)' /\ vm_start' <= placed'[k].at
        BY <1>8, <1>20, <3>2
      <3>. QED  BY <1>1, <2>2, <3>3 DEF MemoryOK, L
    <2>. QED  BY <2>1, <2>2
  <1>23. PieceOK'
    <2>1. l - n <= Len(B) /\ from = A + (l - n)
      BY <1>14
    <2>. QED  BY <1>1, <1>7, <1>13, <1>18, <1>21, <2>1 DEF PieceOK, A, B
  <1>24. PlacedOK'
    <2>1. PlacedOK
      BY DEF ArgInv
    <2>. QED  BY <1>1, <1>11, <1>19, <2>1 DEF PlacedOK, EndOf, StringOf
  <1>25. CountOK' /\ LimitOK' /\ ArgcOK' /\ TodoOK'
    BY <1>1, <1>19 DEF ArgInv, CountOK, LimitOK, ArgcOK, TodoOK
  <1>26. FrontOK' /\ AreaOK'
    <2>1. vm_start' <= STACK_TOP_MAX - PTR_SIZE
      BY <1>1, <1>2, <1>4, <1>17, <1>18, SMTT(30) DEF ArgInv, AreaOK, TypeOK
    <2>. QED  BY <1>1, <2>1 DEF ArgInv, FrontOK, AreaOK
  <1>. QED  BY <1>17, <1>22, <1>23, <1>24, <1>25, <1>26 DEF ArgInv

LEMMA CopyFailsStep ==
  ASSUME ArgInv, CopyFails PROVE ArgInv'
  <1>1. TypeOK' /\ stage' = "failed"
    BY DEF ArgInv, TypeOK, CopyFails, layoutVars
  <1>. QED  BY <1>1, FailedStep

LEMMA AllCopiedStep ==
  ASSUME ArgInv, AllCopied PROVE ArgInv'
  <1>. DEFINE N == Len(Strings)
              L == Len(placed)
  <1>1. /\ TypeOK /\ stage = "copy" /\ left = << >> /\ todo = << >> /\ stage' = "loaded"
        /\ argc' = Larger(argc, 1)
        /\ UNCHANGED <<args, todo, left, pos, p, argmin, exec, vm_start, vm_end, stack, placed, faithful>>
    BY DEF AllCopied, ArgInv
  <1>2. /\ Strings \in Seq(String) /\ args.envp \in Seq(String) /\ ArgumentsGiven \in Seq(String)
        /\ Len(ArgumentsGiven) = Larger(Len(args.argv), 1)
        /\ N = Len(ArgumentsGiven) + Len(args.envp) + 1
    BY <1>1, StringsTyped, ArgsTyped DEF TypeOK
  <1>3. N \in Nat /\ L \in Nat /\ N >= 1 /\ Len(ArgumentsGiven) \in Nat
    <2>1. Len(ArgumentsGiven) \in Nat /\ Len(args.envp) \in Nat
      BY <1>2, LenProperties
    <2>2. L \in Nat
      BY <1>1, LenProperties DEF TypeOK
    <2>3. N \in Nat /\ N >= 1
      <3>. DEFINE x == Len(ArgumentsGiven)
                  y == Len(args.envp)
      <3>1. x \in Nat /\ y \in Nat /\ N = x + y + 1
        BY <1>2, <2>1
      <3>. HIDE DEF x, y, N
      <3>. QED  BY <3>1
    <2>. QED  BY <2>1, <2>2, <2>3
  <1>4. CopyOrder \in Seq([bytes : Seq(Nat), user : BOOLEAN]) /\ Len(CopyOrder) = N
    BY <1>1, CopyOrderIs DEF TypeOK
  <1>5. L = N
    <2>1. L <= N /\ SubSeq(CopyOrder, L + 1, N) = << >>
      BY <1>1, <1>4 DEF ArgInv, TodoOK
    <2>2. L \in 0 .. N
      BY <1>3, <2>1
    <2>. QED  BY <1>3, <1>4, <2>1, <2>2, RestNone
  <1>6. argc = Len(args.argv) /\ argc' = Len(ArgumentsGiven)
    BY <1>1, <1>2 DEF ArgInv, ArgcOK
  <1>7. Strings' = Strings /\ Room' = Room /\ CopyOrder' = CopyOrder /\ ArgumentsGiven' = ArgumentsGiven
    BY <1>1, SameCall
  <1>8. TypeOK'
    BY <1>1, <1>3, <1>6 DEF TypeOK
  <1>9. Shift = 0 /\ Shift' = 0
    BY <1>1, ArgsTyped DEF ArgInv, LimitOK, Shift, TypeOK
  <1>10. FrontOK'
    <2>1. placed # << >>
      BY <1>3, <1>5
    <2>2. p = placed[1].at /\ placed[1].at \in Int
      <3>1. p = placed[1].at
        BY <1>1, <2>1 DEF ArgInv, FrontOK
      <3>. QED  BY <1>1, <3>1 DEF TypeOK
    <2>3. Len(ArgumentsGiven) - argc' + 1 = 1
      BY <1>3, <1>6
    <2>. QED  BY <1>1, <1>7, <1>9, <2>2, <2>3 DEF FrontOK
  <1>11. TodoOK'
    BY <1>1, <1>4, <1>5, <1>7 DEF TodoOK
  <1>12. PlacedOK' /\ MemoryOK' /\ PieceOK'
    BY <1>1, <1>7, <1>9 DEF ArgInv, PlacedOK, MemoryOK, PieceOK, EndOf, StringOf, Copied, CopiedTo
  <1>13. CountOK' /\ LimitOK' /\ ArgcOK' /\ AreaOK'
    BY <1>1, <1>3, <1>6, <1>7 DEF ArgInv, CountOK, LimitOK, ArgcOK, AreaOK
  <1>. QED  BY <1>8, <1>10, <1>11, <1>12, <1>13 DEF ArgInv

-----------------------------------------------------------------------------
(* Where a string is found.                                                *)

\* The search ends at the first NUL.
LEMMA FirstNulIs ==
  ASSUME NEW a \in Nat, vm_end \in Int, NEW e \in a .. vm_end - 1, stack[e] = NUL,
         \A b \in a .. e - 1 : stack[b] # NUL
  PROVE  FirstNul(a) = e
  <1>. DEFINE First(f) == stack[f] = NUL /\ \A b \in a .. f - 1 : stack[b] # NUL
              f == FirstNul(a)
  <1>1. First(e)
    OBVIOUS
  <1>2. f = CHOOSE x \in a .. vm_end - 1 : First(x)
    BY DEF FirstNul
  <1>. HIDE DEF f, First
  <1>3. f \in a .. vm_end - 1 /\ First(f)
    BY <1>1, <1>2, Zenon
  <1>4. ~ (f < e)
    BY <1>3 DEF First
  <1>5. ~ (e < f)
    BY <1>1, <1>3 DEF First
  <1>. QED  BY <1>3, <1>4, <1>5 DEF f

\* Where there is a NUL, there is a first one.
LEMMA FirstNulTyped ==
  ASSUME NEW a \in Nat, vm_end \in Int, \E b \in a .. vm_end - 1 : stack[b] = NUL
  PROVE  FirstNul(a) \in a .. vm_end - 1
  <1>. DEFINE T == {b \in a .. vm_end - 1 : stack[b] = NUL}
  <1>1. T \subseteq Nat /\ T # {}
    OBVIOUS
  <1>2. PICK e \in T : \A y \in T : e <= y
    BY <1>1, Least
  <1>3. e \in a .. vm_end - 1 /\ stack[e] = NUL
    BY <1>2
  <1>4. ASSUME NEW b \in a .. e - 1 PROVE stack[b] # NUL
    <2>1. b \in a .. vm_end - 1 /\ ~ (e <= b)
      BY <1>3
    <2>. QED  BY <1>2, <2>1
  <1>. QED  BY <1>3, <1>4, FirstNulIs

\* Every string that no other thread rewrote is found where it was put.
LEMMA StringFound ==
  ASSUME ArgInv, stage \in {"loaded", "placed"}, faithful, NEW k \in 1 .. Len(Strings)
  PROVE  LET a == placed[k].at - Shift
         IN /\ a \in Int /\ FirstNul(a) = a + Len(Strings[k]) /\ StringAt(a) = Strings[k]
            /\ k < Len(Strings) => FirstNul(a) + 1 = placed[k + 1].at - Shift
  <1>. DEFINE N == Len(Strings)
              a == placed[k].at - Shift
              s == Strings[k]
              m == Len(s)
  <1>1. TypeOK /\ args \in ArgCalls /\ vm_end \in Int /\ left = << >>
        /\ stack \in [0 .. STACK_TOP_MAX - 1 -> Nat]
        /\ placed \in Seq([at : Int, bytes : Seq(Nat)])
    BY DEF ArgInv, TypeOK, TodoOK
  <1>2. Strings \in Seq(String) /\ N \in Nat
    BY <1>1, StringsTyped
  <1>3. Len(placed) = N
    BY <1>1, CopyOrderIs DEF ArgInv, TodoOK
  <1>4. k \in 1 .. Len(placed) /\ placed[k].at \in Int
    <2>1. k \in 1 .. Len(placed)
      BY <1>3
    <2>2. placed[k] \in [at : Int, bytes : Seq(Nat)]
      BY <1>1, <2>1, ElementsTyped
    <2>. QED  BY <2>1, <2>2
  <1>5. s \in String /\ m \in Nat /\ s = [b \in 1 .. m |-> s[b]]
        /\ \A b \in 1 .. m : s[b] # NUL
    <2>1. s \in String
      BY <1>2, ElementsTyped
    <2>. HIDE DEF s
    <2>. QED  BY <2>1 DEF String
  <1>6. StringOf(k) = s
    <2>1. N - N + k = k
      BY <1>2
    <2>. QED  BY <1>3, <2>1 DEF StringOf
  <1>7. /\ placed[k].bytes = Append(s, NUL)
        /\ placed[k].at >= 0 /\ EndOf(k) <= STACK_TOP_MAX - PTR_SIZE
        /\ k < N => EndOf(k) = placed[k + 1].at
    BY <1>3, <1>4, <1>6 DEF ArgInv, PlacedOK
  <1>8. /\ Len(placed[k].bytes) = m + 1 /\ placed[k].bytes[m + 1] = NUL
        /\ \A b \in 1 .. m : placed[k].bytes[b] = s[b]
    <2>1. Append(s, NUL)[m + 1] = NUL /\ Len(Append(s, NUL)) = m + 1
          /\ \A b \in 1 .. m : Append(s, NUL)[b] = s[b]
      <3>. HIDE DEF s
      <3>. QED  BY <1>5 DEF String
    <2>. QED  BY <1>7, <2>1
  <1>9. Copied(k)
    BY <1>1, <1>4 DEF ArgInv, MemoryOK
  <1>10. STACK_TOP_MAX \in Nat /\ PTR_SIZE \in Nat /\ PTR_SIZE >= 1
    BY <1>1, ArgsTyped
  <1>11. Shift \in Int /\ a \in Int /\ Shift = STACK_TOP_MAX - vm_end
    <2>1. Shift = STACK_TOP_MAX - vm_end
      BY DEF Shift
    <2>2. Shift \in Int /\ placed[k].at \in Int
      BY <1>1, <1>4, <1>10, <2>1
    <2>. QED  BY <2>1, <2>2
  <1>. HIDE DEF m, s, N
  <1>12. a >= 0 /\ a + m <= vm_end - 1 /\ EndOf(k) = placed[k].at + m + 1
    <2>1. EndOf(k) = placed[k].at + m + 1
      BY <1>4, <1>5, <1>8 DEF EndOf
    <2>2. a >= 0
      <3>1. CASE stage = "loaded"
        <4>1. Shift = 0
          BY <1>10, <3>1 DEF ArgInv, LimitOK, Shift
        <4>. QED  BY <1>4, <1>7, <4>1
      <3>2. CASE stage = "placed"
        BY <1>4, <3>2 DEF ArgInv, AreaOK
      <3>. QED  BY <3>1, <3>2
    <2>3. EndOf(k) <= STACK_TOP_MAX - PTR_SIZE /\ vm_end \in Int
      BY <1>1, <1>7
    <2>. DEFINE at == placed[k].at
    <2>4. at \in Int /\ a = at - Shift
      BY <1>4
    <2>. HIDE DEF at, a
    <2>5. EndOf(k) = at + m + 1
      BY <2>1 DEF at
    <2>6. a + m <= vm_end - 1
      <3>1. /\ m \in Nat /\ PTR_SIZE \in Nat /\ PTR_SIZE >= 1 /\ STACK_TOP_MAX \in Nat /\ Shift \in Int
            /\ Shift = STACK_TOP_MAX - vm_end /\ at + m + 1 <= STACK_TOP_MAX - PTR_SIZE
        BY <1>5, <1>10, <1>11, <2>3, <2>5
      <3>. QED  BY <2>3, <2>4, <3>1
    <2>. QED  BY <2>1, <2>2, <2>6
  <1>13. stack[a + m] = NUL /\ \A b \in 1 .. m : stack[a + b - 1] = s[b]
    <2>1. \A b \in 1 .. m + 1 : stack[a + b - 1] = placed[k].bytes[b]
      BY <1>8, <1>9 DEF Copied, CopiedTo
    <2>2. m + 1 \in 1 .. m + 1 /\ a + (m + 1) - 1 = a + m /\ 1 .. m \subseteq 1 .. m + 1
      BY <1>5, <1>11
    <2>. HIDE DEF a
    <2>. QED  BY <1>8, <2>1, <2>2
  <1>. HIDE DEF a
  <1>14. FirstNul(a) = a + m
    <2>1. a + m \in a .. vm_end - 1 /\ a \in Nat
      BY <1>5, <1>11, <1>12
    <2>2. ASSUME NEW c \in a .. a + m - 1 PROVE stack[c] # NUL
      <3>1. c - a + 1 \in 1 .. m /\ a + (c - a + 1) - 1 = c
        BY <1>5, <1>11
      <3>2. stack[a + (c - a + 1) - 1] = s[c - a + 1]
        BY <1>13, <3>1
      <3>. QED  BY <1>5, <3>1, <3>2
    <2>. DEFINE e == a + m
    <2>3. e \in a .. vm_end - 1 /\ stack[e] = NUL /\ vm_end \in Int
      BY <1>1, <1>13, <2>1
    <2>5. \A b \in a .. e - 1 : stack[b] # NUL
      BY <1>5, <1>11, <2>2
    <2>. HIDE DEF e
    <2>4. FirstNul(a) = e
      BY <2>1, <2>3, <2>5, FirstNulIs
    <2>. QED  BY <2>4 DEF e
  <1>15. StringAt(a) = s
    <2>1. FirstNul(a) - a = m
      BY <1>5, <1>11, <1>14
    <2>2. StringAt(a) = [b \in 1 .. m |-> stack[a + b - 1]]
      BY <2>1 DEF StringAt
    <2>3. [b \in 1 .. m |-> stack[a + b - 1]] = [b \in 1 .. m |-> s[b]]
      BY <1>13
    <2>4. s = [b \in 1 .. m |-> s[b]]
      BY <1>5
    <2>. QED  BY <2>2, <2>3, <2>4, Zenon
  <1>16. k < N => FirstNul(a) + 1 = placed[k + 1].at - Shift
    <2>. DEFINE at == placed[k].at
    <2>1. m \in Nat /\ at \in Int /\ Shift \in Int /\ a = at - Shift
      BY <1>4, <1>5, <1>11 DEF a
    <2>2. EndOf(k) = at + m + 1
      BY <1>12
    <2>. HIDE DEF at
    <2>3. FirstNul(a) + 1 = EndOf(k) - Shift
      BY <1>14, <2>1, <2>2
    <2>. QED  BY <1>7, <2>3
  <1>. QED  BY <1>11, <1>14, <1>15, <1>16 DEF a, s, m, N

-----------------------------------------------------------------------------
(* The steps of the format, and the first state.                           *)

\* What holds of every call whose strings are all on the stack.
LEMMA AllPlaced ==
  ASSUME ArgInv, stage = "loaded"
  PROVE  /\ Len(placed) = Len(Strings) /\ Len(Strings) \in Nat
         /\ Len(Strings) = Len(ArgumentsGiven) + Len(args.envp) + 1
         /\ Len(ArgumentsGiven) \in Nat /\ Len(args.envp) \in Nat
         /\ argc \in 0 .. Len(ArgumentsGiven)
         /\ \A k \in 1 .. Len(placed) :
              placed[k].at \in Int /\ placed[k].bytes \in Seq(Nat) /\ Len(placed[k].bytes) \in Nat
         /\ Shift = 0 /\ vm_end = STACK_TOP_MAX
         /\ p \in Int /\ argmin \in Int /\ exec \in Int /\ vm_start \in Int
         /\ PTR_SIZE \in Nat /\ PTR_SIZE >= 1 /\ STACK_TOP_MAX \in Nat
  <1>1. TypeOK /\ args \in ArgCalls /\ placed \in Seq([at : Int, bytes : Seq(Nat)])
    BY DEF ArgInv, TypeOK
  <1>2. /\ args.envp \in Seq(String) /\ ArgumentsGiven \in Seq(String) /\ Strings \in Seq(String)
        /\ Len(Strings) = Len(ArgumentsGiven) + Len(args.envp) + 1
    BY <1>1, StringsTyped, ArgsTyped
  <1>3. Len(placed) = Len(Strings)
    BY <1>1, CopyOrderIs DEF ArgInv, TodoOK
  <1>4. \A k \in 1 .. Len(placed) :
          placed[k].at \in Int /\ placed[k].bytes \in Seq(Nat) /\ Len(placed[k].bytes) \in Nat
    <2>1. \A k \in 1 .. Len(placed) : placed[k] \in [at : Int, bytes : Seq(Nat)]
      BY <1>1, ElementsTyped
    <2>. QED  BY <2>1
  <1>5. argc \in 0 .. Len(ArgumentsGiven)
    BY DEF ArgInv, ArgcOK
  <1>6. STACK_TOP_MAX \in Nat /\ PTR_SIZE \in Nat /\ PTR_SIZE >= 1
    BY <1>1, ArgsTyped
  <1>7. vm_end = STACK_TOP_MAX /\ Shift = 0
    BY <1>6 DEF ArgInv, LimitOK, Shift
  <1>8. p \in Int /\ argmin \in Int /\ exec \in Int /\ vm_start \in Int
    BY <1>1 DEF TypeOK
  <1>9. Len(Strings) \in Nat /\ Len(ArgumentsGiven) \in Nat /\ Len(args.envp) \in Nat
    BY <1>2
  <1>. QED  BY <1>2, <1>3, <1>4, <1>5, <1>6, <1>7, <1>8, <1>9

LEMMA RemoveArgZeroStep ==
  ASSUME ArgInv, remove_arg_zero PROVE ArgInv'
  <1>. DEFINE N == Len(Strings)
              G == Len(ArgumentsGiven)
  <1>1. /\ stage = "loaded" /\ argc > 0
        /\ UNCHANGED <<args, todo, left, pos, argmin, exec, vm_start, vm_end, stack, placed, faithful>>
    BY DEF remove_arg_zero
  <1>2. /\ Len(placed) = N /\ N \in Nat /\ N = G + Len(args.envp) + 1
        /\ G \in Nat /\ Len(args.envp) \in Nat /\ argc \in 0 .. G
        /\ Shift = 0 /\ vm_end = STACK_TOP_MAX /\ p \in Int /\ argmin \in Int
        /\ STACK_TOP_MAX \in Nat
    BY <1>1, AllPlaced
  <1>3. argmin >= 0 /\ p >= argmin
    BY <1>1 DEF ArgInv, LimitOK
  <1>4. Strings' = Strings /\ Room' = Room /\ CopyOrder' = CopyOrder /\ ArgumentsGiven' = ArgumentsGiven
    BY <1>1, SameCall
  <1>5. Shift' = 0
    BY <1>1, <1>2 DEF Shift
  <1>6. CASE \E a \in p .. vm_end - 1 : stack[a] = NUL
    <2>1. p' = FirstNul(p) + 1 /\ argc' = argc - 1 /\ stage' = stage
      BY <1>6 DEF remove_arg_zero, AfterFirst
    <2>2. FirstNul(p) \in p .. vm_end - 1
      BY <1>2, <1>3, <1>6, FirstNulTyped
    <2>3. p' \in Int /\ p' >= p /\ argc' \in 0 .. G
      BY <1>1, <1>2, <2>1, <2>2
    <2>4. TypeOK'
      <3>1. argc' \in Int
        BY <1>2, <2>3
      <3>. HIDE DEF N, G
      <3>. QED  BY <1>1, <2>1, <2>3, <3>1 DEF ArgInv, TypeOK
    <2>5. FrontOK'
      <3>1. ASSUME faithful PROVE p' = placed[G - argc' + 1].at
        <4>. DEFINE k == G - argc + 1
        <4>1. k \in 1 .. N /\ k < N /\ G - argc' + 1 = k + 1 /\ k + 1 \in 1 .. N
          BY <1>1, <1>2, <2>1
        <4>2. p = placed[k].at - Shift
          BY <1>1, <3>1 DEF ArgInv, FrontOK
        <4>. HIDE DEF k
        <4>3. FirstNul(p) + 1 = placed[k + 1].at - Shift
          BY <1>1, <3>1, <4>1, <4>2, StringFound
        <4>4. placed[k + 1].at \in Int
          BY <1>1, <1>2, <4>1, AllPlaced
        <4>5. Shift = 0 /\ p' = FirstNul(p) + 1 /\ G - argc' + 1 = k + 1
          BY <1>2, <2>1, <4>1
        <4>. QED  BY <4>3, <4>4, <4>5
      <3>2. ASSUME faithful PROVE placed[G - argc' + 1].at \in Int
        BY <1>1, <1>2, <2>3, AllPlaced, SMTT(30)
      <3>. QED  BY <1>1, <1>4, <1>5, <2>1, <3>1, <3>2 DEF FrontOK
    <2>6. LimitOK'
      BY <1>1, <1>2, <1>3, <1>4, <2>1, <2>3 DEF ArgInv, LimitOK
    <2>7. ArgcOK' /\ CountOK' /\ TodoOK' /\ AreaOK' /\ PieceOK'
      BY <1>1, <1>4, <2>1, <2>3 DEF ArgInv, ArgcOK, CountOK, TodoOK, AreaOK, PieceOK
    <2>8. PlacedOK' /\ MemoryOK'
      <3>1. PlacedOK /\ MemoryOK
        BY DEF ArgInv
      <3>. QED  BY <1>1, <1>2, <1>4, <1>5, <2>1, <3>1 DEF PlacedOK, MemoryOK, EndOf, StringOf, Copied, CopiedTo
    <2>. QED  BY <2>4, <2>5, <2>6, <2>7, <2>8 DEF ArgInv
  <1>7. CASE \A a \in p .. vm_end - 1 : stack[a] # NUL
    <2>1. p' = vm_end /\ argc' = argc /\ stage' = "failed"
      BY <1>7 DEF remove_arg_zero
    <2>2. TypeOK'
      BY <1>1, <2>1 DEF ArgInv, TypeOK
    <2>. QED  BY <2>1, <2>2, FailedStep
  <1>. QED  BY <1>6, <1>7

LEMMA SetupArgPagesStep ==
  ASSUME ArgInv, setup_arg_pages PROVE ArgInv'
  <1>. DEFINE N == Len(Strings)
              G == Len(ArgumentsGiven)
              d == STACK_TOP_MAX - args.stack_top
  <1>1. /\ stage = "loaded" /\ TypeOK
        /\ UNCHANGED <<args, todo, left, pos, argmin, argc, placed, faithful>>
    BY DEF setup_arg_pages, ArgInv
  <1>2. /\ Len(placed) = N /\ N \in Nat /\ N >= 1 /\ N = G + Len(args.envp) + 1 /\ G \in Nat
        /\ Len(args.envp) \in Nat /\ argc \in 0 .. G
        /\ Shift = 0 /\ vm_end = STACK_TOP_MAX
        /\ p \in Int /\ exec \in Int /\ vm_start \in Int
        /\ STACK_TOP_MAX \in Nat /\ PTR_SIZE \in Nat /\ PTR_SIZE >= 1
    BY <1>1, AllPlaced
  <1>3. /\ args.stack_top \in Int /\ 0 <= args.stack_top /\ args.stack_top <= STACK_TOP_MAX
        /\ args.rlim \in Nat /\ MMAP_MIN_ADDR \in Nat /\ PAGE_SIZE \in Nat \ {0}
        /\ STACK_EXPAND \in Nat
    <2>1. args \in ArgCalls
      BY <1>1 DEF TypeOK
    <2>2. PAGE_SIZE \in Nat \ {0} /\ STACK_EXPAND \in Nat
      BY ArgAssumption
    <2>. QED  BY <1>2, <2>1, <2>2, ArgsTyped
  <1>4. d \in Int /\ 0 <= d /\ StackShift = d
    BY <1>2, <1>3 DEF StackShift
  <1>5. StackBase \in Int
    <2>1. PageOf(args.rlim) \in Int
      BY <1>3 DEF PageOf
    <2>. QED  BY <1>2, <1>3, <2>1 DEF StackBase
  <1>6. stack \in [0 .. STACK_TOP_MAX - 1 -> Nat]
    BY <1>1 DEF TypeOK
  <1>. HIDE DEF d
  <1>7. TypeOK'
    <2>1. p' \in Int /\ exec' \in Int
      BY <1>2, <1>4 DEF setup_arg_pages
    <2>2. vm_start' \in Int /\ vm_end' \in Int
      BY <1>2, <1>3, <1>4, <1>5 DEF setup_arg_pages, Smaller
    <2>3. ASSUME shift_arg_pages PROVE stack' \in [0 .. STACK_TOP_MAX - 1 -> Nat]
      <3>1. ASSUME NEW a \in vm_start .. vm_end - 1, a \in 0 .. STACK_TOP_MAX - 1
            PROVE  stack[a] \in Nat
        BY <1>6, <3>1
      <3>2. ASSUME NEW a \in 0 .. STACK_TOP_MAX - 1, a + StackShift \in vm_start .. vm_end - 1
            PROVE  stack[a + StackShift] \in Nat
        <4>1. a + StackShift \in 0 .. STACK_TOP_MAX - 1
          BY <1>2, <1>4, <3>2
        <4>. QED  BY <1>6, <4>1
      <3>. QED  BY <1>6, <2>3, <3>2 DEF shift_arg_pages, NUL
    <2>4. stack' \in [0 .. STACK_TOP_MAX - 1 -> Nat]
      BY <1>6, <2>3 DEF setup_arg_pages
    <2>5. stage' \in {"failed", "placed"}
      BY DEF setup_arg_pages
    <2>. QED  BY <1>1, <2>1, <2>2, <2>4, <2>5 DEF TypeOK
  <1>8. CASE stage' = "failed"
    BY <1>7, <1>8, FailedStep
  <1>9. CASE stage' # "failed"
    <2>1. /\ stage' = "placed" /\ vm_end - vm_start < args.stack_top - MMAP_MIN_ADDR
          /\ p' = p - d /\ exec' = exec - d /\ vm_end' = args.stack_top
          /\ vm_start' = Smaller(vm_start - d, StackBase) /\ shift_arg_pages
      BY <1>2, <1>3, <1>4, <1>9 DEF setup_arg_pages
    <2>2. Strings' = Strings /\ CopyOrder' = CopyOrder /\ ArgumentsGiven' = ArgumentsGiven
      BY <1>1, SameCall
    <2>3. Shift' = d
      BY <2>1 DEF Shift, d
    <2>4. ASSUME NEW k \in 1 .. N
          PROVE  /\ placed[k].at \in Int /\ Len(placed[k].bytes) \in Nat
                 /\ EndOf(k) <= STACK_TOP_MAX - PTR_SIZE /\ vm_start <= placed[k].at
                 /\ EndOf(k) = placed[k].at + Len(placed[k].bytes)
                 /\ \A b \in 1 .. Len(placed[k].bytes) : stack[placed[k].at + b - 1] = placed[k].bytes[b]
      <3>1. k \in 1 .. Len(placed) /\ left = << >>
        BY <1>1, <1>2 DEF ArgInv, TodoOK
      <3>2. placed[k].at \in Int /\ Len(placed[k].bytes) \in Nat
        BY <1>1, <3>1, AllPlaced
      <3>3. EndOf(k) <= STACK_TOP_MAX - PTR_SIZE
        BY <1>1, <3>1 DEF ArgInv, PlacedOK
      <3>4. Copied(k) /\ vm_start <= placed[k].at
        BY <1>1, <3>1 DEF ArgInv, MemoryOK
      <3>5. placed[k].at - Shift = placed[k].at
        BY <1>2, <3>2
      <3>. QED  BY <3>2, <3>3, <3>4, <3>5 DEF EndOf, Copied, CopiedTo
    <2>5. ASSUME NEW k \in 1 .. N
          PROVE  placed[k].at - d >= 0 /\ Copied(k)'
      <3>. DEFINE at == placed[k].at
                  n == Len(placed[k].bytes)
      <3>1. at \in Int /\ n \in Nat /\ at + n <= STACK_TOP_MAX - PTR_SIZE /\ vm_start <= at
            /\ \A b \in 1 .. n : stack[at + b - 1] = placed[k].bytes[b]
        BY <2>4
      <3>. HIDE DEF at, n
      <3>2. at - d >= 0
        <4>1. /\ d \in Int /\ vm_start \in Int /\ vm_end = STACK_TOP_MAX /\ STACK_TOP_MAX \in Int
              /\ args.stack_top \in Int /\ MMAP_MIN_ADDR \in Nat /\ d = STACK_TOP_MAX - args.stack_top
              /\ vm_end - vm_start < args.stack_top - MMAP_MIN_ADDR
              /\ at \in Int /\ vm_start <= at
          BY <1>2, <1>3, <1>4, <2>1, <3>1 DEF d
        <4>. HIDE DEF d
        <4>. DEFINE top == args.stack_top
                    low == MMAP_MIN_ADDR
                    end == STACK_TOP_MAX
        <4>2. /\ d \in Int /\ vm_start \in Int /\ end \in Int /\ top \in Int /\ low \in Nat /\ at \in Int
              /\ d = end - top /\ end - vm_start < top - low /\ vm_start <= at
          BY <4>1
        <4>. HIDE DEF top, low, end
        <4>. QED  BY <4>2
      <3>3. ASSUME NEW b \in 1 .. n PROVE stack'[at - d + b - 1] = placed[k].bytes[b]
        <4>. DEFINE a == at - d + b - 1
        <4>1. a \in 0 .. STACK_TOP_MAX - 1 /\ a + d = at + b - 1 /\ a + d \in vm_start .. vm_end - 1
          BY <1>2, <1>4, <3>1, <3>2
        <4>. HIDE DEF a
        <4>2. DOMAIN stack = 0 .. STACK_TOP_MAX - 1
          BY <1>6
        <4>3. stack'[a] = stack[a + d]
          BY <1>4, <2>1, <4>1, <4>2 DEF shift_arg_pages
        <4>4. stack'[a] = placed[k].bytes[b]
          BY <3>1, <4>1, <4>3
        <4>. QED  BY <4>4 DEF a
      <3>. QED  BY <1>1, <2>3, <3>2, <3>3 DEF Copied, CopiedTo, at, n
    <2>6. PlacedOK'
      <3>1. /\ \A k \in 1 .. Len(placed) :
                /\ Len(placed[k].bytes) = Len(StringOf(k)) + 1
                /\ faithful => placed[k].bytes = Append(StringOf(k), NUL)
                /\ placed[k].at >= 0 /\ EndOf(k) <= STACK_TOP_MAX - PTR_SIZE
                /\ k > 1 => EndOf(1) <= placed[k].at
                /\ k < Len(placed) => EndOf(k) = placed[k + 1].at
            /\ exec = IF placed = << >> THEN UNSET ELSE placed[Len(placed)].at - Shift
        BY <1>1 DEF ArgInv, PlacedOK
      <3>2. placed # << >> /\ N \in 1 .. N
        BY <1>2
      <3>3. exec' = placed[N].at - d
        <4>1. exec = placed[N].at - 0 /\ exec' = exec - d
          BY <1>2, <2>1, <3>1, <3>2
        <4>2. placed[N].at \in Int
          BY <2>4, <3>2
        <4>. QED  BY <4>1, <4>2
      <3>4. exec' = IF placed' = << >> THEN UNSET ELSE placed'[Len(placed')].at - Shift'
        BY <1>1, <1>2, <2>3, <3>2, <3>3
      <3>. HIDE DEF N, G
      <3>. QED  BY <1>1, <2>2, <3>1, <3>4 DEF PlacedOK, EndOf, StringOf
    <2>7. MemoryOK'
      BY <1>1, <1>2, <2>1, <2>5 DEF MemoryOK, ArgInv, TodoOK
    <2>8. FrontOK'
      <3>1. ASSUME faithful PROVE p' = placed[G - argc + 1].at - d
        <4>1. G - argc + 1 \in 1 .. N
          BY <1>2
        <4>2. p = placed[G - argc + 1].at - Shift
          BY <1>1, <3>1 DEF ArgInv, FrontOK
        <4>3. placed[G - argc + 1].at \in Int
          BY <2>4, <4>1
        <4>4. p = placed[G - argc + 1].at - 0 /\ p' = p - d
          BY <1>2, <2>1, <4>2
        <4>. QED  BY <4>3, <4>4
      <3>. QED  BY <1>1, <2>1, <2>2, <2>3, <3>1 DEF FrontOK
    <2>9. AreaOK'
      <3>1. vm_start <= STACK_TOP_MAX - PTR_SIZE
        BY <1>1 DEF ArgInv, AreaOK
      <3>2. vm_start' <= STACK_TOP_MAX - PTR_SIZE /\ vm_end' <= STACK_TOP_MAX
        BY <1>2, <1>3, <1>4, <1>5, <2>1, <3>1 DEF Smaller
      <3>. QED  BY <1>1, <1>2, <2>3, <2>5, <3>2 DEF AreaOK
    <2>10. CountOK' /\ LimitOK' /\ ArgcOK' /\ TodoOK' /\ PieceOK'
      BY <1>1, <2>1, <2>2 DEF ArgInv, CountOK, LimitOK, ArgcOK, TodoOK, PieceOK
    <2>. QED  BY <1>7, <2>6, <2>7, <2>8, <2>9, <2>10 DEF ArgInv
  <1>. QED  BY <1>8, <1>9

LEMMA ArgInvInit ==
  ArgInit => ArgInv
  <1>. SUFFICES ASSUME NEW call \in ArgCalls, ArgInitial(call) PROVE ArgInv
    BY DEF ArgInit
  <1>1. args \in ArgCalls /\ stage = "count"
    BY DEF ArgInitial
  <1>2. STACK_TOP_MAX \in Nat /\ PTR_SIZE \in 1 .. PAGE_SIZE /\ PAGE_SIZE \in Nat
    BY <1>1, ArgsTyped
  <1>3. TypeOK
    BY <1>1, <1>2 DEF TypeOK, ArgInitial, UNSET, NUL
  <1>4. CountOK /\ AreaOK
    BY <1>2 DEF CountOK, AreaOK, ArgInitial
  <1>. QED  BY <1>1, <1>3, <1>4
         DEF ArgInv, LimitOK, ArgcOK, TodoOK, PlacedOK, MemoryOK, PieceOK, FrontOK

LEMMA ArgInvStep ==
  ArgInv /\ [ArgNext]_argVars => ArgInv'
  <1>. SUFFICES ASSUME ArgInv, [ArgNext]_argVars PROVE ArgInv'
    OBVIOUS
  <1>1. CASE StackLimits
    BY <1>1, StackLimitsStep
  <1>2. CASE /\ todo # << >>
             /\ \E bytes \in {Head(todo).bytes} \cup Rewritten(Head(todo).bytes) : CopyString(bytes)
    BY <1>2, CopyStringStep
  <1>3. CASE CopyPiece
    BY <1>3, CopyPieceStep
  <1>4. CASE CopyFails
    BY <1>4, CopyFailsStep
  <1>5. CASE AllCopied
    BY <1>5, AllCopiedStep
  <1>6. CASE remove_arg_zero
    BY <1>6, RemoveArgZeroStep
  <1>7. CASE setup_arg_pages
    BY <1>7, SetupArgPagesStep
  <1>8. CASE UNCHANGED argVars
    <2>1. UNCHANGED <<args, stage, todo, left, pos, p, argmin, argc, exec,
                      vm_start, vm_end, stack, placed, faithful>>
      BY <1>8 DEF argVars
    <2>2. Strings' = Strings /\ Room' = Room /\ CopyOrder' = CopyOrder /\ ArgumentsGiven' = ArgumentsGiven
      BY <2>1, SameCall
    <2>3. TypeOK' /\ CountOK' /\ LimitOK' /\ ArgcOK' /\ TodoOK' /\ PieceOK' /\ FrontOK' /\ AreaOK'
      BY <2>1, <2>2 DEF ArgInv, TypeOK, CountOK, LimitOK, ArgcOK, TodoOK, PieceOK, FrontOK, AreaOK,
                        Shift, CopiedTo
    <2>4. PlacedOK' /\ MemoryOK'
      BY <2>1, <2>2 DEF ArgInv, PlacedOK, MemoryOK, EndOf, StringOf, Shift, Copied, CopiedTo
    <2>. QED  BY <2>3, <2>4 DEF ArgInv
  <1>. QED  BY <1>1, <1>2, <1>3, <1>4, <1>5, <1>6, <1>7, <1>8 DEF ArgNext

-----------------------------------------------------------------------------
(* The strings that are found one after the other.                         *)

\* A recursive function has the values that its equation gives.
LEMMA StartsAre ==
  ASSUME NEW n \in Nat, NEW f, \A j \in 1 .. n : f[j] = FirstNul(f[j - 1]) + 1
  PROVE  \A j \in 0 .. n : Starts(f[0], n)[j] = f[j]
  <1>. DEFINE Body(start) == [k \in 0 .. n |-> IF k = 0 THEN f[0] ELSE FirstNul(start[k - 1]) + 1]
              g == [j \in 0 .. n |-> f[j]]
              s == Starts(f[0], n)
  <1>1. s = CHOOSE start : start = Body(start)
    BY DEF Starts
  <1>2. g = Body(g)
    <2>1. ASSUME NEW k \in 0 .. n PROVE g[k] = Body(g)[k]
      <3>1. CASE k = 0
        BY <3>1
      <3>2. CASE k # 0
        <4>1. k \in 1 .. n /\ k - 1 \in 0 .. n
          BY <3>2
        <4>. QED  BY <3>2, <4>1
      <3>. QED  BY <3>1, <3>2
    <2>. QED  BY <2>1
  <1>. HIDE DEF g, s
  <1>3. s = Body(s)
    <2>. HIDE DEF Body
    <2>. QED  BY <1>1, <1>2
  <1>. DEFINE T == {j \in 0 .. n : s[j] # f[j]}
  <1>4. T = {}
    <2>. SUFFICES ASSUME T # {} PROVE FALSE
      OBVIOUS
    <2>1. T \subseteq Nat
      OBVIOUS
    <2>2. PICK j \in T : \A y \in T : j <= y
      BY <2>1, Least
    <2>3. j \in 0 .. n /\ s[j] # f[j]
      BY <2>2
    <2>4. s[j] = IF j = 0 THEN f[0] ELSE FirstNul(s[j - 1]) + 1
      BY <1>3, <2>3
    <2>5. j # 0
      BY <2>3, <2>4
    <2>6. j - 1 \in 0 .. n /\ j \in 1 .. n /\ ~ (j <= j - 1)
      BY <2>3, <2>5
    <2>7. s[j - 1] = f[j - 1]
      BY <2>2, <2>6
    <2>. QED  BY <2>3, <2>4, <2>5, <2>6, <2>7
  <1>. QED  BY <1>4 DEF s

\* From the string at place k on, all are found.
LEMMA StringsFrom ==
  ASSUME ArgInv, stage \in {"loaded", "placed"}, faithful,
         NEW k \in 1 .. Len(Strings), NEW n \in Nat, k + n <= Len(Strings) + 1
  PROVE  StringsAt(placed[k].at - Shift, n) = [j \in 1 .. n |-> Strings[k + j - 1]]
  <1>. DEFINE N == Len(Strings)
              At(j) == placed[j].at - Shift
              f == [j \in 0 .. n |-> IF j = 0 THEN At(k) ELSE FirstNul(At(k + j - 1)) + 1]
  <1>1. Strings \in Seq(String) /\ N \in Nat
    BY StringsTyped DEF ArgInv, TypeOK
  <1>2. ASSUME NEW j \in 1 .. N
        PROVE  StringAt(At(j)) = Strings[j] /\ (j < N => FirstNul(At(j)) + 1 = At(j + 1))
    BY StringFound
  <1>3. ASSUME NEW j \in 0 .. n, k + j <= N PROVE f[j] = At(k + j)
    <2>1. CASE j = 0
      <3>1. k + j = k
        BY <1>1, <2>1
      <3>. QED  BY <2>1, <3>1
    <2>2. CASE j # 0
      <3>1. k + j - 1 \in 1 .. N /\ k + j - 1 < N /\ (k + j - 1) + 1 = k + j
        BY <1>1, <1>3, <2>2
      <3>2. FirstNul(At(k + j - 1)) + 1 = At((k + j - 1) + 1)
        BY <1>2, <3>1
      <3>. QED  BY <2>2, <3>1, <3>2
    <2>. QED  BY <2>1, <2>2
  <1>4. ASSUME NEW j \in 1 .. n PROVE f[j] = FirstNul(f[j - 1]) + 1
    <2>1. j - 1 \in 0 .. n /\ k + (j - 1) <= N /\ k + (j - 1) = k + j - 1 /\ j \in 0 .. n /\ j # 0
      BY <1>1
    <2>2. f[j - 1] = At(k + (j - 1))
      BY <1>3, <2>1
    <2>3. f[j] = FirstNul(At(k + j - 1)) + 1
      BY <2>1
    <2>. QED  BY <2>1, <2>2, <2>3
  <1>5. f[0] = At(k)
    OBVIOUS
  <1>. HIDE DEF f, At
  <1>6. \A j \in 0 .. n : Starts(At(k), n)[j] = f[j]
    BY <1>4, <1>5, StartsAre
  <1>7. ASSUME NEW j \in 1 .. n PROVE StringAt(Starts(At(k), n)[j - 1]) = Strings[k + j - 1]
    <2>1. j - 1 \in 0 .. n /\ k + (j - 1) <= N /\ k + (j - 1) = k + j - 1 /\ k + j - 1 \in 1 .. N
      BY <1>1
    <2>2. Starts(At(k), n)[j - 1] = At(k + j - 1)
      BY <1>3, <1>6, <2>1
    <2>. QED  BY <1>2, <2>1, <2>2
  <1>8. StringsAt(At(k), n) = [j \in 1 .. n |-> StringAt(Starts(At(k), n)[j - 1])]
    BY DEF StringsAt
  <1>9. StringsAt(At(k), n) = [j \in 1 .. n |-> Strings[k + j - 1]]
    BY <1>7, <1>8
  <1>. QED  BY <1>9 DEF At

LastThen(s, n, t) ==
  [j \in 1 .. n + Len(t) |-> IF j <= n THEN s[Len(s) - n + j] ELSE t[j - n]]

LEMMA LastThenAll ==
  ASSUME NEW T, NEW s \in Seq(T), NEW t \in Seq(T), NEW n \in 0 .. Len(s)
  PROVE  SubSeq(s, Len(s) - n + 1, Len(s)) \o t = LastThen(s, n, t)
  <1>. DEFINE x == SubSeq(s, Len(s) - n + 1, Len(s))
  <1>1. x \in Seq(T) /\ Len(x) = n /\ \A j \in 1 .. n : x[j] = s[Len(s) - n + j]
    OBVIOUS
  <1>. HIDE DEF x
  <1>2. x \o t = [j \in 1 .. n + Len(t) |-> IF j <= n THEN x[j] ELSE t[j - n]]
    <2>. DEFINE z == x \o t
    <2>1. z \in Seq(T) /\ Len(z) = n + Len(t)
          /\ \A j \in 1 .. n + Len(t) : z[j] = IF j <= n THEN x[j] ELSE t[j - n]
      BY <1>1, ConcatProperties
    <2>. HIDE DEF z
    <2>2. z = [j \in 1 .. Len(z) |-> z[j]]
      BY <2>1
    <2>3. z = [j \in 1 .. n + Len(t) |-> IF j <= n THEN x[j] ELSE t[j - n]]
      BY <2>1, <2>2
    <2>. QED  BY <2>3 DEF z
  <1>3. \A j \in 1 .. n + Len(t) : j <= n => x[j] = s[Len(s) - n + j]
    BY <1>1
  <1>4. x \o t = [j \in 1 .. n + Len(t) |-> IF j <= n THEN s[Len(s) - n + j] ELSE t[j - n]]
    BY <1>2, <1>3
  <1>. QED  BY <1>4 DEF x, LastThen

-----------------------------------------------------------------------------
(* The theorems.                                                           *)

LEMMA ArgInvAlways ==
  ArgSpec => []ArgInv
  BY ArgInvInit, ArgInvStep, PTL DEF ArgSpec

LEMMA StaysByInv ==
  ArgInv => CopiedStays
  <1>. SUFFICES ASSUME ArgInv, stage = "copy"
                PROVE  /\ p >= argmin
                       /\ \A k \in (IF left = << >> THEN 1 ELSE 2) .. Len(placed) :
                            \A b \in DOMAIN placed[k].bytes :
                              stack[placed[k].at + b - 1] = placed[k].bytes[b]
    BY DEF CopiedStays
  <1>1. args \in ArgCalls /\ placed \in Seq([at : Int, bytes : Seq(Nat)])
    BY DEF ArgInv, TypeOK
  <1>2. STACK_TOP_MAX \in Nat
    BY <1>1, ArgsTyped
  <1>3. p >= argmin /\ Shift = 0
    BY <1>2 DEF ArgInv, LimitOK, Shift
  <1>4. ASSUME NEW k \in (IF left = << >> THEN 1 ELSE 2) .. Len(placed),
               NEW b \in DOMAIN placed[k].bytes
        PROVE  stack[placed[k].at + b - 1] = placed[k].bytes[b]
    <2>1. Copied(k)
      BY DEF ArgInv, MemoryOK
    <2>2. k \in 1 .. Len(placed)
      OBVIOUS
    <2>3. placed[k] \in [at : Int, bytes : Seq(Nat)]
      BY <1>1, <2>2, ElementsTyped
    <2>4. placed[k].at \in Int /\ b \in 1 .. Len(placed[k].bytes) /\ placed[k].at - 0 = placed[k].at
      BY <2>3
    <2>. QED  BY <1>3, <2>1, <2>4 DEF Copied, CopiedTo
  <1>. QED  BY <1>3, <1>4

LEMMA FoundByInv ==
  ArgInv => StringsFound
  <1>. SUFFICES ASSUME ArgInv, stage \in {"loaded", "placed"}, faithful
                PROVE  /\ StringsAt(p, argc + Len(args.envp))
                            = SubSeq(ArgumentsGiven, Len(ArgumentsGiven) - argc + 1, Len(ArgumentsGiven))
                                \o args.envp
                       /\ StringsAt(exec, 1) = <<args.filename>>
    BY DEF StringsFound
  <1>. DEFINE N == Len(Strings)
              G == Len(ArgumentsGiven)
              m == Len(args.envp)
              k == G - argc + 1
  <1>1. args \in ArgCalls
    BY DEF ArgInv, TypeOK
  <1>2. /\ ArgumentsGiven \in Seq(String) /\ args.envp \in Seq(String) /\ Strings \in Seq(String)
        /\ N = G + m + 1
        /\ \A i \in 1 .. G : Strings[i] = ArgumentsGiven[i]
        /\ \A i \in 1 .. m : Strings[G + i] = args.envp[i]
        /\ Strings[N] = args.filename
    BY <1>1, StringsTyped, ArgsTyped
  <1>3. N \in Nat /\ G \in Nat /\ m \in Nat /\ argc \in 0 .. G
    BY <1>2 DEF ArgInv, ArgcOK
  <1>4. Len(placed) = N
    BY <1>1, CopyOrderIs DEF ArgInv, TodoOK
  <1>5. p = placed[k].at - Shift
    BY DEF ArgInv, FrontOK
  <1>6. StringsAt(p, argc + m) = [j \in 1 .. argc + m |-> Strings[k + j - 1]]
    <2>1. k \in 1 .. N /\ argc + m \in Nat /\ k + (argc + m) <= N + 1
      <3>1. N = G + m + 1
        BY <1>2
      <3>. HIDE DEF N, G, m
      <3>. QED  BY <1>3, <3>1
    <2>. HIDE DEF k, m
    <2>. QED  BY <1>5, <2>1, StringsFrom
  <1>7. SubSeq(ArgumentsGiven, G - argc + 1, G) \o args.envp
          = [j \in 1 .. argc + m |-> IF j <= argc THEN ArgumentsGiven[G - argc + j] ELSE args.envp[j - argc]]
    <2>1. ArgumentsGiven \in Seq(String) /\ args.envp \in Seq(String)
      BY <1>2
    <2>2. argc \in 0 .. Len(ArgumentsGiven)
      BY <1>3
    <2>. DEFINE s == ArgumentsGiven
                t == args.envp
    <2>. HIDE DEF s, t
    <2>3. s \in Seq(String) /\ t \in Seq(String) /\ argc \in 0 .. Len(s)
      BY <2>1, <2>2 DEF s, t
    <2>4. SubSeq(s, Len(s) - argc + 1, Len(s)) \o t = LastThen(s, argc, t)
      BY <2>3, LastThenAll, Zenon
    <2>. QED  BY <2>4 DEF LastThen, s, t
  <1>8. ASSUME NEW j \in 1 .. argc + m
        PROVE  Strings[k + j - 1] = IF j <= argc THEN ArgumentsGiven[G - argc + j] ELSE args.envp[j - argc]
    <2>1. CASE j <= argc
      <3>1. k + j - 1 = G - argc + j /\ G - argc + j \in 1 .. G
        BY <1>3, <2>1
      <3>. QED  BY <1>2, <2>1, <3>1
    <2>2. CASE ~ (j <= argc)
      <3>1. k + j - 1 = G + (j - argc) /\ j - argc \in 1 .. m
        BY <1>3, <2>2
      <3>. QED  BY <1>2, <2>2, <3>1
    <2>. QED  BY <2>1, <2>2
  <1>9. StringsAt(p, argc + m) = SubSeq(ArgumentsGiven, G - argc + 1, G) \o args.envp
    <2>1. [j \in 1 .. argc + m |-> Strings[k + j - 1]]
            = [j \in 1 .. argc + m |-> IF j <= argc THEN ArgumentsGiven[G - argc + j] ELSE args.envp[j - argc]]
      BY <1>8
    <2>. QED  BY <1>6, <1>7, <2>1, Zenon
  <1>10. StringsAt(exec, 1) = <<args.filename>>
    <2>1. placed # << >>
      BY <1>2, <1>3, <1>4
    <2>2. exec = placed[N].at - Shift
      BY <1>4, <2>1 DEF ArgInv, PlacedOK
    <2>3. StringsAt(exec, 1) = [j \in 1 .. 1 |-> Strings[N + j - 1]]
      <3>1. N \in 1 .. N /\ 1 \in Nat /\ N + 1 <= N + 1
        BY <1>2, <1>3
      <3>. QED  BY <2>2, <3>1, StringsFrom
    <2>4. N + 1 - 1 = N
      BY <1>3
    <2>5. [j \in 1 .. 1 |-> Strings[N + j - 1]] = <<Strings[N]>>
      BY <2>4
    <2>. QED  BY <1>2, <2>3, <2>5
  <1>. QED  BY <1>9, <1>10

LEMMA FitByInv ==
  ArgInv => StringsAndPointersFit
  <1>. SUFFICES ASSUME ArgInv, stage = "loaded"
                PROVE  STACK_TOP_MAX - PTR_SIZE - p + PTR_SIZE * (argc + Len(args.envp)) <= Limit(args.rlim)
    BY DEF StringsAndPointersFit
  <1>. DEFINE G == Len(ArgumentsGiven)
              m == Len(args.envp)
  <1>1. /\ args \in ArgCalls /\ G \in Nat /\ m \in Nat /\ argc \in 0 .. G /\ p \in Int
        /\ PTR_SIZE \in Nat /\ STACK_TOP_MAX \in Nat
    BY AllPlaced DEF ArgInv, TypeOK
  <1>2. G = Larger(Len(args.argv), 1) /\ Limit(args.rlim) \in Nat
    BY <1>1, StringsTyped, ArgsTyped
  <1>3. p >= STACK_TOP_MAX - PTR_SIZE - Room /\ Room = Limit(args.rlim) - (G + m) * PTR_SIZE
    BY <1>2 DEF ArgInv, LimitOK, Room
  <1>. HIDE DEF G, m
  <1>. DEFINE x == PTR_SIZE * (argc + m)
              y == (G + m) * PTR_SIZE
  <1>4. x \in Nat /\ y \in Nat /\ x <= y
    <2>1. /\ PTR_SIZE * (argc + m) \in Nat /\ (G + m) * PTR_SIZE \in Nat
          /\ (G - argc) * PTR_SIZE \in Nat
          /\ (G + m) * PTR_SIZE = PTR_SIZE * (argc + m) + (G - argc) * PTR_SIZE
      BY <1>1
    <2>. QED  BY <2>1
  <1>5. STACK_TOP_MAX - PTR_SIZE - p + x <= Limit(args.rlim)
    <2>1. Room = Limit(args.rlim) - y
      BY <1>3
    <2>. HIDE DEF x, y
    <2>. QED  BY <1>1, <1>2, <1>3, <1>4, <2>1, SMTT(30)
  <1>. QED  BY <1>5 DEF m

\* exec.c: a string that was copied onto the new stack stays as it is while the
\* others are copied below it, and the format's loader finds the file name, the
\* arguments and the environment where the pointers say, unless another thread
\* wrote one that was already measured; for any page size, limit and call.
THEOREM ArgumentsStayIntact ==
  ArgSpec => []ArgumentsIntact
  <1>1. ArgInv => ArgumentsIntact
    BY StaysByInv, FoundByInv DEF ArgumentsIntact
  <1>. QED  BY <1>1, ArgInvAlways, PTL

\* exec.c, bprm_stack_limits: strings never take the room that the pointers to
\* them will need.
THEOREM StringsFitWithPointers ==
  ArgSpec => []StringsAndPointersFit
  BY FitByInv, ArgInvAlways, PTL

-----------------------------------------------------------------------------
(* SglibArrays: numbers, exchanges and powers.                             *)

LEMMA LeastIsMin ==
  ASSUME NEW T, T \subseteq Nat, T # {}
  PROVE  Min(T) \in T /\ \A y \in T : Min(T) <= y
  BY Least DEF Min

LEMMA GreatestIsMax ==
  ASSUME NEW T, NEW n \in Nat, T \subseteq 0 .. n, T # {}
  PROVE  Max(T) \in T /\ \A y \in T : Max(T) >= y
  <1>. DEFINE U == {n - x : x \in T}
  <1>1. U \subseteq Nat /\ U # {}
    <2>1. ASSUME NEW x \in T PROVE n - x \in Nat
      OBVIOUS
    <2>. QED  BY <2>1
  <1>2. PICK u \in U : \A y \in U : u <= y
    BY <1>1, Least
  <1>3. PICK x \in T : u = n - x
    BY <1>2
  <1>4. ASSUME NEW y \in T PROVE x >= y
    <2>1. n - y \in U
      OBVIOUS
    <2>. QED  BY <1>2, <1>3, <2>1
  <1>. QED  BY <1>3, <1>4 DEF Max

LEMMA PowerDoubles ==
  ASSUME NEW n \in Nat
  PROVE  2^n \in Nat /\ 2^(n + 1) = 2 * 2^n
  <1>. DEFINE S == 1 .. n
              U == 1 .. (n + 1)
              With == {T \in SUBSET U : n + 1 \in T}
              f == [T \in SUBSET S |-> T \cup {n + 1}]
  <1>1. IsFiniteSet(S) /\ Cardinality(S) = n /\ IsFiniteSet(U) /\ Cardinality(U) = n + 1
    BY FS_Interval
  <1>2. /\ IsFiniteSet(SUBSET S) /\ Cardinality(SUBSET S) = 2^n
        /\ IsFiniteSet(SUBSET U) /\ Cardinality(SUBSET U) = 2^(n + 1)
    BY <1>1, FS_SUBSET
  <1>3. Cardinality(SUBSET S) \in Nat
    BY <1>2, FS_CardinalityType
  <1>4. U = S \cup {n + 1} /\ n + 1 \notin S
    OBVIOUS
  <1>. HIDE DEF S, U
  <1>5. SUBSET U = (SUBSET S) \cup With /\ (SUBSET S) \cap With = {}
    BY <1>4
  <1>6. f \in Bijection(SUBSET S, With)
    <2>1. f \in [SUBSET S -> With]
      BY <1>4
    <2>2. ASSUME NEW A \in SUBSET S, NEW B \in SUBSET S, f[A] = f[B] PROVE A = B
      <3>1. A \cup {n + 1} = B \cup {n + 1}
        BY <2>2
      <3>. QED  BY <1>4, <3>1
    <2>3. ASSUME NEW T \in With PROVE \E A \in SUBSET S : f[A] = T
      <3>1. T \ {n + 1} \in SUBSET S /\ T = (T \ {n + 1}) \cup {n + 1}
        BY <1>4
      <3>. QED  BY <3>1
    <2>. HIDE DEF f, With
    <2>. QED  BY <2>1, <2>2, <2>3, Fun_IsBij
  <1>. HIDE DEF f, With
  <1>7. IsFiniteSet(With) /\ Cardinality(With) = Cardinality(SUBSET S)
    BY <1>2, <1>6, FS_Bijection, Fun_ExistsBij
  <1>8. Cardinality(SUBSET U)
          = Cardinality(SUBSET S) + Cardinality(With) - Cardinality((SUBSET S) \cap With)
    BY <1>2, <1>5, <1>7, FS_Union
  <1>9. Cardinality((SUBSET S) \cap With) = 0
    BY <1>5, FS_EmptySet
  <1>. QED  BY <1>2, <1>3, <1>7, <1>8, <1>9

-----------------------------------------------------------------------------
(* Quicksort.                                                              *)

Index == 0 .. ArrayLength - 1
Part == (0 .. ArrayLength) \X (0 .. ArrayLength)
In(x, part) == part[1] <= x /\ x < part[2]

\* No part overlaps another one.
Apart(parts) ==
  \A k, m \in 1 .. Len(parts) : k # m => parts[k][2] <= parts[m][1] \/ parts[m][2] <= parts[k][1]

\* Only within a part can two elements be in the wrong order.
Ascends(a, parts) ==
  \A x, y \in Index : x < y =>
    a[x] <= a[y] \/ \E k \in 1 .. Len(parts) : In(x, parts[k]) /\ In(y, parts[k])

Rearranged(a) ==
  \E from \in Bijection(Index, Index) : \A x \in Index : a[x] = given[from[x]]

\* A partition has put below and above the pivot what its indexes have passed.
CutOK ==
  cut # << >> =>
    /\ sorting # << >>
    /\ cut[1] \in Int /\ cut[2] \in Int
    /\ PartStart + 1 <= cut[1] /\ cut[1] < cut[2] /\ cut[2] <= PartEnd - 1
    /\ \A x \in PartStart + 1 .. cut[1] - 1 : array[x] <= array[PartStart]
    /\ \A x \in cut[2] + 1 .. PartEnd - 1 : array[x] >= array[PartStart]

SortOK ==
  uses = "array" =>
    /\ array \in [Index -> Nat] /\ given \in [Index -> Nat]
    /\ sorting \in Seq(Part)
    /\ Apart(sorting) /\ Ascends(array, sorting) /\ Rearranged(array)
    /\ CutOK
    /\ StackHalves

LEMMA ArrayLengthTyped == ArrayLength \in Nat
  BY SglibAssumption

LEMMA SwapBijects ==
  ASSUME NEW D, NEW a \in Bijection(D, D), NEW x \in D, NEW y \in D
  PROVE  Swap(a, x, y) \in Bijection(D, D)
  <1>. DEFINE b == Swap(a, x, y)
  <1>1. /\ a \in [D -> D] /\ \A u, v \in D : a[u] = a[v] => u = v
        /\ \A t \in D : \E u \in D : a[u] = t
    BY Fun_BijectionProperties
  <1>0. a \in [D -> D]
    BY <1>1
  <1>2. /\ b \in [D -> D] /\ b[x] = a[y] /\ b[y] = a[x]
        /\ \A z \in D : z # x /\ z # y => b[z] = a[z]
    BY <1>0 DEF Swap
  <1>. HIDE DEF b
  <1>3. ASSUME NEW u \in D, NEW v \in D, b[u] = b[v] PROVE u = v
    BY <1>1, <1>2, <1>3
  <1>4. ASSUME NEW t \in D PROVE \E u \in D : b[u] = t
    BY <1>1, <1>2
  <1>5. b \in Bijection(D, D)
    BY <1>2, <1>3, <1>4, Fun_IsBij
  <1>. QED  BY <1>5 DEF b

LEMMA SwapRearranges ==
  ASSUME NEW a \in [Index -> Nat], Rearranged(a), NEW x \in Index, NEW y \in Index
  PROVE  Rearranged(Swap(a, x, y))
  <1>1. PICK from \in Bijection(Index, Index) : \A z \in Index : a[z] = given[from[z]]
    BY DEF Rearranged
  <1>2. Swap(from, x, y) \in Bijection(Index, Index) /\ from \in [Index -> Index]
    BY SwapBijects, Fun_BijectionProperties
  <1>3. ASSUME NEW z \in Index PROVE Swap(a, x, y)[z] = given[Swap(from, x, y)[z]]
    <2>1. /\ Swap(a, x, y)[x] = a[y] /\ Swap(a, x, y)[y] = a[x]
          /\ \A u \in Index : u # x /\ u # y => Swap(a, x, y)[u] = a[u]
      BY DEF Swap
    <2>2. /\ Swap(from, x, y)[x] = from[y] /\ Swap(from, x, y)[y] = from[x]
          /\ \A u \in Index : u # x /\ u # y => Swap(from, x, y)[u] = from[u]
      BY <1>2 DEF Swap
    <2>. QED  BY <1>1, <2>1, <2>2
  <1>. QED  BY <1>2, <1>3 DEF Rearranged

\* What is exchanged within a part stays in order with what is outside it.
LEMMA SwapAscends ==
  ASSUME NEW a \in [Index -> Nat], NEW parts \in Seq(Part), Apart(parts), Ascends(a, parts),
         NEW m \in 1 .. Len(parts), NEW x \in Index, NEW y \in Index,
         In(x, parts[m]), In(y, parts[m])
  PROVE  Ascends(Swap(a, x, y), parts)
  <1>. DEFINE b == Swap(a, x, y)
  <1>1. /\ b \in [Index -> Nat] /\ b[x] = a[y] /\ b[y] = a[x]
        /\ \A z \in Index : z # x /\ z # y => b[z] = a[z]
    BY DEF Swap
  <1>. HIDE DEF b
  <1>2. ASSUME NEW k \in 1 .. Len(parts)
        PROVE  parts[k][1] \in Int /\ parts[k][2] \in Int
    <2>1. parts[k] \in (0 .. ArrayLength) \X (0 .. ArrayLength)
      BY DEF Part
    <2>2. \A i \in 0 .. ArrayLength : i \in Int
      BY ArrayLengthTyped
    <2>. QED  BY <2>1, <2>2
  <1>3. ASSUME NEW z \in Index PROVE z \in Int
    BY ArrayLengthTyped DEF Index
  <1>4. ASSUME NEW u \in Index, NEW v \in Index, ~ In(u, parts[m]), In(v, parts[m])
        PROVE  (u < v => a[u] <= a[v]) /\ (v < u => a[v] <= a[u])
    <2>1. ASSUME NEW k \in 1 .. Len(parts), In(u, parts[k]), In(v, parts[k]) PROVE FALSE
      <3>1. k # m
        BY <1>4, <2>1
      <3>2. parts[k][2] <= parts[m][1] \/ parts[m][2] <= parts[k][1]
        BY <3>1 DEF Apart
      <3>3. v \in Int /\ parts[k][1] \in Int /\ parts[k][2] \in Int
              /\ parts[m][1] \in Int /\ parts[m][2] \in Int
        BY <1>2, <1>3, Zenon
      <3>4. /\ parts[k][1] <= v /\ v < parts[k][2]
            /\ parts[m][1] <= v /\ v < parts[m][2]
        BY <1>4, <2>1 DEF In
      <3>. DEFINE s == parts[k][1]
                  e == parts[k][2]
                  t == parts[m][1]
                  f == parts[m][2]
      <3>5. /\ v \in Int /\ s \in Int /\ e \in Int /\ t \in Int /\ f \in Int
            /\ s <= v /\ v < e /\ t <= v /\ v < f /\ (e <= t \/ f <= s)
        BY <3>2, <3>3, <3>4
      <3>. HIDE DEF s, e, t, f
      <3>. QED  BY <3>5
    <2>2. ASSUME NEW low \in Index, NEW high \in Index, low < high,
                 (low = u /\ high = v) \/ (low = v /\ high = u)
          PROVE  a[low] <= a[high]
      <3>1. \/ a[low] <= a[high]
            \/ \E k \in 1 .. Len(parts) : In(low, parts[k]) /\ In(high, parts[k])
        BY <2>2 DEF Ascends
      <3>. QED  BY <2>1, <2>2, <3>1
    <2>. QED  BY <2>2
  <1>5. ASSUME NEW u \in Index, NEW v \in Index, NEW w \in Index,
               ~ In(u, parts[m]), In(v, parts[m]), In(w, parts[m])
        PROVE  (u < v <=> u < w) /\ (v < u <=> w < u)
    <2>1. u \in Int /\ v \in Int /\ w \in Int
            /\ parts[m][1] \in Int /\ parts[m][2] \in Int
      BY <1>2, <1>3, Zenon
    <2>. QED  BY <1>5, <2>1, SMTT(30) DEF In
  <1>6. ASSUME NEW u \in Index, NEW v \in Index, ~ In(u, parts[m]), In(v, parts[m])
        PROVE  (u < v => b[u] <= b[v]) /\ (v < u => b[v] <= b[u])
    <2>1. PICK w \in Index : In(w, parts[m]) /\ b[v] = a[w]
      BY <1>1, <1>6
    <2>2. b[u] = a[u]
      BY <1>1, <1>6
    <2>. QED  BY <1>4, <1>5, <1>6, <2>1, <2>2
  <1>7. ASSUME NEW u \in Index, NEW v \in Index, u < v
        PROVE  b[u] <= b[v] \/ \E k \in 1 .. Len(parts) : In(u, parts[k]) /\ In(v, parts[k])
    <2>1. CASE In(u, parts[m]) /\ In(v, parts[m])
      BY <2>1
    <2>2. CASE In(u, parts[m]) # In(v, parts[m])
      BY <1>6, <1>7, <2>2 DEF In
    <2>3. CASE ~ In(u, parts[m]) /\ ~ In(v, parts[m])
      BY <1>1, <1>7, <2>3 DEF Ascends
    <2>. QED  BY <2>1, <2>2, <2>3
  <1>8. Ascends(b, parts)
    BY <1>7 DEF Ascends
  <1>. QED  BY <1>8 DEF b

\* What the two inner loops of a partition find.
LEMMA Found ==
  ASSUME uses = "array", SortOK, cut # << >>
  PROVE  /\ FirstAbove \in cut[1] .. cut[2] + 1
         /\ \A k \in cut[1] .. FirstAbove - 1 : array[k] <= array[PartStart]
         /\ FirstAbove <= cut[2] => array[FirstAbove] > array[PartStart]
         /\ LastBelow \in FirstAbove - 1 .. cut[2]
         /\ \A k \in LastBelow + 1 .. cut[2] : array[k] >= array[PartStart]
         /\ LastBelow >= FirstAbove => array[LastBelow] < array[PartStart]
  <1>. DEFINE pivot == array[PartStart]
              A == {k \in cut[1] .. cut[2] : array[k] > pivot} \cup {cut[2] + 1}
              B == {k \in FirstAbove .. cut[2] : array[k] < pivot} \cup {FirstAbove - 1}
  <1>1. /\ cut[1] \in Nat /\ cut[2] \in Nat /\ cut[1] >= 1 /\ cut[1] < cut[2]
        /\ PartStart \in Index /\ \A k \in cut[1] .. cut[2] : k \in Index
    <2>1. Last(sorting) \in Part
      BY DEF SortOK, CutOK, Last
    <2>2. PartStart \in 0 .. ArrayLength /\ PartEnd \in 0 .. ArrayLength
      BY <2>1 DEF Part, PartStart, PartEnd
    <2>. HIDE DEF PartStart, PartEnd
    <2>3. cut[1] \in Int /\ cut[2] \in Int
          /\ PartStart + 1 <= cut[1] /\ cut[1] < cut[2] /\ cut[2] <= PartEnd - 1
      BY DEF SortOK, CutOK
    <2>. QED  BY <2>2, <2>3, ArrayLengthTyped DEF Index
  <1>2. pivot \in Nat /\ \A k \in cut[1] .. cut[2] : array[k] \in Nat
    BY <1>1 DEF SortOK
  <1>3. FirstAbove \in A /\ \A y \in A : FirstAbove <= y
    <2>1. A \subseteq Nat /\ A # {}
      BY <1>1
    <2>2. Min(A) \in A /\ \A y \in A : Min(A) <= y
      BY <2>1, LeastIsMin
    <2>. QED  BY <2>2 DEF FirstAbove
  <1>4. FirstAbove \in cut[1] .. cut[2] + 1
    BY <1>1, <1>3
  <1>5. ASSUME NEW k \in cut[1] .. FirstAbove - 1 PROVE array[k] <= pivot
    <2>1. k \notin A /\ k \in cut[1] .. cut[2]
      BY <1>1, <1>3, <1>4, <1>5
    <2>. QED  BY <1>2, <2>1
  <1>6. FirstAbove <= cut[2] => array[FirstAbove] > pivot
    BY <1>1, <1>3, <1>4
  <1>7. LastBelow \in B /\ \A y \in B : LastBelow >= y
    <2>1. B \subseteq 0 .. cut[2] /\ B # {}
      BY <1>1, <1>4
    <2>2. Max(B) \in B /\ \A y \in B : Max(B) >= y
      BY <1>1, <2>1, GreatestIsMax
    <2>. QED  BY <2>2 DEF LastBelow
  <1>8. LastBelow \in FirstAbove - 1 .. cut[2]
    BY <1>1, <1>4, <1>7
  <1>9. ASSUME NEW k \in LastBelow + 1 .. cut[2] PROVE array[k] >= pivot
    <2>1. k \notin B /\ k \in FirstAbove .. cut[2] /\ k \in cut[1] .. cut[2]
      BY <1>1, <1>4, <1>7, <1>8, <1>9
    <2>. QED  BY <1>2, <2>1
  <1>10. LastBelow >= FirstAbove => array[LastBelow] < pivot
    BY <1>1, <1>4, <1>7, <1>8
  <1>. QED  BY <1>4, <1>5, <1>6, <1>8, <1>9, <1>10

LEMMA FrontIs ==
  ASSUME NEW T, NEW s \in Seq(T), s # << >>
  PROVE  /\ Len(s) \in Nat \ {0}
         /\ Front(s) \in Seq(T) /\ Len(Front(s)) = Len(s) - 1
         /\ \A k \in 1 .. Len(s) - 1 : Front(s)[k] = s[k]
  <1>1. Len(s) \in Nat \ {0} /\ \A k \in 1 .. Len(s) - 1 : s[k] \in T
    BY LenProperties, EmptySeq
  <1>. DEFINE m == Len(s) - 1
  <1>2. m \in Nat /\ \A k \in 1 .. m : s[k] \in T
    BY <1>1
  <1>. HIDE DEF m
  <1>3. /\ SubSeq(s, 1, m) \in Seq(T)
        /\ Len(SubSeq(s, 1, m)) = IF 1 <= m THEN m - 1 + 1 ELSE 0
        /\ \A k \in 1 .. m - 1 + 1 : SubSeq(s, 1, m)[k] = s[1 + k - 1]
    BY <1>2, SubSeqProperties
  <1>4. /\ SubSeq(s, 1, m) \in Seq(T) /\ Len(SubSeq(s, 1, m)) = m
        /\ \A k \in 1 .. m : SubSeq(s, 1, m)[k] = s[k]
    BY <1>2, <1>3
  <1>. QED  BY <1>1, <1>4 DEF Front, m

\* The part to sort next.
LEMMA TopIs ==
  ASSUME uses = "array", SortOK, sorting # << >>
  PROVE  /\ Len(sorting) \in Nat \ {0} /\ Last(sorting) = sorting[Len(sorting)]
         /\ PartStart = sorting[Len(sorting)][1] /\ PartEnd = sorting[Len(sorting)][2]
         /\ PartStart \in 0 .. ArrayLength /\ PartEnd \in 0 .. ArrayLength
         /\ Front(sorting) \in Seq(Part) /\ Len(Front(sorting)) = Len(sorting) - 1
         /\ \A k \in 1 .. Len(sorting) - 1 : Front(sorting)[k] = sorting[k]
  <1>1. sorting \in Seq(Part) /\ Len(sorting) \in Nat \ {0}
    BY DEF SortOK
  <1>2. sorting[Len(sorting)] \in Part
    BY <1>1
  <1>3. /\ Front(sorting) \in Seq(Part) /\ Len(Front(sorting)) = Len(sorting) - 1
        /\ \A k \in 1 .. Len(sorting) - 1 : Front(sorting)[k] = sorting[k]
    BY <1>1, FrontIs
  <1>. QED  BY <1>1, <1>2, <1>3 DEF Part, Last, PartStart, PartEnd

\* The two parts that a pivot at mid leaves of start .. end.
Pieces(s, e, mid) ==
  CASE mid - s > 1 /\ e - mid > 1 -> PushLarger(<<s, mid>>, <<mid + 1, e>>)
    [] mid - s > 1 /\ e - mid <= 1 -> << <<s, mid>> >>
    [] OTHER -> << <<mid + 1, e>> >>

LEMMA PiecesAre ==
  ASSUME NEW s \in 0 .. ArrayLength, NEW e \in 0 .. ArrayLength, NEW mid \in Int,
         s <= mid, mid < e
  PROVE  LET X == Pieces(s, e, mid) IN
         /\ X \in Seq(Part) /\ Len(X) \in 1 .. 2
         /\ \A k \in 1 .. Len(X) : X[k] = <<s, mid>> \/ X[k] = <<mid + 1, e>>
         /\ \A k, m \in 1 .. Len(X) : k # m => X[k][2] <= X[m][1] \/ X[m][2] <= X[k][1]
         /\ mid - s > 1 => \E k \in 1 .. Len(X) : X[k] = <<s, mid>>
         /\ e - mid > 2 => \E k \in 1 .. Len(X) : X[k] = <<mid + 1, e>>
         /\ Len(X) = 2 => 2 * (X[2][2] - X[2][1]) <= e - s
  <1>. DEFINE lower == <<s, mid>>
              upper == <<mid + 1, e>>
              X == Pieces(s, e, mid)
  <1>1. lower \in Part /\ upper \in Part
    BY ArrayLengthTyped DEF Part
  <1>2. /\ lower[1] = s /\ lower[2] = mid /\ upper[1] = mid + 1 /\ upper[2] = e
    OBVIOUS
  <1>3. \/ mid - s > 1 /\ e - mid > 1 /\ mid - s < e - mid - 1 /\ X = <<upper, lower>>
        \/ mid - s > 1 /\ e - mid > 1 /\ mid - s >= e - mid - 1 /\ X = <<lower, upper>>
        \/ mid - s > 1 /\ e - mid <= 1 /\ X = <<lower>>
        \/ mid - s <= 1 /\ X = <<upper>>
    <2>1. CASE mid - s > 1 /\ e - mid > 1
      BY <1>2, <2>1, ArrayLengthTyped DEF Pieces, PushLarger
    <2>2. CASE mid - s > 1 /\ e - mid <= 1
      BY <2>2 DEF Pieces
    <2>3. CASE mid - s <= 1
      BY <2>3 DEF Pieces
    <2>. QED  BY <2>1, <2>2, <2>3, ArrayLengthTyped
  <1>4. s \in Int /\ e \in Int
    BY ArrayLengthTyped
  <1>. HIDE DEF X, lower, upper
  <1>5. CASE mid - s > 1 /\ e - mid > 1 /\ mid - s < e - mid - 1 /\ X = <<upper, lower>>
    <2>1. Len(X) = 2 /\ X[1] = upper /\ X[2] = lower /\ X \in Seq(Part)
      BY <1>1, <1>5
    <2>. QED  BY <1>2, <1>4, <1>5, <2>1 DEF X, lower, upper
  <1>6. CASE mid - s > 1 /\ e - mid > 1 /\ mid - s >= e - mid - 1 /\ X = <<lower, upper>>
    <2>1. Len(X) = 2 /\ X[1] = lower /\ X[2] = upper /\ X \in Seq(Part)
      BY <1>1, <1>6
    <2>. QED  BY <1>2, <1>4, <1>6, <2>1 DEF X, lower, upper
  <1>7. CASE mid - s > 1 /\ e - mid <= 1 /\ X = <<lower>>
    <2>1. Len(X) = 1 /\ X[1] = lower /\ X \in Seq(Part)
      BY <1>1, <1>7
    <2>. QED  BY <1>2, <1>4, <1>7, <2>1 DEF X, lower, upper
  <1>8. CASE mid - s <= 1 /\ X = <<upper>>
    <2>1. Len(X) = 1 /\ X[1] = upper /\ X \in Seq(Part)
      BY <1>1, <1>8
    <2>. QED  BY <1>2, <1>4, <1>8, <2>1 DEF X, lower, upper
  <1>. QED  BY <1>3, <1>5, <1>6, <1>7, <1>8

LEMMA Appended ==
  ASSUME NEW T, NEW s \in Seq(T), NEW x \in Seq(T)
  PROVE  /\ s \o x \in Seq(T) /\ Len(s \o x) = Len(s) + Len(x)
         /\ \A k \in 1 .. Len(s) : (s \o x)[k] = s[k]
         /\ \A k \in 1 .. Len(x) : (s \o x)[Len(s) + k] = x[k]
  OBVIOUS

\* The top part of the stack gives way to others.
LEMMA TopReplaced ==
  ASSUME uses = "array", SortOK, sorting # << >>, NEW X \in Seq(Part)
  PROVE  /\ Front(sorting) \o X \in Seq(Part)
         /\ Len(Front(sorting) \o X) = Len(sorting) - 1 + Len(X)
         /\ \A k \in 1 .. Len(sorting) - 1 : (Front(sorting) \o X)[k] = sorting[k]
         /\ \A k \in 1 .. Len(X) : (Front(sorting) \o X)[Len(sorting) - 1 + k] = X[k]
  <1>. DEFINE F == Front(sorting)
              n == Len(sorting)
  <1>1. F \in Seq(Part) /\ Len(F) = n - 1 /\ \A k \in 1 .. n - 1 : F[k] = sorting[k]
    BY TopIs
  <1>. HIDE DEF F, n
  <1>2. /\ F \o X \in Seq(Part) /\ Len(F \o X) = Len(F) + Len(X)
        /\ \A k \in 1 .. Len(F) : (F \o X)[k] = F[k]
        /\ \A k \in 1 .. Len(X) : (F \o X)[Len(F) + k] = X[k]
    BY <1>1
  <1>3. /\ F \o X \in Seq(Part) /\ Len(F \o X) = n - 1 + Len(X)
        /\ \A k \in 1 .. n - 1 : (F \o X)[k] = sorting[k]
        /\ \A k \in 1 .. Len(X) : (F \o X)[n - 1 + k] = X[k]
    BY <1>1, <1>2
  <1>. QED  BY <1>3 DEF F, n

\* Where the last j of the numbers up to n - 1 + j stand.
LEMMA InTail ==
  ASSUME NEW n \in Nat \ {0}, NEW j \in Nat, NEW k \in n .. n - 1 + j
  PROVE  k - n + 1 \in 1 .. j /\ n - 1 + (k - n + 1) = k
  OBVIOUS

\* The pieces that a pivot leaves of it.
LEMMA SplitIs ==
  ASSUME uses = "array", SortOK, sorting # << >>,
         NEW mid \in Int, PartStart <= mid, mid < PartEnd,
         NEW X, X = Pieces(PartStart, PartEnd, mid),
         NEW parts \in Seq(Part), Len(parts) = Len(sorting) - 1 + Len(X),
         \A k \in 1 .. Len(sorting) - 1 : parts[k] = sorting[k],
         \A k \in 1 .. Len(X) : parts[Len(sorting) - 1 + k] = X[k]
  PROVE  /\ Apart(parts)
         /\ Len(parts) = Len(sorting) \/ Len(parts) = Len(sorting) + 1
         /\ \A k \in Len(sorting) .. Len(parts) :
              parts[k] = <<PartStart, mid>> \/ parts[k] = <<mid + 1, PartEnd>>
         /\ mid - PartStart > 1 =>
              \E k \in Len(sorting) .. Len(parts) : parts[k] = <<PartStart, mid>>
         /\ PartEnd - mid > 2 =>
              \E k \in Len(sorting) .. Len(parts) : parts[k] = <<mid + 1, PartEnd>>
         /\ Len(parts) = Len(sorting) + 1 =>
              2 * (parts[Len(parts)][2] - parts[Len(parts)][1]) <= PartEnd - PartStart
  <1>. DEFINE n == Len(sorting)
              s == PartStart
              e == PartEnd
  <1>1. /\ n \in Nat \ {0} /\ s = sorting[n][1] /\ e = sorting[n][2]
        /\ s \in 0 .. ArrayLength /\ e \in 0 .. ArrayLength
    BY TopIs
  <1>2. /\ X \in Seq(Part) /\ Len(X) \in 1 .. 2
        /\ \A k \in 1 .. Len(X) : X[k] = <<s, mid>> \/ X[k] = <<mid + 1, e>>
        /\ \A k, m \in 1 .. Len(X) : k # m => X[k][2] <= X[m][1] \/ X[m][2] <= X[k][1]
        /\ mid - s > 1 => \E k \in 1 .. Len(X) : X[k] = <<s, mid>>
        /\ e - mid > 2 => \E k \in 1 .. Len(X) : X[k] = <<mid + 1, e>>
        /\ Len(X) = 2 => 2 * (X[2][2] - X[2][1]) <= e - s
    <2>1. s \in 0 .. ArrayLength /\ e \in 0 .. ArrayLength /\ s <= mid /\ mid < e
      BY <1>1
    <2>. QED  BY <2>1, PiecesAre, ZenonT(30)
  <1>3. /\ parts \in Seq(Part) /\ Len(parts) = n - 1 + Len(X)
        /\ \A k \in 1 .. n - 1 : parts[k] = sorting[k]
        /\ \A k \in 1 .. Len(X) : parts[n - 1 + k] = X[k]
    OBVIOUS
  <1>. Len(X) \in Nat
    BY <1>2
  <1>4. /\ \A k \in 1 .. n : sorting[k] \in Part
        /\ \A k, m \in 1 .. n :
             k # m => sorting[k][2] <= sorting[m][1] \/ sorting[m][2] <= sorting[k][1]
    <2>1. sorting \in Seq(Part) /\ Apart(sorting)
      BY DEF SortOK
    <2>2. \A k \in 1 .. n : sorting[k] \in Part
      BY <2>1
    <2>. QED  BY <2>1, <2>2, Zenon DEF Apart
  <1>5. \A k \in 1 .. n : sorting[k][1] \in Int /\ sorting[k][2] \in Int
    BY <1>4, ArrayLengthTyped DEF Part
  <1>. HIDE DEF n, s, e
  <1>6. ASSUME NEW k \in n .. Len(parts)
        PROVE  /\ k - n + 1 \in 1 .. Len(X) /\ parts[k] = X[k - n + 1]
               /\ s <= parts[k][1] /\ parts[k][2] <= e
               /\ parts[k][1] \in Int /\ parts[k][2] \in Int
    <2>. k \in n .. n - 1 + Len(X)
      BY <1>3, Zenon
    <2>1. k - n + 1 \in 1 .. Len(X) /\ n - 1 + (k - n + 1) = k
      BY <1>1, InTail, Zenon
    <2>2. parts[k] = X[k - n + 1]
      BY <1>3, <2>1
    <2>3. parts[k] = <<s, mid>> \/ parts[k] = <<mid + 1, e>>
      BY <1>2, <2>1, <2>2
    <2>4. s \in Int /\ e \in Int /\ s <= mid /\ mid < e
      BY <1>1, ArrayLengthTyped, SMTT(30) DEF s, e
    <2>. QED  BY <2>1, <2>2, <2>3, <2>4, SMTT(30)
  <1>7. Apart(parts)
    <2>. SUFFICES ASSUME NEW k \in 1 .. Len(parts), NEW m \in 1 .. Len(parts), k # m
                  PROVE  parts[k][2] <= parts[m][1] \/ parts[m][2] <= parts[k][1]
      BY DEF Apart
    <2>1. n \in 1 .. n
      BY <1>1
    <2>2. CASE k < n /\ m < n
      <3>1. k \in 1 .. n - 1 /\ m \in 1 .. n - 1 /\ k \in 1 .. n /\ m \in 1 .. n
        BY <1>1, <2>2
      <3>. QED  BY <1>3, <1>4, <3>1
    <2>3. CASE k < n /\ m >= n
      <3>1. k \in 1 .. n - 1 /\ k \in 1 .. n /\ m \in n .. Len(parts) /\ k # n
        BY <1>1, <1>2, <1>3, <2>3
      <3>2. sorting[k][2] <= s \/ e <= sorting[k][1]
        BY <1>1, <1>4, <2>1, <3>1
      <3>3. s \in Int /\ e \in Int /\ sorting[k][1] \in Int /\ sorting[k][2] \in Int
        BY <1>1, <1>5, <3>1, ArrayLengthTyped, SMTT(30)
      <3>4. parts[k] = sorting[k]
        BY <1>3, <3>1
      <3>5. s <= parts[m][1] /\ parts[m][2] <= e
              /\ parts[m][1] \in Int /\ parts[m][2] \in Int
        BY <1>6, <3>1
      <3>. QED  BY <3>2, <3>3, <3>4, <3>5, SMTT(30)
    <2>4. CASE k >= n /\ m < n
      <3>1. m \in 1 .. n - 1 /\ m \in 1 .. n /\ k \in n .. Len(parts) /\ m # n
        BY <1>1, <1>2, <1>3, <2>4
      <3>2. sorting[m][2] <= s \/ e <= sorting[m][1]
        BY <1>1, <1>4, <2>1, <3>1
      <3>3. s \in Int /\ e \in Int /\ sorting[m][1] \in Int /\ sorting[m][2] \in Int
        BY <1>1, <1>5, <3>1, ArrayLengthTyped
      <3>4. parts[m] = sorting[m]
        BY <1>3, <3>1
      <3>5. s <= parts[k][1] /\ parts[k][2] <= e
              /\ parts[k][1] \in Int /\ parts[k][2] \in Int
        BY <1>6, <3>1
      <3>. QED  BY <3>2, <3>3, <3>4, <3>5, SMTT(30)
    <2>5. CASE k >= n /\ m >= n
      <3>1. k \in n .. Len(parts) /\ m \in n .. Len(parts)
        BY <1>1, <1>2, <1>3, <2>5
      <3>2. k - n + 1 # m - n + 1
        BY <1>1
      <3>. QED  BY <1>2, <1>6, <3>1, <3>2
    <2>. QED  BY <1>1, <2>2, <2>3, <2>4, <2>5
  <1>8. Len(parts) = n + 1 => 2 * (parts[Len(parts)][2] - parts[Len(parts)][1]) <= e - s
    <2>. SUFFICES ASSUME Len(parts) = n + 1
                  PROVE  2 * (parts[Len(parts)][2] - parts[Len(parts)][1]) <= e - s
      OBVIOUS
    <2>1. Len(X) = 2 /\ Len(parts) \in n .. Len(parts) /\ Len(parts) - n + 1 = 2
      BY <1>1, <1>2, <1>3
    <2>2. parts[Len(parts)] = X[2]
      BY <1>6, <2>1
    <2>. QED  BY <1>2, <2>1, <2>2
  <1>9. ASSUME NEW part, \E k \in 1 .. Len(X) : X[k] = part
        PROVE  \E k \in n .. Len(parts) : parts[k] = part
    <2>1. PICK k \in 1 .. Len(X) : X[k] = part
      BY <1>9
    <2>2. n - 1 + k \in n .. Len(parts)
      BY <1>1, <1>2, <1>3
    <2>3. parts[n - 1 + k] = part
      BY <1>3, <2>1
    <2>. QED  BY <2>2, <2>3
  <1>10. Len(parts) = n \/ Len(parts) = n + 1
    <2>1. CASE Len(X) = 1
      BY <1>1, <1>3, <2>1
    <2>2. CASE Len(X) = 2
      BY <1>1, <1>3, <2>2
    <2>. QED  BY <1>2, <2>1, <2>2
  <1>11. \A k \in n .. Len(parts) : parts[k] = <<s, mid>> \/ parts[k] = <<mid + 1, e>>
    BY <1>2, <1>6
  <1>. QED  BY <1>2, <1>3, <1>7, <1>8, <1>9, <1>10, <1>11 DEF n, s, e

\* A pivot in its place splits the order of the array with the top part.
LEMMA PivotAscends ==
  ASSUME uses = "array", SortOK, sorting # << >>,
         NEW mid \in Int, PartStart <= mid, mid < PartEnd,
         NEW a \in [Index -> Nat], Ascends(a, sorting),
         \A x \in PartStart .. mid : a[x] <= a[mid],
         \A x \in mid .. PartEnd - 1 : a[x] >= a[mid],
         NEW parts \in Seq(Part), Len(parts) >= Len(sorting),
         \A k \in 1 .. Len(sorting) - 1 : parts[k] = sorting[k],
         mid - PartStart > 1 =>
           \E k \in Len(sorting) .. Len(parts) : parts[k] = <<PartStart, mid>>,
         PartEnd - mid > 2 =>
           \E k \in Len(sorting) .. Len(parts) : parts[k] = <<mid + 1, PartEnd>>
  PROVE  Ascends(a, parts)
  <1>. DEFINE n == Len(sorting)
              s == PartStart
              e == PartEnd
  <1>1. /\ n \in Nat \ {0} /\ s = sorting[n][1] /\ e = sorting[n][2]
        /\ s \in 0 .. ArrayLength /\ e \in 0 .. ArrayLength
    BY TopIs
  <1>2. /\ Len(parts) \in Nat /\ Len(parts) >= n
        /\ \A k \in 1 .. n - 1 : parts[k] = sorting[k]
        /\ mid - s > 1 => \E k \in n .. Len(parts) : parts[k] = <<s, mid>>
        /\ e - mid > 2 => \E k \in n .. Len(parts) : parts[k] = <<mid + 1, e>>
    OBVIOUS
  <1>3. /\ \A x \in s .. mid : a[x] <= a[mid]
        /\ \A x \in mid .. e - 1 : a[x] >= a[mid]
    OBVIOUS
  <1>4. s \in Int /\ e \in Int /\ mid \in Int /\ s <= mid /\ mid < e /\ mid \in Index
    BY <1>1, ArrayLengthTyped, SMTT(30) DEF Index
  <1>5. \A x \in Index : x \in Int /\ a[x] \in Int
    BY ArrayLengthTyped DEF Index
  <1>. HIDE DEF n, s, e
  <1>6. SUFFICES ASSUME NEW x \in Index, NEW y \in Index, x < y
                 PROVE  a[x] <= a[y]
                        \/ \E k \in 1 .. Len(parts) : In(x, parts[k]) /\ In(y, parts[k])
    BY DEF Ascends
  <1>7. CASE a[x] <= a[y]
    BY <1>7
  <1>8. ASSUME NEW k \in 1 .. n, In(x, sorting[k]), In(y, sorting[k])
        PROVE  a[x] <= a[y]
               \/ \E m \in 1 .. Len(parts) : In(x, parts[m]) /\ In(y, parts[m])
    <2>1. CASE k < n
      <3>1. k \in 1 .. n - 1 /\ k \in 1 .. Len(parts)
        BY <1>1, <1>2, <2>1
      <3>2. parts[k] = sorting[k]
        BY <1>2, <3>1
      <3>. QED  BY <1>8, <3>1, <3>2
    <2>2. CASE k = n
      <3>1. s <= x /\ y < e /\ x < y /\ x \in Int /\ y \in Int
        BY <1>1, <1>5, <1>6, <1>8, <2>2 DEF In
      <3>2. CASE x <= mid /\ mid <= y
        <4>1. x \in s .. mid /\ y \in mid .. e - 1
          BY <1>4, <3>1, <3>2
        <4>2. a[x] <= a[mid] /\ a[mid] <= a[y]
          BY <1>3, <4>1
        <4>. QED  BY <1>4, <1>5, <4>2
      <3>3. CASE y < mid
        <4>1. mid - s > 1
          BY <1>4, <3>1, <3>3
        <4>2. PICK m \in n .. Len(parts) : parts[m] = <<s, mid>>
          BY <1>2, <4>1
        <4>3. m \in 1 .. Len(parts)
          BY <1>1, <1>2
        <4>4. parts[m][1] = s /\ parts[m][2] = mid
          BY <4>2
        <4>5. In(x, parts[m]) /\ In(y, parts[m])
          BY <1>4, <3>1, <3>3, <4>4 DEF In
        <4>. QED  BY <4>3, <4>5
      <3>4. CASE mid < x
        <4>1. e - mid > 2
          BY <1>4, <3>1, <3>4
        <4>2. PICK m \in n .. Len(parts) : parts[m] = <<mid + 1, e>>
          BY <1>2, <4>1
        <4>3. m \in 1 .. Len(parts)
          BY <1>1, <1>2
        <4>4. parts[m][1] = mid + 1 /\ parts[m][2] = e
          BY <4>2
        <4>5. In(x, parts[m]) /\ In(y, parts[m])
          BY <1>4, <3>1, <3>4, <4>4 DEF In
        <4>. QED  BY <4>3, <4>5
      <3>. QED  BY <1>4, <3>1, <3>2, <3>3, <3>4
    <2>. QED  BY <1>1, <2>1, <2>2
  <1>9. a[x] <= a[y] \/ \E k \in 1 .. n : In(x, sorting[k]) /\ In(y, sorting[k])
    BY <1>6 DEF Ascends, n
  <1>. QED  BY <1>8, <1>9

\* A piece of at most half the part it is cut from may lie one place higher.
LEMMA HalfHigher ==
  ASSUME NEW n \in Nat, NEW small \in Int, NEW large \in Int, NEW whole \in Int,
         2 * small <= large, 2^n * large <= whole
  PROVE  2^(n + 1) * small <= whole
  <1>. DEFINE w == 2^n
  <1>1. w \in Nat /\ 2^(n + 1) = 2 * w
    BY PowerDoubles
  <1>. HIDE DEF w
  <1>2. w * (2 * small) <= w * large /\ w * (2 * small) = (2 * w) * small
    BY <1>1
  <1>3. w * large <= whole
    BY DEF w
  <1>4. w * large \in Int /\ (2 * w) * small \in Int
    BY <1>1
  <1>. QED  BY <1>1, <1>2, <1>3, <1>4

\* The halves of the stack when the top part gives way to its pieces.
LEMMA SplitHalves ==
  ASSUME uses = "array", SortOK, sorting # << >>,
         NEW mid \in Int, PartStart <= mid, mid < PartEnd,
         NEW parts \in Seq(Part),
         Len(parts) = Len(sorting) \/ Len(parts) = Len(sorting) + 1,
         \A k \in 1 .. Len(sorting) - 1 : parts[k] = sorting[k],
         \A k \in Len(sorting) .. Len(parts) :
           parts[k] = <<PartStart, mid>> \/ parts[k] = <<mid + 1, PartEnd>>,
         Len(parts) = Len(sorting) + 1 =>
           2 * (parts[Len(parts)][2] - parts[Len(parts)][1]) <= PartEnd - PartStart
  PROVE  \A k \in 1 .. Len(parts) : 2^(k - 1) * (parts[k][2] - parts[k][1]) <= ArrayLength
  <1>. DEFINE n == Len(sorting)
              s == PartStart
              e == PartEnd
  <1>1. /\ n \in Nat \ {0} /\ s = sorting[n][1] /\ e = sorting[n][2]
        /\ s \in 0 .. ArrayLength /\ e \in 0 .. ArrayLength
    BY TopIs
  <1>2. /\ Len(parts) = n \/ Len(parts) = n + 1
        /\ \A k \in 1 .. n - 1 : parts[k] = sorting[k]
        /\ \A k \in n .. Len(parts) : parts[k] = <<s, mid>> \/ parts[k] = <<mid + 1, e>>
        /\ Len(parts) = n + 1 =>
             2 * (parts[Len(parts)][2] - parts[Len(parts)][1]) <= e - s
    OBVIOUS
  <1>3. \A k \in 1 .. n : 2^(k - 1) * (sorting[k][2] - sorting[k][1]) <= ArrayLength
    BY DEF SortOK, StackHalves
  <1>4. s \in Int /\ e \in Int /\ s <= mid /\ mid < e
    BY <1>1, ArrayLengthTyped
  <1>. HIDE DEF n, s, e
  <1>5. 2^(n - 1) \in Nat /\ 2^(n - 1) * (e - s) <= ArrayLength
    <2>1. n - 1 \in Nat /\ n \in 1 .. n
      BY <1>1
    <2>2. 2^(n - 1) \in Nat
      BY <2>1, PowerDoubles
    <2>. QED  BY <1>1, <1>3, <2>1, <2>2
  <1>6. SUFFICES ASSUME NEW k \in 1 .. Len(parts)
                 PROVE  2^(k - 1) * (parts[k][2] - parts[k][1]) <= ArrayLength
    OBVIOUS
  <1>7. CASE k < n
    <2>1. k \in 1 .. n - 1 /\ k \in 1 .. n
      BY <1>1, <1>7
    <2>. QED  BY <1>2, <1>3, <2>1
  <1>8. CASE k = n
    <2>1. k \in n .. Len(parts)
      BY <1>1, <1>2, <1>8
    <2>2. parts[k] = <<s, mid>> \/ parts[k] = <<mid + 1, e>>
      BY <1>2, <2>1
    <2>. DEFINE w == 2^(n - 1)
                d == parts[k][2] - parts[k][1]
    <2>3. d \in Int /\ d <= e - s
      BY <1>4, <2>2
    <2>4. w \in Nat /\ w * (e - s) <= ArrayLength
      BY <1>5
    <2>. HIDE DEF w, d
    <2>5. w * d <= ArrayLength
      <3>1. w * d <= w * (e - s) /\ w * d \in Int /\ w * (e - s) \in Int
        BY <1>4, <2>3, <2>4
      <3>. QED  BY <2>4, <3>1, ArrayLengthTyped
    <2>. QED  BY <1>8, <2>5 DEF w, d
  <1>9. CASE k = n + 1
    <2>1. Len(parts) = n + 1
      BY <1>1, <1>2, <1>9
    <2>2. k \in n .. Len(parts)
      BY <1>1, <1>9, <2>1
    <2>3. parts[k] = <<s, mid>> \/ parts[k] = <<mid + 1, e>>
      BY <1>2, <2>2
    <2>. DEFINE d == parts[k][2] - parts[k][1]
                q == n - 1
    <2>4. d \in Int
      BY <1>4, <2>3
    <2>5. 2 * d <= e - s
      BY <1>2, <1>9, <2>1
    <2>6. q \in Nat /\ q + 1 = k - 1 /\ 2^q * (e - s) <= ArrayLength
      BY <1>1, <1>5, <1>9
    <2>7. e - s \in Int /\ ArrayLength \in Int
      BY <1>4, ArrayLengthTyped
    <2>. HIDE DEF d, q
    <2>8. 2^(q + 1) * d <= ArrayLength
      BY <2>4, <2>5, <2>6, <2>7, HalfHigher
    <2>. QED  BY <2>6, <2>8 DEF d
  <1>. QED  BY <1>1, <1>2, <1>7, <1>8, <1>9

LEMMA SortOKInit ==
  ASSUME ArraysInit PROVE SortOK
  <1>. SUFFICES ASSUME uses = "array" PROVE SortOK
    BY DEF SortOK
  <1>1. /\ array \in [Index -> Number] /\ given = array
        /\ sorting = <<<<0, ArrayLength>>>> /\ cut = << >>
    BY DEF ArraysInit, ArraysInitial, Index
  <1>2. Number \subseteq Nat
    BY SglibAssumption
  <1>3. array \in [Index -> Nat] /\ given \in [Index -> Nat]
    BY <1>1, <1>2
  <1>4. /\ sorting \in Seq(Part) /\ Len(sorting) = 1
        /\ sorting[1][1] = 0 /\ sorting[1][2] = ArrayLength
    BY <1>1, ArrayLengthTyped DEF Part
  <1>5. Apart(sorting)
    BY <1>4 DEF Apart
  <1>6. Ascends(array, sorting)
    <2>1. 1 \in 1 .. Len(sorting) /\ \A x \in Index : In(x, sorting[1])
      BY <1>4, ArrayLengthTyped DEF In, Index
    <2>. QED  BY <2>1 DEF Ascends
  <1>7. Rearranged(array)
    <2>. DEFINE from == [x \in Index |-> x]
    <2>1. from \in [Index -> Index] /\ \A x \in Index : from[x] = x
      OBVIOUS
    <2>. HIDE DEF from
    <2>2. /\ \A u, v \in Index : from[u] = from[v] => u = v
          /\ \A y \in Index : \E x \in Index : from[x] = y
      BY <2>1
    <2>3. from \in Bijection(Index, Index)
      BY <2>1, <2>2, Fun_IsBij
    <2>. QED  BY <1>1, <2>1, <2>3 DEF Rearranged
  <1>8. CutOK
    BY <1>1 DEF CutOK
  <1>9. StackHalves
    <2>1. IsFiniteSet({}) /\ Cardinality({}) = 0
      BY FS_EmptySet
    <2>2. Cardinality(SUBSET {}) = 2^0
      BY <2>1, FS_SUBSET
    <2>3. SUBSET {} = {{}}
      OBVIOUS
    <2>4. 2^0 = 1
      BY <2>2, <2>3, FS_Singleton
    <2>5. ASSUME NEW k \in DOMAIN sorting
          PROVE  2^(k - 1) * (sorting[k][2] - sorting[k][1]) <= ArrayLength
      <3>1. k = 1 /\ k - 1 = 0
        BY <1>4
      <3>2. 2^(k - 1) = 1
        BY <2>4, <3>1
      <3>. QED  BY <1>4, <3>1, <3>2, ArrayLengthTyped
    <2>. QED  BY <2>5 DEF StackHalves
  <1>. QED  BY <1>3, <1>4, <1>5, <1>6, <1>7, <1>8, <1>9 DEF SortOK

\* The indexes of the part that a partition sorts.
LEMMA TopIndexes ==
  ASSUME uses = "array", SortOK, sorting # << >>
  PROVE  /\ PartStart \in 0 .. ArrayLength /\ PartEnd \in 0 .. ArrayLength
         /\ Len(sorting) \in 1 .. Len(sorting)
         /\ \A x \in PartStart .. PartEnd - 1 : x \in Index /\ x \in Int /\ In(x, sorting[Len(sorting)])
  <1>1. /\ Len(sorting) \in Nat \ {0}
        /\ PartStart = sorting[Len(sorting)][1] /\ PartEnd = sorting[Len(sorting)][2]
        /\ PartStart \in 0 .. ArrayLength /\ PartEnd \in 0 .. ArrayLength
    BY TopIs
  <1>2. ASSUME NEW x \in PartStart .. PartEnd - 1
        PROVE  x \in Index /\ x \in Int /\ In(x, sorting[Len(sorting)])
    BY <1>1, ArrayLengthTyped DEF Index, In
  <1>. QED  BY <1>1, <1>2

LEMMA BeginPartitionSorts ==
  ASSUME SortOK, BeginPartition PROVE SortOK'
  <1>1. /\ uses = "array" /\ sorting # << >> /\ PartEnd - PartStart > 2
        /\ cut' = <<PartStart + 1, PartEnd - 1>>
        /\ array' = array /\ sorting' = sorting /\ given' = given /\ uses' = uses
    BY DEF BeginPartition, sortFrame
  <1>2. PartStart \in Int /\ PartEnd \in Int /\ PartStart' = PartStart /\ PartEnd' = PartEnd
    BY <1>1, TopIndexes, ArrayLengthTyped DEF PartStart, PartEnd
  <1>3. CutOK'
    <2>1. /\ cut'[1] = PartStart + 1 /\ cut'[2] = PartEnd - 1
      BY <1>1
    <2>2. /\ \A x \in PartStart + 1 .. cut'[1] - 1 : array'[x] <= array'[PartStart]
          /\ \A x \in cut'[2] + 1 .. PartEnd - 1 : array'[x] >= array'[PartStart]
      BY <1>2, <2>1
    <2>. QED  BY <1>1, <1>2, <2>1, <2>2 DEF CutOK
  <1>. QED  BY <1>1, <1>3 DEF SortOK, Apart, Ascends, Rearranged, StackHalves

\* The ends of a partition, and what they have passed.
LEMMA CutIs ==
  ASSUME uses = "array", SortOK, cut # << >>
  PROVE  /\ sorting # << >> /\ cut[1] \in Int /\ cut[2] \in Int
         /\ PartStart \in Int /\ PartEnd \in Int
         /\ PartStart + 1 <= cut[1] /\ cut[1] < cut[2] /\ cut[2] <= PartEnd - 1
         /\ \A x \in PartStart .. PartEnd - 1 : array[x] \in Int
         /\ \A x \in PartStart + 1 .. cut[1] - 1 : array[x] <= array[PartStart]
         /\ \A x \in cut[2] + 1 .. PartEnd - 1 : array[x] >= array[PartStart]
  <1>1. CutOK /\ array \in [Index -> Nat]
    BY DEF SortOK
  <1>2. sorting # << >>
    BY <1>1 DEF CutOK
  <1>3. /\ PartStart \in 0 .. ArrayLength /\ PartEnd \in 0 .. ArrayLength
        /\ \A x \in PartStart .. PartEnd - 1 : x \in Index
    BY <1>2, TopIndexes
  <1>4. PartStart \in Int /\ PartEnd \in Int
    BY <1>3, ArrayLengthTyped
  <1>5. \A x \in PartStart .. PartEnd - 1 : array[x] \in Int
    BY <1>1, <1>3
  <1>. QED  BY <1>1, <1>4, <1>5 DEF CutOK

LEMMA ExchangeSorts ==
  ASSUME SortOK, Exchange PROVE SortOK'
  <1>. DEFINE f == FirstAbove
              l == LastBelow
              s == PartStart
              e == PartEnd
              c == cut[1]
              d == cut[2]
  <1>1. /\ uses = "array" /\ cut # << >> /\ f <= d /\ f < l
        /\ array' = Swap(array, f, l)
        /\ cut' = <<IF f + 1 < l THEN f + 1 ELSE f, IF f + 2 < l THEN l - 1 ELSE l>>
        /\ sorting' = sorting /\ given' = given /\ uses' = uses
    BY DEF Exchange, Partitioning, sortFrame
  <1>2. /\ sorting # << >> /\ c \in Int /\ d \in Int /\ s \in Int /\ e \in Int
        /\ s + 1 <= c /\ c < d /\ d <= e - 1
        /\ \A x \in s .. e - 1 : array[x] \in Int
        /\ \A x \in s + 1 .. c - 1 : array[x] <= array[s]
        /\ \A x \in d + 1 .. e - 1 : array[x] >= array[s]
    BY <1>1, CutIs
  <1>3. /\ f \in c .. d + 1 /\ l \in f - 1 .. d
        /\ \A x \in c .. f - 1 : array[x] <= array[s]
        /\ f <= d => array[f] > array[s]
        /\ \A x \in l + 1 .. d : array[x] >= array[s]
        /\ l >= f => array[l] < array[s]
    BY <1>1, Found
  <1>4. /\ Len(sorting) \in 1 .. Len(sorting)
        /\ \A x \in s .. e - 1 : x \in Index /\ In(x, sorting[Len(sorting)])
    BY <1>1, <1>2, TopIndexes
  <1>5. s' = s /\ e' = e
    BY <1>1 DEF PartStart, PartEnd
  <1>6. f \in Int /\ l \in Int /\ f \in s .. e - 1 /\ l \in s .. e - 1
    <2>. HIDE DEF f, l, s, e, c, d
    <2>1. f \in Int /\ l \in Int
      BY <1>2, <1>3
    <2>. QED  BY <1>1, <1>2, <1>3, <2>1
  <1>7. /\ array \in [Index -> Nat] /\ sorting \in Seq(Part) /\ given \in [Index -> Nat]
        /\ Apart(sorting) /\ Ascends(array, sorting) /\ Rearranged(array) /\ StackHalves
    BY <1>1 DEF SortOK
  <1>. DEFINE b == Swap(array, f, l)
  <1>8. f \in Index /\ l \in Index
    BY <1>4, <1>6
  <1>9. /\ b \in [Index -> Nat] /\ b[f] = array[l] /\ b[l] = array[f]
        /\ \A x \in Index : x # f /\ x # l => b[x] = array[x]
    <2>. HIDE DEF f, l
    <2>. QED  BY <1>7, <1>8 DEF Swap
  <1>10. Ascends(b, sorting)
    BY <1>4, <1>6, <1>7, <1>8, SwapAscends
  <1>11. Rearranged(b)
    BY <1>7, <1>8, SwapRearranges
  <1>12. array' = b /\ cut' # << >>
         /\ cut'[1] = (IF f + 1 < l THEN f + 1 ELSE f) /\ cut'[2] = (IF f + 2 < l THEN l - 1 ELSE l)
    BY <1>1
  <1>. HIDE DEF f, l, s, e, c, d, b
  <1>13. \A x \in s .. e - 1 : x \in Int /\ x # f /\ x # l => b[x] = array[x]
    BY <1>4, <1>9
  <1>14. b[s] = array[s] /\ array[s] \in Int
    <2>1. s \in s .. e - 1 /\ s # f /\ s # l
      BY <1>1, <1>2, <1>3, <1>6
    <2>. QED  BY <1>2, <1>13, <2>1
  <1>15. /\ cut'[1] \in Int /\ cut'[2] \in Int
         /\ s + 1 <= cut'[1] /\ cut'[1] < cut'[2] /\ cut'[2] <= e - 1
         /\ cut'[1] <= f + 1 /\ cut'[2] >= l - 1
    <2>1. f \in Int /\ l \in Int /\ c <= f /\ l <= d /\ f < l
      BY <1>1, <1>2, <1>3, <1>6
    <2>. QED  BY <1>2, <1>12, <2>1
  <1>16. ASSUME NEW x \in s + 1 .. cut'[1] - 1 PROVE b[x] <= b[s]
    <2>1. x \in Int /\ x \in s .. e - 1 /\ x <= f
      BY <1>2, <1>6, <1>15
    <2>2. CASE x = f
      <3>1. b[x] = array[l] /\ array[l] < array[s] /\ array[l] \in Int
        BY <1>1, <1>2, <1>3, <1>6, <1>9, <2>2
      <3>. QED  BY <1>14, <3>1
    <2>3. CASE x < f
      <3>1. x \in s + 1 .. c - 1 \/ x \in c .. f - 1
        BY <1>2, <1>6, <2>1, <2>3
      <3>2. array[x] <= array[s]
        BY <1>2, <1>3, <3>1
      <3>3. b[x] = array[x]
        BY <1>1, <1>6, <1>13, <2>1, <2>3
      <3>. QED  BY <1>14, <3>2, <3>3
    <2>. QED  BY <1>6, <2>1, <2>2, <2>3
  <1>17. ASSUME NEW x \in cut'[2] + 1 .. e - 1 PROVE b[x] >= b[s]
    <2>1. x \in Int /\ x \in s .. e - 1 /\ x >= l
      BY <1>2, <1>6, <1>15
    <2>2. CASE x = l
      <3>1. b[x] = array[f] /\ array[f] > array[s] /\ array[f] \in Int
        BY <1>1, <1>2, <1>3, <1>6, <1>9, <2>2
      <3>. QED  BY <1>14, <3>1
    <2>3. CASE x > l
      <3>1. x \in l + 1 .. d \/ x \in d + 1 .. e - 1
        BY <1>2, <1>6, <2>1, <2>3
      <3>2. array[x] >= array[s]
        BY <1>2, <1>3, <3>1
      <3>3. b[x] = array[x]
        BY <1>1, <1>6, <1>13, <2>1, <2>3
      <3>. QED  BY <1>14, <3>2, <3>3
    <2>. QED  BY <1>6, <2>1, <2>2, <2>3
  <1>18. CutOK'
    <2>1. /\ \A x \in s' + 1 .. cut'[1] - 1 : array'[x] <= array'[s']
          /\ \A x \in cut'[2] + 1 .. e' - 1 : array'[x] >= array'[s']
      BY <1>5, <1>12, <1>16, <1>17
    <2>2. /\ sorting' # << >> /\ cut'[1] \in Int /\ cut'[2] \in Int
          /\ s' + 1 <= cut'[1] /\ cut'[1] < cut'[2] /\ cut'[2] <= e' - 1
      BY <1>1, <1>2, <1>5, <1>15
    <2>. QED  BY <2>1, <2>2 DEF CutOK, s, e
  <1>19. Ascends(array, sorting)' /\ Rearranged(array)'
    BY <1>1, <1>10, <1>11, <1>12 DEF Ascends, Rearranged
  <1>20. Apart(sorting)' /\ StackHalves' /\ array' \in [Index -> Nat]
    BY <1>1, <1>7, <1>9, <1>12 DEF Apart, StackHalves
  <1>. QED  BY <1>1, <1>7, <1>18, <1>19, <1>20 DEF SortOK

\* Where a partition that has nothing left to exchange puts the pivot.
Middle == IF FirstAbove > cut[2] THEN cut[2] ELSE LastBelow

LEMMA MiddleIs ==
  ASSUME SortOK, PlacePivot
  PROVE  /\ Middle \in Int /\ PartStart <= Middle /\ Middle < PartEnd
         /\ \A x \in PartStart + 1 .. Middle : array[x] <= array[PartStart]
         /\ \A x \in Middle + 1 .. PartEnd - 1 : array[x] >= array[PartStart]
  <1>. DEFINE f == FirstAbove
              l == LastBelow
              s == PartStart
              e == PartEnd
              c == cut[1]
              d == cut[2]
              m == Middle
  <1>1. uses = "array" /\ cut # << >> /\ (f > d \/ f >= l)
    BY DEF PlacePivot, Partitioning
  <1>2. /\ c \in Int /\ d \in Int /\ s \in Int /\ e \in Int
        /\ s + 1 <= c /\ c < d /\ d <= e - 1
        /\ \A x \in s .. e - 1 : array[x] \in Int
        /\ \A x \in s + 1 .. c - 1 : array[x] <= array[s]
        /\ \A x \in d + 1 .. e - 1 : array[x] >= array[s]
    BY <1>1, CutIs
  <1>3. /\ f \in c .. d + 1 /\ l \in f - 1 .. d
        /\ \A x \in c .. f - 1 : array[x] <= array[s]
        /\ f <= d => array[f] > array[s]
        /\ \A x \in l + 1 .. d : array[x] >= array[s]
        /\ l >= f => array[l] < array[s]
    BY <1>1, Found
  <1>4. m = IF f > d THEN d ELSE l
    BY DEF Middle
  <1>. HIDE DEF f, l, s, e, c, d, m
  <1>5. f \in Int /\ l \in Int /\ f - 1 <= l /\ l <= d /\ c <= f /\ f <= d + 1
    BY <1>2, <1>3
  <1>6. m = f - 1 /\ m = l
    <2>1. CASE f > d
      BY <1>2, <1>4, <1>5, <2>1
    <2>2. CASE f <= d
      <3>1. f >= l
        BY <1>1, <1>2, <1>5, <2>2
      <3>2. ASSUME f = l PROVE FALSE
        <4>1. array[f] > array[s] /\ array[f] < array[s]
          BY <1>3, <1>5, <2>2, <3>2
        <4>2. s \in s .. e - 1 /\ f \in s .. e - 1
          BY <1>2, <1>5, <2>2
        <4>. QED  BY <1>2, <4>1, <4>2
      <3>3. ~ (f > d)
        BY <1>2, <1>5, <2>2
      <3>. QED  BY <1>4, <1>5, <3>1, <3>2, <3>3
    <2>. QED  BY <1>2, <1>5, <2>1, <2>2
  <1>7. m \in Int /\ s <= m /\ m < e
    BY <1>2, <1>5, <1>6
  <1>8. ASSUME NEW x \in s + 1 .. m PROVE array[x] <= array[s]
    <2>1. x \in s + 1 .. c - 1 \/ x \in c .. f - 1
      BY <1>2, <1>5, <1>6
    <2>. QED  BY <1>2, <1>3, <2>1
  <1>9. ASSUME NEW x \in m + 1 .. e - 1 PROVE array[x] >= array[s]
    <2>1. x \in l + 1 .. d \/ x \in d + 1 .. e - 1
      BY <1>2, <1>5, <1>6
    <2>. QED  BY <1>2, <1>3, <2>1
  <1>. QED  BY <1>7, <1>8, <1>9 DEF m, s, e

LEMMA PlacePivotSorts ==
  ASSUME SortOK, PlacePivot PROVE SortOK'
  <1>. DEFINE s == PartStart
              e == PartEnd
              m == Middle
              b == Swap(array, m, s)
              X == Pieces(s, e, m)
              parts == Front(sorting) \o X
              n == Len(sorting)
  <1>1. /\ uses = "array" /\ sorting # << >> /\ cut # << >>
        /\ array' = b /\ sorting' = parts /\ cut' = << >> /\ given' = given /\ uses' = uses
    <2>1. uses = "array" /\ cut # << >>
      BY DEF PlacePivot, Partitioning
    <2>2. sorting # << >>
      BY <2>1, CutIs
    <2>. QED  BY <2>1, <2>2 DEF PlacePivot, Middle, Pieces, sortFrame
  <1>2. /\ m \in Int /\ s <= m /\ m < e
        /\ \A x \in s + 1 .. m : array[x] <= array[s]
        /\ \A x \in m + 1 .. e - 1 : array[x] >= array[s]
    BY MiddleIs
  <1>3. /\ s \in 0 .. ArrayLength /\ e \in 0 .. ArrayLength /\ n \in 1 .. n
        /\ \A x \in s .. e - 1 : x \in Index /\ x \in Int /\ In(x, sorting[n])
    BY <1>1, TopIndexes
  <1>4. /\ array \in [Index -> Nat] /\ sorting \in Seq(Part) /\ given \in [Index -> Nat]
        /\ Apart(sorting) /\ Ascends(array, sorting) /\ Rearranged(array)
    BY <1>1 DEF SortOK
  <1>5. s \in s .. e - 1 /\ m \in s .. e - 1 /\ s \in Int /\ e \in Int
    BY <1>2, <1>3, ArrayLengthTyped
  <1>6. s \in Index /\ m \in Index
    BY <1>3, <1>5
  <1>7. /\ b \in [Index -> Nat] /\ b[m] = array[s] /\ b[s] = array[m]
        /\ \A x \in Index : x # s /\ x # m => b[x] = array[x]
    <2>. HIDE DEF s, m
    <2>. QED  BY <1>4, <1>6 DEF Swap
  <1>8. Ascends(b, sorting)
    BY <1>3, <1>4, <1>5, <1>6, SwapAscends
  <1>9. Rearranged(b)
    BY <1>4, <1>6, SwapRearranges
  <1>10. ASSUME NEW x \in s .. m PROVE b[x] <= b[m]
    <2>. HIDE DEF s, e, m, b
    <2>1. x \in s .. e - 1 /\ x \in Index /\ x \in Int /\ array[s] \in Int
      BY <1>2, <1>3, <1>4, <1>5, <1>6
    <2>2. CASE x = m
      BY <1>7, <2>1, <2>2
    <2>3. CASE x = s /\ s # m
      <3>1. m \in s + 1 .. m
        BY <1>2, <1>5, <2>3
      <3>. QED  BY <1>2, <1>7, <2>3, <3>1
    <2>4. CASE x # s /\ x # m
      <3>1. x \in s + 1 .. m
        BY <1>5, <2>4
      <3>. QED  BY <1>2, <1>7, <2>1, <2>4, <3>1
    <2>. QED  BY <2>2, <2>3, <2>4
  <1>11. ASSUME NEW x \in m .. e - 1 PROVE b[x] >= b[m]
    <2>. HIDE DEF s, e, m, b
    <2>1. x \in s .. e - 1 /\ x \in Index /\ x \in Int /\ array[s] \in Int
      BY <1>2, <1>3, <1>4, <1>5, <1>6
    <2>2. CASE x = m
      BY <1>7, <2>1, <2>2
    <2>3. CASE x # m
      <3>1. x \in m + 1 .. e - 1 /\ x # s
        BY <1>2, <1>5, <2>3
      <3>. QED  BY <1>2, <1>7, <2>1, <2>3, <3>1
    <2>. QED  BY <2>2, <2>3
  <1>12. X \in Seq(Part) /\ s <= m /\ m < e
    <2>. HIDE DEF s, e, m
    <2>. QED  BY <1>2, <1>3, PiecesAre
  <1>13. /\ parts \in Seq(Part) /\ Len(parts) = n - 1 + Len(X)
         /\ \A k \in 1 .. n - 1 : parts[k] = sorting[k]
         /\ \A k \in 1 .. Len(X) : parts[n - 1 + k] = X[k]
    <2>. HIDE DEF X
    <2>. QED  BY <1>1, <1>12, TopReplaced
  <1>14. X = Pieces(PartStart, PartEnd, m)
    OBVIOUS
  <1>15. PartStart <= m /\ m < PartEnd
    BY <1>2
  <1>. HIDE DEF X, parts, m
  <1>16. /\ Apart(parts)
         /\ Len(parts) = n \/ Len(parts) = n + 1
         /\ \A k \in n .. Len(parts) : parts[k] = <<s, m>> \/ parts[k] = <<m + 1, e>>
         /\ m - s > 1 => \E k \in n .. Len(parts) : parts[k] = <<s, m>>
         /\ e - m > 2 => \E k \in n .. Len(parts) : parts[k] = <<m + 1, e>>
         /\ Len(parts) = n + 1 => 2 * (parts[Len(parts)][2] - parts[Len(parts)][1]) <= e - s
    <2>1. /\ uses = "array" /\ sorting # << >> /\ m \in Int /\ parts \in Seq(Part)
          /\ Len(parts) = Len(sorting) - 1 + Len(X)
          /\ \A k \in 1 .. Len(sorting) - 1 : parts[k] = sorting[k]
          /\ \A k \in 1 .. Len(X) : parts[Len(sorting) - 1 + k] = X[k]
      BY <1>1, <1>2, <1>13
    <2>. HIDE DEF n, s, e
    <2>2. Apart(parts) /\ (Len(parts) = Len(sorting) \/ Len(parts) = Len(sorting) + 1)
      BY <1>14, <1>15, <2>1, SplitIs, SMTT(60)
    <2>3. \A k \in Len(sorting) .. Len(parts) :
            parts[k] = <<PartStart, m>> \/ parts[k] = <<m + 1, PartEnd>>
      BY <1>14, <1>15, <2>1, SplitIs, SMTT(60)
    <2>4. m - PartStart > 1 =>
            \E k \in Len(sorting) .. Len(parts) : parts[k] = <<PartStart, m>>
      BY <1>14, <1>15, <2>1, SplitIs, SMTT(60)
    <2>5. PartEnd - m > 2 =>
            \E k \in Len(sorting) .. Len(parts) : parts[k] = <<m + 1, PartEnd>>
      BY <1>14, <1>15, <2>1, SplitIs, SMTT(60)
    <2>6. Len(parts) = Len(sorting) + 1 =>
            2 * (parts[Len(parts)][2] - parts[Len(parts)][1]) <= PartEnd - PartStart
      BY <1>14, <1>15, <2>1, SplitIs, SMTT(60)
    <2>. QED  BY <2>2, <2>3, <2>4, <2>5, <2>6, Zenon DEF n, s, e
  <1>17. Len(parts) >= Len(sorting)
    BY <1>3, <1>16
  <1>. HIDE DEF b
  <1>18. Ascends(b, parts)
    BY <1>1, <1>2, <1>7, <1>8, <1>10, <1>11, <1>13, <1>15, <1>16, <1>17, PivotAscends
  <1>19. \A k \in 1 .. Len(parts) : 2^(k - 1) * (parts[k][2] - parts[k][1]) <= ArrayLength
    BY <1>1, <1>2, <1>13, <1>15, <1>16, SplitHalves
  <1>20. StackHalves'
    <2>1. DOMAIN sorting' = 1 .. Len(parts) /\ sorting' = parts
      BY <1>1, <1>13, LenProperties
    <2>. QED  BY <1>19, <2>1, Zenon DEF StackHalves
  <1>21. Ascends(array, sorting)' /\ Rearranged(array)' /\ Apart(sorting)'
    BY <1>1, <1>9, <1>16, <1>18 DEF Ascends, Rearranged, Apart
  <1>. QED  BY <1>1, <1>4, <1>7, <1>13, <1>20, <1>21 DEF SortOK, CutOK

LEMMA OrderPairSorts ==
  ASSUME SortOK, OrderPair PROVE SortOK'
  <1>. DEFINE s == PartStart
              e == PartEnd
              n == Len(sorting)
              rest == Front(sorting)
              swaps == e - s = 2 /\ array[s] > array[e - 1]
              b == IF swaps THEN Swap(array, s, e - 1) ELSE array
  <1>1. /\ uses = "array" /\ sorting # << >> /\ cut = << >> /\ e - s <= 2
        /\ array' = b /\ sorting' = rest /\ cut' = << >> /\ given' = given /\ uses' = uses
    BY DEF OrderPair, sortFrame
  <1>2. /\ s \in 0 .. ArrayLength /\ e \in 0 .. ArrayLength /\ n \in 1 .. n
        /\ \A x \in s .. e - 1 : x \in Index /\ x \in Int /\ In(x, sorting[n])
    BY <1>1, TopIndexes
  <1>3. /\ n \in Nat \ {0} /\ s = sorting[n][1] /\ e = sorting[n][2]
        /\ rest \in Seq(Part) /\ Len(rest) = n - 1
        /\ \A k \in 1 .. n - 1 : rest[k] = sorting[k]
    BY <1>1, TopIs
  <1>4. /\ array \in [Index -> Nat] /\ sorting \in Seq(Part) /\ given \in [Index -> Nat]
        /\ Apart(sorting) /\ Ascends(array, sorting) /\ Rearranged(array) /\ StackHalves
    BY <1>1 DEF SortOK
  <1>5. s \in Int /\ e \in Int
    BY <1>2, ArrayLengthTyped
  <1>6. e - s = 2 => s \in Index /\ e - 1 \in Index /\ In(s, sorting[n]) /\ In(e - 1, sorting[n])
    <2>1. ASSUME e - s = 2 PROVE s \in s .. e - 1 /\ e - 1 \in s .. e - 1
      BY <1>5, <2>1
    <2>. QED  BY <1>2, <2>1
  <1>7. b \in [Index -> Nat] /\ Ascends(b, sorting) /\ Rearranged(b)
    <2>1. CASE swaps
      <3>1. b = Swap(array, s, e - 1) /\ e - s = 2
        BY <2>1
      <3>2. Ascends(Swap(array, s, e - 1), sorting)
        BY <1>2, <1>4, <1>6, <3>1, SwapAscends
      <3>3. Rearranged(Swap(array, s, e - 1))
        BY <1>4, <1>6, <3>1, SwapRearranges
      <3>4. Swap(array, s, e - 1) \in [Index -> Nat]
        BY <1>4, <1>6, <3>1 DEF Swap
      <3>. QED  BY <3>1, <3>2, <3>3, <3>4
    <2>2. CASE ~ swaps
      BY <1>4, <2>2
    <2>. QED  BY <2>1, <2>2
  <1>8. e - s = 2 => b[s] <= b[e - 1]
    <2>. SUFFICES ASSUME e - s = 2 PROVE b[s] <= b[e - 1]
      OBVIOUS
    <2>1. s \in Index /\ e - 1 \in Index /\ s # e - 1
      BY <1>5, <1>6
    <2>2. array[s] \in Int /\ array[e - 1] \in Int
      BY <1>4, <2>1
    <2>3. CASE swaps
      <3>1. b[s] = array[e - 1] /\ b[e - 1] = array[s]
        BY <1>4, <2>1, <2>3 DEF Swap
      <3>. QED  BY <2>2, <2>3, <3>1
    <2>4. CASE ~ swaps
      BY <2>2, <2>4
    <2>. QED  BY <2>3, <2>4
  <1>. HIDE DEF b, s, e, n, rest
  <1>9. Ascends(b, rest)
    <2>. SUFFICES ASSUME NEW x \in Index, NEW y \in Index, x < y, ~ (b[x] <= b[y])
                  PROVE  \E k \in 1 .. Len(rest) : In(x, rest[k]) /\ In(y, rest[k])
      BY DEF Ascends
    <2>1. PICK k \in 1 .. n : In(x, sorting[k]) /\ In(y, sorting[k])
      BY <1>7 DEF Ascends, n
    <2>2. CASE k = n
      <3>1. s <= x /\ y < e /\ x \in Int /\ y \in Int
        BY <1>3, <2>1, <2>2, ArrayLengthTyped DEF In, Index
      <3>2. x = s /\ y = e - 1 /\ e - s = 2
        BY <1>1, <1>5, <3>1
      <3>. QED  BY <1>8, <3>2
    <2>3. CASE k # n
      <3>1. k \in 1 .. n - 1 /\ k \in 1 .. Len(rest)
        BY <1>3, <2>3
      <3>. QED  BY <1>3, <2>1, <3>1
    <2>. QED  BY <2>2, <2>3
  <1>10. Apart(rest)
    <2>1. \A k \in 1 .. Len(rest) : k \in 1 .. n /\ rest[k] = sorting[k]
      BY <1>3
    <2>. QED  BY <1>4, <2>1 DEF Apart, n
  <1>11. \A k \in 1 .. Len(rest) : 2^(k - 1) * (rest[k][2] - rest[k][1]) <= ArrayLength
    <2>1. \A k \in 1 .. Len(rest) : k \in 1 .. n /\ rest[k] = sorting[k]
      BY <1>3
    <2>2. \A k \in 1 .. n : 2^(k - 1) * (sorting[k][2] - sorting[k][1]) <= ArrayLength
      BY <1>1, <1>4 DEF StackHalves, n
    <2>. QED  BY <2>1, <2>2
  <1>12. StackHalves'
    BY <1>1, <1>3, <1>11 DEF StackHalves
  <1>13. Ascends(array, sorting)' /\ Rearranged(array)' /\ Apart(sorting)'
    BY <1>1, <1>7, <1>9, <1>10 DEF Ascends, Rearranged, Apart
  <1>. QED  BY <1>1, <1>3, <1>4, <1>7, <1>12, <1>13 DEF SortOK, CutOK

LEMMA SortOKStep ==
  ASSUME SortOK, [ArraysNext]_arraysVars PROVE SortOK'
  <1>1. CASE BeginPartition
    BY <1>1, BeginPartitionSorts
  <1>2. CASE Exchange
    BY <1>2, ExchangeSorts
  <1>3. CASE PlacePivot
    BY <1>3, PlacePivotSorts
  <1>4. CASE OrderPair
    BY <1>4, OrderPairSorts
  <1>5. ASSUME UNCHANGED <<uses, arrayVars>> PROVE SortOK'
    <2>1. /\ uses' = uses /\ array' = array /\ given' = given
          /\ sorting' = sorting /\ cut' = cut
      BY <1>5 DEF arrayVars
    <2>. QED  BY <2>1 DEF SortOK, Apart, Ascends, Rearranged, CutOK, StackHalves, PartStart, PartEnd
  <1>6. CASE \/ queue_delete \/ heap_delete \/ init_heap_beebs
             \/ \E n \in Number : hashed_add(n) \/ hashed_delete_if_member(n) \/ queue_add(n)
             \/ \E n \in TreeNumber : heap_add(n)
             \/ \E size \in Sizes : malloc_beebs(size)
             \/ UNCHANGED arraysVars
    <2>1. UNCHANGED <<uses, arrayVars>>
      BY <1>6 DEF queue_delete, heap_delete, init_heap_beebs, hashed_add,
                  hashed_delete_if_member, queue_add, heap_add, malloc_beebs, arraysVars
    <2>. QED  BY <1>5, <2>1
  <1>. QED  BY <1>1, <1>2, <1>3, <1>4, <1>6 DEF ArraysNext

\* As often in the array as in the one that was given: the rearrangement pairs them.
LEMMA SameNumbers ==
  ASSUME Rearranged(array), NEW n
  PROVE  Cardinality(Places(array, n)) = Cardinality(Places(given, n))
  <1>. DEFINE A == Places(array, n)
              G == Places(given, n)
  <1>1. PICK from \in Bijection(Index, Index) : \A x \in Index : array[x] = given[from[x]]
    BY DEF Rearranged
  <1>2. /\ from \in [Index -> Index] /\ \A u, v \in Index : from[u] = from[v] => u = v
        /\ \A t \in Index : \E u \in Index : from[u] = t
    BY <1>1, Fun_BijectionProperties
  <1>3. /\ \A x : x \in A <=> x \in Index /\ array[x] = n
        /\ \A x : x \in G <=> x \in Index /\ given[x] = n
    BY DEF Places, Index
  <1>. HIDE DEF A, G
  <1>. DEFINE f == [x \in A |-> from[x]]
  <1>4. f \in [A -> G] /\ \A x \in A : f[x] = from[x]
    BY <1>1, <1>2, <1>3
  <1>. HIDE DEF f
  <1>5. \A u, v \in A : f[u] = f[v] => u = v
    BY <1>2, <1>3, <1>4
  <1>6. ASSUME NEW y \in G PROVE \E x \in A : f[x] = y
    <2>1. PICK u \in Index : from[u] = y
      BY <1>2, <1>3
    <2>2. u \in A
      BY <1>1, <1>3, <2>1
    <2>. QED  BY <1>4, <2>1, <2>2
  <1>7. f \in Bijection(A, G)
    BY <1>4, <1>5, <1>6, Fun_IsBij
  <1>8. IsFiniteSet(A)
    <2>1. IsFiniteSet(Index)
      BY FS_Interval, ArrayLengthTyped DEF Index
    <2>2. A \subseteq Index
      BY <1>3
    <2>. QED  BY <2>1, <2>2, FS_Subset
  <1>9. Cardinality(A) = Cardinality(G)
    BY <1>7, <1>8, FS_Bijection, Fun_ExistsBij
  <1>. QED  BY <1>9 DEF A, G

LEMMA SortedByOK ==
  ASSUME SortOK PROVE QuickSorts
  <1>1. StackHalves
    BY DEF SortOK, StackHalves
  <1>2. ASSUME uses = "array", sorting = << >>
        PROVE  /\ \A k \in 1 .. ArrayLength - 1 : array[k - 1] <= array[k]
               /\ \A n \in Number : Cardinality(Places(array, n)) = Cardinality(Places(given, n))
    <2>1. Ascends(array, sorting) /\ Rearranged(array) /\ Len(sorting) = 0
      BY <1>2 DEF SortOK
    <2>2. ASSUME NEW k \in 1 .. ArrayLength - 1 PROVE array[k - 1] <= array[k]
      <3>1. k - 1 \in Index /\ k \in Index /\ k - 1 < k
        BY ArrayLengthTyped DEF Index
      <3>. QED  BY <2>1, <3>1 DEF Ascends
    <2>. QED  BY <2>1, <2>2, SameNumbers
  <1>. QED  BY <1>1, <1>2 DEF QuickSorts, ArraySorted

\* Quicksort leaves the numbers it was given in ascending order, and the part at
\* place k of its stack, counted from 1 at the bottom, has at most
\* ArrayLength / 2^(k - 1) elements (SGLIB_ARRAY_QUICK_SORT, sglib.h:99).
THEOREM QuicksortSorts == ArraysSpec => []QuickSorts
  <1>1. ArraysInit => SortOK
    BY SortOKInit
  <1>2. SortOK /\ [ArraysNext]_arraysVars => SortOK'
    BY SortOKStep
  <1>3. SortOK => QuickSorts
    BY SortedByOK
  <1>. QED  BY <1>1, <1>2, <1>3, PTL DEF ArraysSpec

-----------------------------------------------------------------------------
(* Nothing is lost: the allocator and the queue.                           *)

MemOK ==
  uses = "malloc" =>
    /\ mem \in [ptr : Nat, requested : Nat, failed : BOOLEAN]
    /\ ~ mem.failed => mem.ptr = mem.requested /\ mem.requested <= HEAP_SIZE
    /\ mem.failed => mem.requested > HEAP_SIZE

QueueOK ==
  uses = "queue" =>
    /\ queue \in [0 .. MAX_PARAMS - 1 -> Nat] /\ fifo \in Seq(Nat)
    /\ ai \in 0 .. MAX_PARAMS - 1 /\ aj \in 0 .. MAX_PARAMS - 1
    /\ Len(fifo) = (aj - ai) % MAX_PARAMS
    /\ \A k \in 1 .. Len(fifo) : fifo[k] = queue[(ai + k - 1) % MAX_PARAMS]

LEMMA ConstantsTyped ==
  /\ HEAP_SIZE \in Nat /\ Sizes \subseteq Nat /\ Number \subseteq Nat /\ TreeNumber \subseteq Nat
  /\ MAX_PARAMS \in Nat \ {0} /\ HASH_TAB_SIZE \in Nat \ {0}
  BY SglibAssumption

LEMMA MemStep ==
  ASSUME MemOK, [ArraysNext]_arraysVars PROVE MemOK'
  <1>1. ASSUME NEW size \in Sizes, malloc_beebs(size) PROVE MemOK'
    <2>. DEFINE fails == size = 0 \/ mem.ptr + size > HEAP_SIZE
    <2>1. /\ uses = "malloc" /\ uses' = uses
          /\ mem' = [ptr |-> IF fails THEN mem.ptr ELSE mem.ptr + size,
                     requested |-> mem.requested + size,
                     failed |-> mem.failed \/ (fails /\ size # 0)]
      BY <1>1 DEF malloc_beebs
    <2>2. size \in Nat /\ HEAP_SIZE \in Nat
      BY ConstantsTyped
    <2>3. /\ mem.ptr \in Nat /\ mem.requested \in Nat /\ mem.failed \in BOOLEAN
          /\ ~ mem.failed => mem.ptr = mem.requested /\ mem.requested <= HEAP_SIZE
          /\ mem.failed => mem.requested > HEAP_SIZE
      BY <2>1 DEF MemOK
    <2>4. /\ mem'.ptr = (IF fails THEN mem.ptr ELSE mem.ptr + size)
          /\ mem'.requested = mem.requested + size
          /\ mem'.failed = (mem.failed \/ (fails /\ size # 0))
          /\ mem' \in [ptr : Nat, requested : Nat, failed : BOOLEAN]
      BY <2>1, <2>2, <2>3
    <2>5. /\ ~ mem'.failed => mem'.ptr = mem'.requested /\ mem'.requested <= HEAP_SIZE
          /\ mem'.failed => mem'.requested > HEAP_SIZE
      <3>1. CASE mem.failed
        BY <2>2, <2>3, <2>4, <3>1
      <3>2. CASE ~ mem.failed
        BY <2>2, <2>3, <2>4, <3>2
      <3>. QED  BY <3>1, <3>2
    <2>. QED  BY <2>1, <2>4, <2>5 DEF MemOK
  <1>2. CASE init_heap_beebs
    BY <1>2, ConstantsTyped DEF init_heap_beebs, MemOK
  <1>3. ASSUME UNCHANGED <<uses, mem>> PROVE MemOK'
    BY <1>3 DEF MemOK
  <1>4. CASE \/ BeginPartition \/ Exchange \/ PlacePivot \/ OrderPair
             \/ queue_delete \/ heap_delete
             \/ \E n \in Number : hashed_add(n) \/ hashed_delete_if_member(n) \/ queue_add(n)
             \/ \E n \in TreeNumber : heap_add(n)
             \/ UNCHANGED arraysVars
    <2>1. UNCHANGED <<uses, mem>>
      BY <1>4 DEF BeginPartition, Exchange, PlacePivot, OrderPair, sortFrame,
                  queue_delete, heap_delete, hashed_add, hashed_delete_if_member,
                  queue_add, heap_add, arraysVars
    <2>. QED  BY <1>3, <2>1
  <1>. QED  BY <1>1, <1>2, <1>4 DEF ArraysNext

\* How the indexes of an array of m elements wrap.
LEMMA NextIndex ==
  ASSUME NEW m \in Nat \ {0}, NEW x \in 0 .. m - 1
  PROVE  (x + 1) % m \in 0 .. m - 1 /\ (x + 1) % m = IF x + 1 = m THEN 0 ELSE x + 1
  <1>1. CASE x + 1 = m
    BY <1>1
  <1>2. CASE x + 1 # m
    BY <1>2
  <1>. QED  BY <1>1, <1>2

LEMMA Distance ==
  ASSUME NEW m \in Nat \ {0}, NEW x \in 0 .. m - 1, NEW y \in 0 .. m - 1
  PROVE  (x - y) % m \in 0 .. m - 1 /\ (x - y) % m = IF x >= y THEN x - y ELSE x - y + m
  <1>1. CASE x >= y
    BY <1>1
  <1>2. CASE ~ (x >= y)
    BY <1>2
  <1>. QED  BY <1>1, <1>2

LEMMA IndexFrom ==
  ASSUME NEW m \in Nat \ {0}, NEW x \in 0 .. m - 1, NEW k \in 1 .. m
  PROVE  /\ (x + k - 1) % m \in 0 .. m - 1
         /\ (x + k - 1) % m = IF x + k - 1 < m THEN x + k - 1 ELSE x + k - 1 - m
  <1>1. CASE x + k - 1 < m
    BY <1>1
  <1>2. CASE ~ (x + k - 1 < m)
    BY <1>2
  <1>. QED  BY <1>1, <1>2

\* The index after x, the index of the k-th element from x on, and the number of
\* elements from x up to y.
Following(x) == (x + 1) % MAX_PARAMS
IndexAt(x, k) == (x + k - 1) % MAX_PARAMS
InUse(x, y) == (y - x) % MAX_PARAMS

LEMMA OneMore ==
  ASSUME NEW x \in 0 .. MAX_PARAMS - 1, NEW y \in 0 .. MAX_PARAMS - 1, x # Following(y)
  PROVE  /\ InUse(x, y) \in Nat /\ Following(y) \in 0 .. MAX_PARAMS - 1
         /\ InUse(x, Following(y)) = InUse(x, y) + 1
         /\ IndexAt(x, InUse(x, y) + 1) = y
         /\ \A k \in 1 .. InUse(x, y) : IndexAt(x, k) \in 0 .. MAX_PARAMS - 1 /\ IndexAt(x, k) # y
  <1>. DEFINE m == MAX_PARAMS
              z == Following(y)
              d == InUse(x, y)
  <1>0. m \in Nat \ {0}
    BY ConstantsTyped
  <1>1. z \in 0 .. m - 1 /\ z = IF y + 1 = m THEN 0 ELSE y + 1
    BY <1>0, NextIndex DEF Following
  <1>2. d \in 0 .. m - 1 /\ d = IF y >= x THEN y - x ELSE y - x + m
    BY <1>0, Distance DEF InUse
  <1>. HIDE DEF z, d
  <1>3. InUse(x, z) = IF z >= x THEN z - x ELSE z - x + m
    BY <1>0, <1>1, Distance DEF InUse
  <1>4. x # z
    BY DEF z
  <1>5. x \in Int /\ y \in Int /\ 0 <= x /\ x < m /\ 0 <= y /\ y < m
    BY <1>0
  <1>6. \A k \in 1 .. m : /\ IndexAt(x, k) \in 0 .. m - 1
                          /\ IndexAt(x, k) = IF x + k - 1 < m THEN x + k - 1 ELSE x + k - 1 - m
    BY <1>0, IndexFrom DEF IndexAt
  <1>. HIDE DEF m
  <1>7. d < m - 1 /\ InUse(x, z) = d + 1
    BY <1>0, <1>1, <1>2, <1>3, <1>4, <1>5
  <1>8. IndexAt(x, d + 1) = y
    <2>1. d + 1 \in 1 .. m
      BY <1>0, <1>2, <1>7
    <2>2. IndexAt(x, d + 1) = IF x + (d + 1) - 1 < m THEN x + (d + 1) - 1 ELSE x + (d + 1) - 1 - m
      BY <1>6, <2>1
    <2>. QED  BY <1>0, <1>2, <1>5, <2>2
  <1>9. ASSUME NEW k \in 1 .. d PROVE IndexAt(x, k) \in 0 .. m - 1 /\ IndexAt(x, k) # y
    <2>1. k \in 1 .. m /\ k \in Int /\ 1 <= k /\ k <= d
      BY <1>0, <1>2
    <2>2. /\ IndexAt(x, k) \in 0 .. m - 1
          /\ IndexAt(x, k) = IF x + k - 1 < m THEN x + k - 1 ELSE x + k - 1 - m
      BY <1>6, <2>1
    <2>. QED  BY <1>0, <1>2, <1>5, <2>1, <2>2
  <1>. QED  BY <1>1, <1>2, <1>7, <1>8, <1>9 DEF z, d, m

LEMMA OneLess ==
  ASSUME NEW x \in 0 .. MAX_PARAMS - 1, NEW y \in 0 .. MAX_PARAMS - 1, x # y
  PROVE  /\ InUse(x, y) \in Nat \ {0} /\ Following(x) \in 0 .. MAX_PARAMS - 1
         /\ InUse(Following(x), y) = InUse(x, y) - 1
         /\ \A k \in 1 .. InUse(x, y) - 1 : IndexAt(Following(x), k) = IndexAt(x, k + 1)
  <1>. DEFINE m == MAX_PARAMS
              z == Following(x)
              d == InUse(x, y)
  <1>0. m \in Nat \ {0}
    BY ConstantsTyped
  <1>1. z \in 0 .. m - 1 /\ z = IF x + 1 = m THEN 0 ELSE x + 1
    BY <1>0, NextIndex DEF Following
  <1>2. d \in 0 .. m - 1 /\ d = IF y >= x THEN y - x ELSE y - x + m
    BY <1>0, Distance DEF InUse
  <1>. HIDE DEF z, d
  <1>3. InUse(z, y) = IF y >= z THEN y - z ELSE y - z + m
    BY <1>0, <1>1, Distance DEF InUse
  <1>4. x \in Int /\ y \in Int /\ 0 <= x /\ x < m /\ 0 <= y /\ y < m
    BY <1>0
  <1>5. \A k \in 1 .. m : /\ IndexAt(x, k) = IF x + k - 1 < m THEN x + k - 1 ELSE x + k - 1 - m
                          /\ IndexAt(z, k) = IF z + k - 1 < m THEN z + k - 1 ELSE z + k - 1 - m
    BY <1>0, <1>1, IndexFrom DEF IndexAt
  <1>. HIDE DEF m
  <1>6. d \in Nat \ {0} /\ InUse(z, y) = d - 1
    BY <1>0, <1>1, <1>2, <1>3, <1>4
  <1>7. ASSUME NEW k \in 1 .. d - 1 PROVE IndexAt(z, k) = IndexAt(x, k + 1)
    <2>1. k \in 1 .. m /\ k + 1 \in 1 .. m /\ k \in Int
      BY <1>0, <1>2
    <2>2. /\ IndexAt(z, k) = IF z + k - 1 < m THEN z + k - 1 ELSE z + k - 1 - m
          /\ IndexAt(x, k + 1) = IF x + (k + 1) - 1 < m THEN x + (k + 1) - 1
                                 ELSE x + (k + 1) - 1 - m
      BY <1>5, <2>1
    <2>. QED  BY <1>0, <1>1, <1>4, <2>1, <2>2
  <1>. QED  BY <1>1, <1>6, <1>7 DEF z, d, m

LEMMA QueueStep ==
  ASSUME QueueOK, [ArraysNext]_arraysVars PROVE QueueOK'
  <1>. DEFINE M == MAX_PARAMS
              d == InUse(ai, aj)
  <1>1. M \in Nat \ {0}
    BY ConstantsTyped
  <1>2. uses = "queue" =>
          /\ queue \in [0 .. M - 1 -> Nat] /\ fifo \in Seq(Nat)
          /\ ai \in 0 .. M - 1 /\ aj \in 0 .. M - 1 /\ Len(fifo) = d
          /\ \A k \in 1 .. d : fifo[k] = queue[IndexAt(ai, k)]
    BY DEF QueueOK, IndexAt, InUse
  <1>3. ASSUME /\ uses' = uses
               /\ queue' \in [0 .. M - 1 -> Nat] /\ fifo' \in Seq(Nat)
               /\ ai' \in 0 .. M - 1 /\ aj' \in 0 .. M - 1 /\ Len(fifo') = InUse(ai', aj')
               /\ \A k \in 1 .. Len(fifo') : fifo'[k] = queue'[IndexAt(ai', k)]
        PROVE  QueueOK'
    BY <1>3 DEF QueueOK, InUse, IndexAt
  <1>. HIDE DEF M, d
  <1>4. ASSUME NEW n \in Number, queue_add(n) PROVE QueueOK'
    <2>1. /\ uses = "queue" /\ uses' = uses /\ ai # Following(aj)
          /\ fifo' = Append(fifo, n) /\ queue' = [queue EXCEPT ![aj] = n]
          /\ aj' = Following(aj) /\ ai' = ai
      BY <1>4 DEF queue_add, QueueIsFull, Following
    <2>2. n \in Nat
      BY ConstantsTyped
    <2>3. ai \in 0 .. M - 1 /\ aj \in 0 .. M - 1
      BY <1>2, <2>1
    <2>4. /\ d \in Nat /\ Following(aj) \in 0 .. M - 1
          /\ InUse(ai, Following(aj)) = d + 1 /\ IndexAt(ai, d + 1) = aj
          /\ \A k \in 1 .. d : IndexAt(ai, k) \in 0 .. M - 1 /\ IndexAt(ai, k) # aj
      BY <2>1, <2>3, OneMore DEF M, d
    <2>5. /\ fifo' \in Seq(Nat) /\ Len(fifo') = d + 1 /\ fifo'[d + 1] = n
          /\ \A k \in 1 .. d : fifo'[k] = fifo[k]
      <3>1. fifo \in Seq(Nat) /\ Len(fifo) = d
        BY <1>2, <2>1
      <3>2. /\ Append(fifo, n) \in Seq(Nat) /\ Len(Append(fifo, n)) = d + 1
            /\ \A k \in 1 .. d : Append(fifo, n)[k] = fifo[k]
            /\ Append(fifo, n)[d + 1] = n
        BY <2>2, <3>1, AppendProperties
      <3>. QED  BY <2>1, <3>2
    <2>6. /\ queue' \in [0 .. M - 1 -> Nat] /\ queue'[aj] = n
          /\ \A x \in 0 .. M - 1 : x # aj => queue'[x] = queue[x]
      BY <1>2, <2>1, <2>2, <2>3
    <2>7. ASSUME NEW k \in 1 .. d + 1 PROVE fifo'[k] = queue'[IndexAt(ai, k)]
      <3>1. CASE k = d + 1
        BY <2>4, <2>5, <2>6, <3>1
      <3>2. CASE k # d + 1
        <4>1. k \in 1 .. d
          BY <2>4, <3>2
        <4>2. IndexAt(ai, k) \in 0 .. M - 1 /\ IndexAt(ai, k) # aj
          BY <2>4, <4>1
        <4>3. fifo'[k] = fifo[k] /\ fifo[k] = queue[IndexAt(ai, k)]
          BY <1>2, <2>1, <2>5, <4>1
        <4>. QED  BY <2>6, <4>2, <4>3
      <3>. QED  BY <3>1, <3>2
    <2>. QED  BY <1>3, <2>1, <2>3, <2>4, <2>5, <2>6, <2>7
  <1>5. CASE queue_delete
    <2>1. /\ uses = "queue" /\ uses' = uses /\ ai # aj
          /\ fifo' = Tail(fifo) /\ queue' = queue /\ aj' = aj /\ ai' = Following(ai)
      BY <1>5 DEF queue_delete, NextFirst, Following
    <2>2. ai \in 0 .. M - 1 /\ aj \in 0 .. M - 1
      BY <1>2, <2>1
    <2>3. /\ d \in Nat \ {0} /\ Following(ai) \in 0 .. M - 1
          /\ InUse(Following(ai), aj) = d - 1
          /\ \A k \in 1 .. d - 1 : IndexAt(Following(ai), k) = IndexAt(ai, k + 1)
      BY <2>1, <2>2, OneLess DEF M, d
    <2>4. /\ fifo' \in Seq(Nat) /\ Len(fifo') = d - 1
          /\ \A k \in 1 .. d - 1 : fifo'[k] = fifo[k + 1]
      <3>1. fifo \in Seq(Nat) /\ Len(fifo) = d
        BY <1>2, <2>1
      <3>2. fifo # << >>
        BY <2>3, <3>1
      <3>. QED  BY <2>1, <3>1, <3>2, HeadTailProperties
    <2>5. ASSUME NEW k \in 1 .. d - 1 PROVE fifo'[k] = queue'[IndexAt(Following(ai), k)]
      <3>1. k + 1 \in 1 .. d
        BY <2>3
      <3>2. fifo[k + 1] = queue[IndexAt(ai, k + 1)]
        BY <1>2, <2>1, <3>1
      <3>. QED  BY <2>1, <2>3, <2>4, <3>2
    <2>. QED  BY <1>2, <1>3, <2>1, <2>2, <2>3, <2>4, <2>5
  <1>6. ASSUME UNCHANGED uses, uses # "queue" \/ UNCHANGED <<fifo, queueVars>> PROVE QueueOK'
    BY <1>6 DEF QueueOK, queueVars
  <1>7. CASE \/ BeginPartition \/ Exchange \/ PlacePivot \/ OrderPair
             \/ heap_delete \/ init_heap_beebs
             \/ \E n \in Number : hashed_add(n) \/ hashed_delete_if_member(n)
             \/ \E n \in TreeNumber : heap_add(n)
             \/ \E size \in Sizes : malloc_beebs(size)
             \/ UNCHANGED arraysVars
    <2>1. UNCHANGED uses /\ (uses # "queue" \/ UNCHANGED <<fifo, queueVars>>)
      BY <1>7 DEF BeginPartition, Exchange, PlacePivot, OrderPair, sortFrame, Partitioning, specVars,
                  heap_delete, init_heap_beebs, hashed_add, hashed_delete_if_member,
                  malloc_beebs, heap_add, arraysVars
    <2>. QED  BY <1>6, <2>1
  <1>. QED  BY <1>4, <1>5, <1>7 DEF ArraysNext

-----------------------------------------------------------------------------
(* Sequences that hold each element of a set once.                         *)

Holds(s, X) ==
  /\ \A i, j \in 1 .. Len(s) : s[i] = s[j] => i = j
  /\ \A i \in 1 .. Len(s) : s[i] \in X
  /\ \A x \in X : \E i \in 1 .. Len(s) : s[i] = x

LEMMA HoldsCounts ==
  ASSUME NEW s \in Seq(Nat), NEW X \in SUBSET Nat, Holds(s, X)
  PROVE  Len(s) = Cardinality(X) /\ Range(s) = X
  <1>1. Len(s) \in Nat /\ DOMAIN s = 1 .. Len(s)
    BY LenProperties
  <1>2. s \in [1 .. Len(s) -> X]
    BY <1>1 DEF Holds
  <1>3. s \in Bijection(1 .. Len(s), X)
    BY <1>2, Fun_IsBij DEF Holds
  <1>4. IsFiniteSet(1 .. Len(s)) /\ Cardinality(1 .. Len(s)) = Len(s)
    <2>. DEFINE n == Len(s)
    <2>1. n \in Nat
      BY <1>1
    <2>. HIDE DEF n
    <2>2. IsFiniteSet(1 .. n) /\ Cardinality(1 .. n) = n
      BY <2>1, FS_Interval
    <2>. QED  BY <2>2 DEF n
  <1>5. Cardinality(X) = Len(s)
    BY <1>3, <1>4, FS_Bijection, Fun_ExistsBij
  <1>6. Range(s) = {s[i] : i \in 1 .. Len(s)}
    BY <1>1 DEF Range
  <1>7. /\ \A i \in 1 .. Len(s) : s[i] \in X
        /\ \A x \in X : \E i \in 1 .. Len(s) : s[i] = x
    BY DEF Holds
  <1>8. Range(s) = X
    BY <1>6, <1>7, Zenon
  <1>. QED  BY <1>5, <1>8

LEMMA SwapHolds ==
  ASSUME NEW s \in Seq(Nat), NEW X \in SUBSET Nat, Holds(s, X),
         NEW x \in 1 .. Len(s), NEW y \in 1 .. Len(s)
  PROVE  Swap(s, x, y) \in Seq(Nat) /\ Len(Swap(s, x, y)) = Len(s) /\ Holds(Swap(s, x, y), X)
  <1>. DEFINE b == Swap(s, x, y)
  <1>1. /\ b \in Seq(Nat) /\ Len(b) = Len(s) /\ b[x] = s[y] /\ b[y] = s[x]
        /\ \A z \in 1 .. Len(s) : z # x /\ z # y => b[z] = s[z]
    BY DEF Swap
  <1>. HIDE DEF b
  <1>2. ASSUME NEW i \in 1 .. Len(b), NEW j \in 1 .. Len(b), b[i] = b[j] PROVE i = j
    <2>. DEFINE At(k) == IF k = x THEN y ELSE IF k = y THEN x ELSE k
    <2>1. /\ At(i) \in 1 .. Len(s) /\ b[i] = s[At(i)]
          /\ At(j) \in 1 .. Len(s) /\ b[j] = s[At(j)]
      BY <1>1
    <2>2. At(i) = At(j) => i = j
      OBVIOUS
    <2>. HIDE DEF At
    <2>. QED  BY <1>2, <2>1, <2>2, Zenon DEF Holds
  <1>3. \A i \in 1 .. Len(b) : b[i] \in X
    BY <1>1 DEF Holds
  <1>4. \A n \in X : \E i \in 1 .. Len(b) : b[i] = n
    BY <1>1 DEF Holds
  <1>5. Holds(b, X)
    BY <1>2, <1>3, <1>4 DEF Holds
  <1>. QED  BY <1>1, <1>5 DEF b

LEMMA BothHold ==
  ASSUME NEW s \in Seq(Nat), NEW X \in SUBSET Nat, Holds(s, X),
         NEW t \in Seq(Nat), NEW Y \in SUBSET Nat, Holds(t, Y), X \cap Y = {}
  PROVE  s \o t \in Seq(Nat) /\ Holds(s \o t, X \cup Y)
  <1>. DEFINE b == s \o t
  <1>1. /\ b \in Seq(Nat) /\ Len(b) = Len(s) + Len(t)
        /\ \A k \in 1 .. Len(s) : b[k] = s[k]
        /\ \A k \in 1 .. Len(t) : b[Len(s) + k] = t[k]
    OBVIOUS
  <1>2. Len(s) \in Nat /\ Len(t) \in Nat
    OBVIOUS
  <1>. HIDE DEF b
  <1>3. ASSUME NEW i \in 1 .. Len(b)
        PROVE  \/ i \in 1 .. Len(s) /\ b[i] = s[i] /\ b[i] \in X
               \/ i - Len(s) \in 1 .. Len(t) /\ b[i] = t[i - Len(s)] /\ b[i] \in Y
    <2>1. CASE i <= Len(s)
      <3>1. i \in 1 .. Len(s)
        BY <1>1, <1>2, <2>1
      <3>. QED  BY <1>1, <3>1 DEF Holds
    <2>2. CASE ~ (i <= Len(s))
      <3>1. i - Len(s) \in 1 .. Len(t) /\ Len(s) + (i - Len(s)) = i
        BY <1>1, <1>2, <2>2
      <3>2. b[Len(s) + (i - Len(s))] = t[i - Len(s)] /\ t[i - Len(s)] \in Y
        BY <1>1, <3>1 DEF Holds
      <3>3. b[i] = t[i - Len(s)]
        BY <3>1, <3>2
      <3>. QED  BY <3>1, <3>2, <3>3
    <2>. QED  BY <2>1, <2>2
  <1>4. ASSUME NEW i \in 1 .. Len(b), NEW j \in 1 .. Len(b), b[i] = b[j] PROVE i = j
    <2>1. CASE b[i] \in X
      <3>1. i \in 1 .. Len(s) /\ b[i] = s[i] /\ j \in 1 .. Len(s) /\ b[j] = s[j]
        BY <1>3, <1>4, <2>1
      <3>. QED  BY <1>4, <3>1 DEF Holds
    <2>2. CASE ~ (b[i] \in X)
      <3>1. /\ i - Len(s) \in 1 .. Len(t) /\ b[i] = t[i - Len(s)]
            /\ j - Len(s) \in 1 .. Len(t) /\ b[j] = t[j - Len(s)]
        BY <1>3, <1>4, <2>2
      <3>2. i - Len(s) = j - Len(s)
        BY <1>4, <3>1 DEF Holds
      <3>3. i \in Int /\ j \in Int
        OBVIOUS
      <3>. QED  BY <1>2, <3>2, <3>3
    <2>. QED  BY <2>1, <2>2
  <1>5. ASSUME NEW n \in X PROVE \E i \in 1 .. Len(b) : b[i] = n
    <2>1. PICK i \in 1 .. Len(s) : s[i] = n
      BY DEF Holds
    <2>2. i \in 1 .. Len(b)
      BY <1>1, <1>2
    <2>. QED  BY <1>1, <2>1, <2>2
  <1>6. ASSUME NEW n \in Y PROVE \E i \in 1 .. Len(b) : b[i] = n
    <2>1. PICK i \in 1 .. Len(t) : t[i] = n
      BY DEF Holds
    <2>2. Len(s) + i \in 1 .. Len(b)
      BY <1>1, <1>2
    <2>. QED  BY <1>1, <2>1, <2>2
  <1>7. Holds(b, X \cup Y)
    BY <1>3, <1>4, <1>5, <1>6 DEF Holds
  <1>. QED  BY <1>1, <1>7 DEF b

LEMMA OneHolds ==
  ASSUME NEW n \in Nat
  PROVE  <<n>> \in Seq(Nat) /\ Holds(<<n>>, {n})
  <1>. DEFINE s == <<n>>
  <1>1. s \in Seq(Nat) /\ Len(s) = 1 /\ s[1] = n
    OBVIOUS
  <1>. HIDE DEF s
  <1>2. Holds(s, {n})
    BY <1>1 DEF Holds
  <1>. QED  BY <1>1, <1>2 DEF s

\* What is left when the element at i goes.
LEMMA RestHolds ==
  ASSUME NEW s \in Seq(Nat), NEW X \in SUBSET Nat, Holds(s, X), NEW i \in 1 .. Len(s),
         NEW b \in Seq(Nat), Len(b) = Len(s) - 1,
         \A k \in 1 .. Len(b) : b[k] = IF k < i THEN s[k] ELSE s[k + 1]
  PROVE  Holds(b, X \ {s[i]})
  <1>1. Len(s) \in Nat \ {0} /\ Len(b) = Len(s) - 1 /\ i \in Int /\ 1 <= i /\ i <= Len(s)
    OBVIOUS
  <1>. DEFINE At(k) == IF k < i THEN k ELSE k + 1
  <1>2. ASSUME NEW k \in 1 .. Len(b)
        PROVE  At(k) \in 1 .. Len(s) /\ At(k) # i /\ b[k] = s[At(k)]
    <2>1. k \in Int /\ 1 <= k /\ k <= Len(s) - 1
      BY <1>1
    <2>2. b[k] = IF k < i THEN s[k] ELSE s[k + 1]
      OBVIOUS
    <2>3. CASE k < i
      <3>1. At(k) = k /\ b[k] = s[k]
        BY <2>2, <2>3
      <3>. QED  BY <1>1, <2>1, <2>3, <3>1
    <2>4. CASE ~ (k < i)
      <3>1. At(k) = k + 1 /\ b[k] = s[k + 1]
        BY <2>2, <2>4
      <3>2. k + 1 \in 1 .. Len(s) /\ k + 1 # i
        BY <1>1, <2>1, <2>4
      <3>. HIDE DEF At
      <3>. QED  BY <3>1, <3>2
    <2>. QED  BY <2>3, <2>4
  <1>3. ASSUME NEW k \in 1 .. Len(b), NEW m \in 1 .. Len(b), At(k) = At(m) PROVE k = m
    BY <1>1, <1>3
  <1>4. ASSUME NEW m \in 1 .. Len(s), m # i PROVE \E k \in 1 .. Len(b) : At(k) = m
    <2>1. CASE m < i
      <3>1. m \in 1 .. Len(b) /\ At(m) = m
        BY <1>1, <2>1
      <3>. QED  BY <3>1
    <2>2. CASE m > i
      <3>1. m - 1 \in 1 .. Len(b) /\ At(m - 1) = m
        BY <1>1, <2>2
      <3>. QED  BY <3>1
    <2>. QED  BY <1>1, <1>4, <2>1, <2>2
  <1>. HIDE DEF At
  <1>5. ASSUME NEW k \in 1 .. Len(b), NEW m \in 1 .. Len(b), b[k] = b[m] PROVE k = m
    <2>0. /\ At(k) \in 1 .. Len(s) /\ b[k] = s[At(k)]
          /\ At(m) \in 1 .. Len(s) /\ b[m] = s[At(m)]
      BY <1>2
    <2>1. At(k) = At(m)
      BY <1>5, <2>0, ZenonT(30) DEF Holds
    <2>. QED  BY <1>3, <2>1
  <1>6. ASSUME NEW k \in 1 .. Len(b) PROVE b[k] \in X \ {s[i]}
    <2>1. At(k) \in 1 .. Len(s) /\ At(k) # i /\ b[k] = s[At(k)]
      BY <1>2
    <2>2. s[At(k)] \in X /\ s[At(k)] # s[i]
      BY <2>1, Zenon DEF Holds
    <2>. QED  BY <2>1, <2>2
  <1>7. ASSUME NEW n \in X \ {s[i]} PROVE \E k \in 1 .. Len(b) : b[k] = n
    <2>1. PICK m \in 1 .. Len(s) : s[m] = n
      BY DEF Holds
    <2>2. PICK k \in 1 .. Len(b) : At(k) = m
      BY <1>4, <2>1
    <2>. QED  BY <1>2, <2>1, <2>2
  <1>. QED  BY <1>5, <1>6, <1>7 DEF Holds

LEMMA RemovedHolds ==
  ASSUME NEW s \in Seq(Nat), NEW X \in SUBSET Nat, Holds(s, X), NEW i \in 1 .. Len(s)
  PROVE  RemoveAt(s, i) \in Seq(Nat) /\ Holds(RemoveAt(s, i), X \ {s[i]})
  <1>. DEFINE a == SubSeq(s, 1, i - 1)
              c == SubSeq(s, i + 1, Len(s))
              b == RemoveAt(s, i)
  <1>1. /\ a \in Seq(Nat) /\ Len(a) = i - 1
        /\ c \in Seq(Nat) /\ Len(c) = Len(s) - i
        /\ \A k \in 1 .. (i - 1) : a[k] = s[k]
        /\ \A k \in 1 .. (Len(s) - i) : c[k] = s[i + k]
    BY SubSeqProperties, LenProperties
  <1>2. b = a \o c
    BY DEF RemoveAt
  <1>. HIDE DEF a, b, c
  <1>3. /\ a \o c \in Seq(Nat) /\ Len(a \o c) = Len(a) + Len(c)
        /\ \A k \in 1 .. Len(a) : (a \o c)[k] = a[k]
        /\ \A k \in 1 .. Len(c) : (a \o c)[Len(a) + k] = c[k]
    <2>1. a \in Seq(Nat) /\ c \in Seq(Nat)
      BY <1>1
    <2>. QED  BY <2>1
  <1>4. b \in Seq(Nat) /\ Len(b) = Len(s) - 1
    BY <1>1, <1>2, <1>3
  <1>5. ASSUME NEW k \in 1 .. Len(b) PROVE b[k] = IF k < i THEN s[k] ELSE s[k + 1]
    <2>1. CASE k < i
      <3>1. k \in 1 .. Len(a) /\ k \in 1 .. (i - 1)
        BY <1>1, <1>4, <2>1
      <3>. QED  BY <1>1, <1>2, <1>3, <2>1, <3>1
    <2>2. CASE ~ (k < i)
      <3>1. /\ k - i + 1 \in 1 .. Len(c) /\ k - i + 1 \in 1 .. (Len(s) - i)
            /\ Len(a) + (k - i + 1) = k /\ i + (k - i + 1) = k + 1
        BY <1>1, <1>4, <2>2
      <3>. DEFINE m == k - i + 1
      <3>2. b[k] = c[m]
        BY <1>2, <1>3, <3>1
      <3>3. c[m] = s[k + 1]
        BY <1>1, <3>1, SMTT(30)
      <3>. QED  BY <2>2, <3>2, <3>3
    <2>. QED  BY <2>1, <2>2
  <1>6. Holds(b, X \ {s[i]})
    BY <1>4, <1>5, RestHolds
  <1>. QED  BY <1>4, <1>6 DEF b

-----------------------------------------------------------------------------
(* Nothing is lost: the hashed container.                                  *)

Cells == 0 .. HASH_TAB_SIZE - 1
InCell(h) == {n \in spec : Cell(n) = h}

HashOK ==
  uses = "hashed" =>
    /\ spec \in SUBSET Nat /\ htab \in [Cells -> Seq(Nat)]
    /\ \A h \in Cells : Holds(htab[h], InCell(h))

LEMMA CellTyped ==
  ASSUME NEW n \in Nat
  PROVE  Cell(n) \in Cells
  BY ConstantsTyped DEF Cell, ilist_hash_function, Cells

LEMMA FindsMembers ==
  ASSUME uses = "hashed", HashOK, NEW n \in Nat
  PROVE  hashed_find_member(n) <=> n \in spec
  <1>1. Cell(n) \in Cells
    BY CellTyped
  <1>2. htab[Cell(n)] \in Seq(Nat) /\ Holds(htab[Cell(n)], InCell(Cell(n)))
    BY <1>1 DEF HashOK
  <1>3. DOMAIN htab[Cell(n)] = 1 .. Len(htab[Cell(n)])
    BY <1>2, LenProperties
  <1>4. n \in InCell(Cell(n)) <=> n \in spec
    BY DEF InCell
  <1>5. hashed_find_member(n) <=> \E k \in 1 .. Len(htab[Cell(n)]) : htab[Cell(n)][k] = n
    BY <1>3 DEF hashed_find_member
  <1>. DEFINE s == htab[Cell(n)]
              X == InCell(Cell(n))
  <1>6. /\ \A k \in 1 .. Len(s) : s[k] \in X
        /\ \A x \in X : \E k \in 1 .. Len(s) : s[k] = x
    BY <1>2 DEF Holds
  <1>. HIDE DEF s, X
  <1>7. n \in X <=> \E k \in 1 .. Len(s) : s[k] = n
    BY <1>6
  <1>. QED  BY <1>4, <1>5, <1>7 DEF s, X

\* A step that changes one cell.
LEMMA CellChanges ==
  ASSUME uses = "hashed", HashOK, uses' = uses, NEW n \in Nat, NEW cell,
         htab' = [htab EXCEPT ![Cell(n)] = cell], cell \in Seq(Nat),
         spec' \in SUBSET Nat, \A m \in Nat : m # n => (m \in spec' <=> m \in spec),
         Holds(cell, {m \in spec' : Cell(m) = Cell(n)})
  PROVE  HashOK'
  <1>1. Cell(n) \in Cells /\ spec \in SUBSET Nat /\ htab \in [Cells -> Seq(Nat)]
    BY CellTyped DEF HashOK
  <1>2. htab' \in [Cells -> Seq(Nat)]
    BY <1>1
  <1>3. ASSUME NEW h \in Cells PROVE Holds(htab'[h], {m \in spec' : Cell(m) = h})
    <2>1. CASE h = Cell(n)
      <3>1. htab'[h] = cell
        BY <1>1, <2>1
      <3>. QED  BY <2>1, <3>1
    <2>2. CASE h # Cell(n)
      <3>1. htab'[h] = htab[h]
        BY <1>1, <2>2
      <3>2. {m \in spec' : Cell(m) = h} = InCell(h)
        BY <1>1, <2>2 DEF InCell
      <3>3. Holds(htab[h], InCell(h))
        BY DEF HashOK
      <3>. QED  BY <3>1, <3>2, <3>3
    <2>. QED  BY <2>1, <2>2
  <1>4. \A h \in Cells : InCell(h)' = {m \in spec' : Cell(m) = h}
    BY DEF InCell, Cell, ilist_hash_function
  <1>5. \A h \in Cells : Holds(htab[h], InCell(h))'
    <2>. SUFFICES ASSUME NEW h \in Cells PROVE Holds(htab[h], InCell(h))'
      OBVIOUS
    <2>. DEFINE X == {m \in spec' : Cell(m) = h}
                s == htab'[h]
    <2>1. Holds(s, X) /\ InCell(h)' = X
      BY <1>3, <1>4
    <2>. HIDE DEF X
    <2>. QED  BY <2>1, ZenonT(30) DEF Holds
  <1>. QED  BY <1>2, <1>5 DEF HashOK, Cells

LEMMA HashStep ==
  ASSUME HashOK, [ArraysNext]_arraysVars PROVE HashOK'
  <1>1. ASSUME NEW n \in Nat, uses = "hashed"
        PROVE  /\ spec \in SUBSET Nat /\ htab[Cell(n)] \in Seq(Nat)
               /\ Holds(htab[Cell(n)], InCell(Cell(n))) /\ InCell(Cell(n)) \in SUBSET Nat
    BY <1>1, CellTyped DEF HashOK, InCell
  <1>2. ASSUME UNCHANGED uses, uses # "hashed" \/ UNCHANGED <<spec, htab>> PROVE HashOK'
    BY <1>2 DEF HashOK, InCell, Cell, ilist_hash_function, Holds, Cells
  <1>3. ASSUME NEW n \in Number, hashed_add(n) PROVE HashOK'
    <2>0. n \in Nat /\ uses = "hashed" /\ uses' = uses
      BY <1>3, ConstantsTyped DEF hashed_add
    <2>1. CASE hashed_find_member(n)
      BY <1>2, <1>3, <2>1 DEF hashed_add, specVars
    <2>2. CASE ~ hashed_find_member(n)
      <3>. DEFINE s == htab[Cell(n)]
                  X == InCell(Cell(n))
      <3>1. n \notin spec /\ spec' = spec \cup {n} /\ htab' = [htab EXCEPT ![Cell(n)] = <<n>> \o s]
        <4>1. n \notin spec
          BY <2>0, <2>2, FindsMembers
        <4>2. htab' = [htab EXCEPT ![Cell(n)] = <<n>> \o @] /\ spec' = spec \cup {n}
          BY <1>3, <2>2 DEF hashed_add, Put
        <4>. QED  BY <4>1, <4>2
      <3>2. spec \in SUBSET Nat /\ s \in Seq(Nat) /\ Holds(s, X) /\ X \in SUBSET Nat
        BY <1>1, <2>0
      <3>3. <<n>> \in Seq(Nat) /\ Holds(<<n>>, {n}) /\ {n} \in SUBSET Nat /\ {n} \cap X = {}
        BY <2>0, <3>1, OneHolds DEF InCell
      <3>4. {m \in spec' : Cell(m) = Cell(n)} = {n} \cup X
        BY <3>1 DEF InCell
      <3>. HIDE DEF s, X
      <3>5. <<n>> \o s \in Seq(Nat) /\ Holds(<<n>> \o s, {n} \cup X)
        <4>. DEFINE one == <<n>>
        <4>. HIDE DEF one
        <4>1. one \in Seq(Nat) /\ Holds(one, {n})
          BY <3>3 DEF one
        <4>2. one \o s \in Seq(Nat) /\ Holds(one \o s, {n} \cup X)
          BY <3>2, <3>3, <4>1, BothHold
        <4>. QED  BY <4>2 DEF one
      <3>6. spec' \in SUBSET Nat /\ \A m \in Nat : m # n => (m \in spec' <=> m \in spec)
        BY <2>0, <3>1, <3>2
      <3>. QED  BY <2>0, <3>1, <3>4, <3>5, <3>6, CellChanges
    <2>. QED  BY <2>1, <2>2
  <1>4. ASSUME NEW n \in Number, hashed_delete_if_member(n) PROVE HashOK'
    <2>0. n \in Nat /\ uses = "hashed" /\ uses' = uses
      BY <1>4, ConstantsTyped DEF hashed_delete_if_member
    <2>1. CASE ~ hashed_find_member(n)
      BY <1>2, <1>4, <2>1 DEF hashed_delete_if_member, specVars
    <2>2. CASE hashed_find_member(n)
      <3>. DEFINE s == htab[Cell(n)]
                  X == InCell(Cell(n))
                  i == Place(n)
      <3>1. spec' = spec \ {n} /\ htab' = [htab EXCEPT ![Cell(n)] = RemoveAt(s, i)]
        <4>1. /\ htab' = [htab EXCEPT ![Cell(n)] = RemoveAt(@, Place(n))]
              /\ spec' = spec \ {n}
          BY <1>4, <2>2 DEF hashed_delete_if_member, Take
        <4>. QED  BY <4>1
      <3>2. spec \in SUBSET Nat /\ s \in Seq(Nat) /\ Holds(s, X) /\ X \in SUBSET Nat
        BY <1>1, <2>0
      <3>3. i \in 1 .. Len(s) /\ s[i] = n
        <4>1. DOMAIN s = 1 .. Len(s)
          BY <3>2, LenProperties
        <4>2. \E k \in DOMAIN s : s[k] = n
          BY <2>2 DEF hashed_find_member
        <4>3. i = CHOOSE k \in DOMAIN s : s[k] = n
          BY DEF Place
        <4>. HIDE DEF s, i
        <4>. QED  BY <4>1, <4>2, <4>3
      <3>4. {m \in spec' : Cell(m) = Cell(n)} = X \ {n}
        BY <3>1 DEF InCell
      <3>. HIDE DEF s, X, i
      <3>5. RemoveAt(s, i) \in Seq(Nat) /\ Holds(RemoveAt(s, i), X \ {n})
        BY <3>2, <3>3, RemovedHolds
      <3>6. spec' \in SUBSET Nat /\ \A m \in Nat : m # n => (m \in spec' <=> m \in spec)
        BY <2>0, <3>1, <3>2
      <3>. QED  BY <2>0, <3>1, <3>4, <3>5, <3>6, CellChanges
    <2>. QED  BY <2>1, <2>2
  <1>5. CASE \/ BeginPartition \/ Exchange \/ PlacePivot \/ OrderPair
             \/ queue_delete \/ heap_delete \/ init_heap_beebs
             \/ \E n \in Number : queue_add(n)
             \/ \E n \in TreeNumber : heap_add(n)
             \/ \E size \in Sizes : malloc_beebs(size)
             \/ UNCHANGED arraysVars
    <2>1. UNCHANGED uses /\ (uses # "hashed" \/ UNCHANGED <<spec, htab>>)
      BY <1>5 DEF BeginPartition, Exchange, PlacePivot, OrderPair, sortFrame, Partitioning, specVars,
                  heap_delete, init_heap_beebs, queue_add, queue_delete,
                  malloc_beebs, heap_add, arraysVars
    <2>. QED  BY <1>2, <2>1
  <1>. QED  BY <1>3, <1>4, <1>5 DEF ArraysNext

-----------------------------------------------------------------------------
(* Recursive functions, such as the loops of the code.                     *)

HasIterate(S, b, N, F) ==
  \E g \in [0 .. N -> S] : g[0] = b /\ \A k \in 1 .. N : g[k] = F[<<k, g[k - 1]>>]

\* There is a function whose value at k comes from its value at k - 1.
LEMMA Iterates ==
  ASSUME NEW S, NEW b \in S, NEW N \in Nat, NEW F \in [(1 .. N) \X S -> S]
  PROVE  HasIterate(S, b, N, F)
  <1>. DEFINE Good(n) == \E g \in [0 .. n -> S] :
                            g[0] = b /\ \A k \in 1 .. n : g[k] = F[<<k, g[k - 1]>>]
              T == {n \in 0 .. N : ~ Good(n)}
  <1>1. T = {}
    <2>. SUFFICES ASSUME T # {} PROVE FALSE
      OBVIOUS
    <2>1. T \subseteq Nat
      OBVIOUS
    <2>2. PICK n \in T : \A y \in T : n <= y
      BY <2>1, Least
    <2>3. n \in 0 .. N /\ ~ Good(n)
      BY <2>2
    <2>4. n # 0
      <3>1. ASSUME n = 0 PROVE FALSE
        <4>. DEFINE g == [k \in 0 .. n |-> b]
        <4>1. g \in [0 .. n -> S] /\ g[0] = b /\ \A k \in 1 .. n : g[k] = F[<<k, g[k - 1]>>]
          BY <3>1
        <4>. QED  BY <2>3, <4>1
      <3>. QED  BY <3>1
    <2>5. n - 1 \in 0 .. N /\ ~ (n <= n - 1) /\ n \in 1 .. N
      BY <2>3, <2>4
    <2>6. Good(n - 1)
      BY <2>2, <2>5
    <2>7. PICK f \in [0 .. n - 1 -> S] :
            f[0] = b /\ \A k \in 1 .. n - 1 : f[k] = F[<<k, f[k - 1]>>]
      BY <2>6
    <2>. DEFINE g == [k \in 0 .. n |-> IF k = n THEN F[<<n, f[n - 1]>>] ELSE f[k]]
    <2>8. f[n - 1] \in S /\ F[<<n, f[n - 1]>>] \in S
      BY <2>5, <2>7
    <2>9. /\ \A k \in 0 .. n - 1 : g[k] = f[k] /\ f[k] \in S
          /\ g[n] = F[<<n, f[n - 1]>>]
      BY <2>5, <2>7
    <2>10. g \in [0 .. n -> S]
      <3>1. ASSUME NEW k \in 0 .. n
            PROVE  (IF k = n THEN F[<<n, f[n - 1]>>] ELSE f[k]) \in S
        <4>1. k # n => k \in 0 .. n - 1
          BY <2>5
        <4>. QED  BY <2>8, <2>9, <4>1
      <3>. QED  BY <3>1
    <2>. HIDE DEF g
    <2>11. g[0] = b
      BY <2>5, <2>7, <2>9
    <2>12. ASSUME NEW k \in 1 .. n PROVE g[k] = F[<<k, g[k - 1]>>]
      <3>1. k - 1 \in 0 .. n - 1 /\ g[k - 1] = f[k - 1]
        BY <2>5, <2>9
      <3>2. CASE k = n
        BY <2>9, <3>1, <3>2
      <3>3. CASE k # n
        <4>1. k \in 1 .. n - 1 /\ k \in 0 .. n - 1
          BY <2>5, <3>3
        <4>. QED  BY <2>7, <2>9, <3>1, <4>1
      <3>. QED  BY <3>2, <3>3
    <2>. QED  BY <2>3, <2>10, <2>11, <2>12
  <1>2. N \in 0 .. N
    OBVIOUS
  <1>. QED  BY <1>1, <1>2 DEF HasIterate

\* What holds of the first value and goes from each to the next holds of all.
LEMMA StaysIn ==
  ASSUME NEW N \in Nat, NEW g, NEW S, g[0] \in S[0],
         \A k \in 1 .. N : g[k - 1] \in S[k - 1] => g[k] \in S[k]
  PROVE  \A k \in 0 .. N : g[k] \in S[k]
  <1>. DEFINE T == {k \in 0 .. N : g[k] \notin S[k]}
  <1>1. T = {}
    <2>. SUFFICES ASSUME T # {} PROVE FALSE
      OBVIOUS
    <2>1. T \subseteq Nat
      OBVIOUS
    <2>2. PICK n \in T : \A y \in T : n <= y
      BY <2>1, Least
    <2>3. n \in 0 .. N /\ g[n] \notin S[n]
      BY <2>2
    <2>4. n # 0
      BY <2>3
    <2>5. n - 1 \in 0 .. N /\ ~ (n <= n - 1) /\ n \in 1 .. N
      BY <2>3, <2>4
    <2>6. g[n - 1] \in S[n - 1]
      BY <2>2, <2>5
    <2>. QED  BY <2>3, <2>5, <2>6
  <1>. QED  BY <1>1

\* The iterator's list, cell after cell.
LEMMA BeforeIs ==
  ASSUME uses = "hashed", HashOK
  PROVE  \E g : /\ Iterated = g[HASH_TAB_SIZE] /\ g[0] = << >>
                /\ \A k \in 1 .. HASH_TAB_SIZE : g[k] = g[k - 1] \o htab[k - 1]
  <1>. DEFINE H == HASH_TAB_SIZE
              Body(g) == [h \in 0 .. H |-> IF h = 0 THEN << >> ELSE g[h - 1] \o htab[h - 1]]
              before == CHOOSE g : g = Body(g)
              S == Seq(Nat)
              F == [turn \in (1 .. H) \X S |-> turn[2] \o htab[turn[1] - 1]]
  <1>1. H \in Nat \ {0}
    BY ConstantsTyped
  <1>2. Iterated = before[H]
    BY DEF Iterated
  <1>3. ASSUME NEW k \in 1 .. H, NEW s \in S PROVE F[<<k, s>>] = s \o htab[k - 1]
    <2>. DEFINE turn == <<k, s>>
    <2>1. turn \in (1 .. H) \X S /\ turn[1] = k /\ turn[2] = s
      OBVIOUS
    <2>. HIDE DEF turn, S
    <2>2. F[turn] = turn[2] \o htab[turn[1] - 1]
      BY <2>1
    <2>3. F[turn] = s \o htab[k - 1]
      BY <2>1, <2>2
    <2>. QED  BY <2>3 DEF turn
  <1>4. F \in [(1 .. H) \X S -> S]
    <2>1. ASSUME NEW turn \in (1 .. H) \X S PROVE turn[2] \o htab[turn[1] - 1] \in S
      <3>1. turn[2] \in Seq(Nat) /\ turn[1] - 1 \in Cells
        BY <1>1 DEF Cells
      <3>2. htab[turn[1] - 1] \in Seq(Nat)
        BY <3>1 DEF HashOK
      <3>. QED  BY <3>1, <3>2, ConcatProperties
    <2>. HIDE DEF S
    <2>. QED  BY <2>1
  <1>5. << >> \in S
    OBVIOUS
  <1>. HIDE DEF F, S
  <1>6. PICK g \in [0 .. H -> S] : g[0] = << >> /\ \A k \in 1 .. H : g[k] = F[<<k, g[k - 1]>>]
    <2>. DEFINE b == << >>
    <2>1. b \in S /\ H \in Nat
      BY <1>1, <1>5
    <2>. HIDE DEF H, b
    <2>2. HasIterate(S, b, H, F)
      BY <1>4, <2>1, Iterates, Zenon
    <2>. QED  BY <2>2 DEF HasIterate, b
  <1>7. g = Body(g)
    <2>1. ASSUME NEW k \in 0 .. H PROVE g[k] = IF k = 0 THEN << >> ELSE g[k - 1] \o htab[k - 1]
      <3>1. CASE k = 0
        BY <1>6, <3>1
      <3>2. CASE k # 0
        <4>1. k \in 1 .. H /\ k - 1 \in 0 .. H
          BY <1>1, <3>2
        <4>2. g[k - 1] \in S
          BY <4>1
        <4>. QED  BY <1>3, <1>6, <3>2, <4>1, <4>2
      <3>. QED  BY <3>1, <3>2
    <2>2. g = [k \in 0 .. H |-> g[k]]
      OBVIOUS
    <2>. QED  BY <2>1, <2>2
  <1>8. before = Body(before)
    <2>. HIDE DEF Body
    <2>. QED  BY <1>7
  <1>. HIDE DEF before
  <1>9. before[0] = << >> /\ \A k \in 1 .. H : before[k] = before[k - 1] \o htab[k - 1]
    <2>1. 0 \in 0 .. H /\ \A k \in 1 .. H : k \in 0 .. H /\ k # 0
      BY <1>1
    <2>2. before[0] = << >>
      BY <1>8, <2>1
    <2>3. ASSUME NEW k \in 1 .. H PROVE before[k] = before[k - 1] \o htab[k - 1]
      BY <1>8, <2>1
    <2>. QED  BY <2>2, <2>3
  <1>. QED  BY <1>2, <1>9

LEMMA IteratedHolds ==
  ASSUME uses = "hashed", HashOK
  PROVE  Iterated \in Seq(Nat) /\ Holds(Iterated, spec)
  <1>. DEFINE H == HASH_TAB_SIZE
              Up_to(k) == {n \in spec : Cell(n) < k}
              S == [k \in 0 .. H |-> {s \in Seq(Nat) : Holds(s, Up_to(k))}]
  <1>1. H \in Nat \ {0}
    BY ConstantsTyped
  <1>2. PICK g : /\ Iterated = g[H] /\ g[0] = << >>
                 /\ \A k \in 1 .. H : g[k] = g[k - 1] \o htab[k - 1]
    BY BeforeIs
  <1>3. spec \in SUBSET Nat /\ \A n \in spec : Cell(n) \in 0 .. H - 1
    BY CellTyped DEF HashOK, Cells
  <1>. HIDE DEF H
  <1>4. g[0] \in S[0]
    <2>1. << >> \in Seq(Nat) /\ Len(<< >>) = 0
      OBVIOUS
    <2>2. ASSUME NEW n \in spec PROVE ~ (Cell(n) < 0)
      <3>1. Cell(n) \in 0 .. H - 1
        BY <1>3
      <3>. QED  BY <1>1, <3>1
    <2>3. Up_to(0) = {}
      BY <2>2
    <2>4. Holds(<< >>, {})
      BY <2>1 DEF Holds
    <2>5. S[0] = {s \in Seq(Nat) : Holds(s, Up_to(0))}
      BY <1>1
    <2>. HIDE DEF S, Up_to
    <2>. QED  BY <1>2, <2>1, <2>3, <2>4, <2>5
  <1>5. ASSUME NEW k \in 1 .. H, g[k - 1] \in S[k - 1] PROVE g[k] \in S[k]
    <2>. DEFINE c == k - 1
                s == g[c]
                t == htab[c]
    <2>1. c \in 0 .. H /\ k \in 0 .. H /\ c \in Cells /\ c \in Int /\ k = c + 1
      BY <1>1 DEF Cells, H
    <2>2. s \in Seq(Nat) /\ Holds(s, Up_to(c))
      BY <1>5, <2>1
    <2>3. t \in Seq(Nat) /\ Holds(t, InCell(c))
      BY <2>1 DEF HashOK
    <2>4. Up_to(c) \in SUBSET Nat /\ InCell(c) \in SUBSET Nat
      BY <1>3 DEF InCell
    <2>5. Up_to(c) \cap InCell(c) = {} /\ Up_to(k) = Up_to(c) \cup InCell(c)
      <3>1. ASSUME NEW n \in spec
            PROVE  (Cell(n) < k <=> Cell(n) < c \/ Cell(n) = c) /\ ~ (Cell(n) < c /\ Cell(n) = c)
        <4>1. Cell(n) \in Int
          BY <1>1, <1>3
        <4>. QED  BY <2>1, <4>1
      <3>. QED  BY <3>1 DEF InCell
    <2>6. g[k] = s \o t
      BY <1>2
    <2>. HIDE DEF c, s, t, Up_to
    <2>7. s \o t \in Seq(Nat) /\ Holds(s \o t, Up_to(c) \cup InCell(c))
      BY <2>2, <2>3, <2>4, <2>5, BothHold
    <2>. QED  BY <2>1, <2>5, <2>6, <2>7
  <1>. HIDE DEF S
  <1>6. \A k \in 0 .. H : g[k] \in S[k]
    <2>1. H \in Nat
      BY <1>1
    <2>. QED  BY <1>4, <1>5, <2>1, StaysIn
  <1>7. g[H] \in Seq(Nat) /\ Holds(g[H], Up_to(H))
    BY <1>1, <1>6 DEF S
  <1>8. Up_to(H) = spec
    <2>1. \A n \in spec : Cell(n) < H
      BY <1>1, <1>3
    <2>. QED  BY <2>1
  <1>. QED  BY <1>2, <1>7, <1>8

LEMMA HashedByOK ==
  ASSUME HashOK PROVE HashedComplete
  <1>. SUFFICES ASSUME uses = "hashed" PROVE HashedComplete
    BY DEF HashedComplete
  <1>1. \A n \in Number : hashed_find_member(n) <=> n \in spec
    BY FindsMembers, ConstantsTyped
  <1>2. Iterated \in Seq(Nat) /\ Holds(Iterated, spec) /\ spec \in SUBSET Nat
    BY IteratedHolds DEF HashOK
  <1>3. Len(Iterated) = Cardinality(spec) /\ Range(Iterated) = spec
    BY <1>2, HoldsCounts
  <1>4. ASSUME NEW n \in Number PROVE hashed_find_member(n) = (n \in spec)
    <2>1. CASE n \in spec
      <3>1. hashed_find_member(n) = TRUE /\ (n \in spec) = TRUE
        BY <1>1, <2>1, Zenon DEF hashed_find_member
      <3>. QED  BY <3>1
    <2>2. CASE n \notin spec
      <3>1. ~ hashed_find_member(n)
        BY <1>1, <2>2
      <3>2. hashed_find_member(n) = FALSE /\ (n \in spec) = FALSE
        BY <2>2, <3>1 DEF hashed_find_member
      <3>. QED  BY <3>2
    <2>. QED  BY <2>1, <2>2
  <1>. QED  BY <1>3, <1>4 DEF HashedComplete

-----------------------------------------------------------------------------
(* Nothing is lost: the heap.                                              *)

HeapOK ==
  uses = "heap" => heap \in Seq(Nat) /\ spec \in SUBSET Nat /\ Holds(heap, spec)

LEMMA UpTyped ==
  ASSUME NEW s \in Seq(Nat), NEW k \in Nat, k < Len(s)
  PROVE  Up(s, k) \in Nat /\ Up(s, k) < Len(s)
  <1>1. k \div 2 \in Nat /\ k \div 2 <= k /\ Len(s) \in Nat
    OBVIOUS
  <1>. QED  BY <1>1 DEF Up

LEMMA DownTyped ==
  ASSUME NEW s \in Seq(Nat), NEW k \in Nat, k < Len(s)
  PROVE  Down(s, k) \in Nat /\ Down(s, k) < Len(s)
  <1>. DEFINE family == {k, 2 * k + 1, 2 * k + 2} \cap 0 .. Len(s) - 1
              Beats(m, o) == s[o + 1] < s[m + 1] \/ (s[o + 1] = s[m + 1] /\ m <= o)
                <1>1. Len(s) \in Nat
    OBVIOUS
  <1>2. k \in family /\ family \subseteq Nat /\ \A o \in family : o \in Nat /\ o < Len(s)
    BY <1>1
  <1>3. \A o \in family : s[o + 1] \in Nat
    BY <1>1
  <1>4. \A m, o \in family : Beats(m, o) \/ Beats(o, m)
    BY <1>2, <1>3
  <1>5. \A m, o, q \in family : Beats(m, o) /\ Beats(o, q) => Beats(m, q)
    BY <1>2, <1>3, SMTT(30)
  <1>6. \A o \in family : o = k \/ o = 2 * k + 1 \/ o = 2 * k + 2
    OBVIOUS
  <1>. DEFINE l == 2 * k + 1
              r == 2 * k + 2
  <1>7. /\ \A o \in family : o = k \/ o = l \/ o = r
        /\ Down(s, k) = CHOOSE m \in family : \A o \in family : Beats(m, o)
    BY <1>6 DEF Down
  <1>. HIDE DEF family, Beats, l, r
  <1>8. \E m \in family : \A o \in family : Beats(m, o)
    <2>2. CASE l \in family /\ r \in family
      <3>1. PICK b \in family : Beats(b, k) /\ Beats(b, l)
        BY <1>2, <1>4, <2>2
      <3>2. PICK m \in family : Beats(m, b) /\ Beats(m, r)
        BY <1>4, <2>2
      <3>3. Beats(m, k) /\ Beats(m, l) /\ Beats(m, r)
        BY <1>2, <1>5, <2>2, <3>1, <3>2
      <3>. QED  BY <1>7, <3>3
    <2>3. CASE l \in family /\ r \notin family
      BY <1>2, <1>4, <1>7, <2>3
    <2>4. CASE l \notin family /\ r \in family
      BY <1>2, <1>4, <1>7, <2>4
    <2>5. CASE l \notin family /\ r \notin family
      BY <1>2, <1>4, <1>7, <2>5
    <2>. QED  BY <2>2, <2>3, <2>4, <2>5
  <1>9. Down(s, k) \in family
    BY <1>7, <1>8
  <1>. QED  BY <1>2, <1>9

LEMMA TurnTyped ==
  ASSUME NEW way, NEW s \in Seq(Nat), NEW k \in Nat, k < Len(s)
  PROVE  Turn(way, s, k) \in Nat /\ Turn(way, s, k) < Len(s)
  BY UpTyped, DownTyped DEF Turn

\* The loops of heap_add and heap_delete keep the elements.
LEMMA LoopHolds ==
  ASSUME NEW way, NEW a \in Seq(Nat), NEW X \in SUBSET Nat, Holds(a, X),
         NEW k \in Nat, Len(a) = 0 \/ k < Len(a)
  PROVE  Loop(a, k, way) \in Seq(Nat) /\ Holds(Loop(a, k, way), X)
  <1>. DEFINE N == Len(a)
              Begin == [a |-> a, k |-> k]
              Then(r) == LET m == Turn(way, r.a, r.k)
                         IN [a |-> Swap(r.a, r.k + 1, m + 1), k |-> m]
              Body(g) == [t \in 0 .. N |-> IF t = 0 THEN Begin ELSE Then(g[t - 1])]
              after == CHOOSE g : g = Body(g)
              S == {r \in [a : Seq(Nat), k : Nat] :
                      Len(r.a) = N /\ Holds(r.a, X) /\ (N = 0 \/ r.k < N)}
              F == [turn \in (1 .. N) \X S |-> Then(turn[2])]
  <1>1. N \in Nat
    OBVIOUS
  <1>2. Loop(a, k, way) = after[N].a
    BY DEF Loop
  <1>3. Begin \in S
    OBVIOUS
  <1>4. ASSUME NEW r \in S, N # 0 PROVE Then(r) \in S
    <2>. DEFINE s == r.a
                x == r.k
                m == Turn(way, s, x)
                b == Swap(s, x + 1, m + 1)
    <2>1. s \in Seq(Nat) /\ Len(s) = N /\ Holds(s, X) /\ x \in Nat /\ x < N
      BY <1>4
    <2>2. m \in Nat /\ m < N
      BY <2>1, TurnTyped
    <2>3. x + 1 \in 1 .. Len(s) /\ m + 1 \in 1 .. Len(s)
      BY <2>1, <2>2
    <2>. HIDE DEF s, x, m
    <2>4. b \in Seq(Nat) /\ Len(b) = Len(s) /\ Holds(b, X)
      BY <2>1, <2>3, SwapHolds
    <2>5. Then(r) = [a |-> b, k |-> m]
      BY DEF s, x, m
    <2>. HIDE DEF b, Then
    <2>6. [a |-> b, k |-> m] \in S
      BY <2>1, <2>2, <2>4
    <2>. QED  BY <2>5, <2>6
  <1>. HIDE DEF S, Then, Begin
  <1>5. ASSUME NEW t \in 1 .. N, NEW r \in S PROVE F[<<t, r>>] = Then(r)
    <2>. DEFINE turn == <<t, r>>
    <2>1. turn \in (1 .. N) \X S /\ turn[2] = r
      OBVIOUS
    <2>. HIDE DEF turn
    <2>2. F[turn] = Then(turn[2])
      BY <2>1
    <2>. QED  BY <2>1, <2>2 DEF turn
  <1>6. F \in [(1 .. N) \X S -> S]
    <2>1. ASSUME NEW turn \in (1 .. N) \X S PROVE Then(turn[2]) \in S
      <3>1. turn[2] \in S /\ N # 0
        BY <1>1
      <3>. QED  BY <1>4, <3>1
    <2>. QED  BY <2>1
  <1>. HIDE DEF F
  <1>7. PICK g \in [0 .. N -> S] : g[0] = Begin /\ \A t \in 1 .. N : g[t] = F[<<t, g[t - 1]>>]
    <2>. HIDE DEF N
    <2>1. HasIterate(S, Begin, N, F)
      BY <1>1, <1>3, <1>6, Iterates, Zenon
    <2>. QED  BY <2>1 DEF HasIterate
  <1>. HIDE DEF N
  <1>8. g = Body(g)
    <2>1. ASSUME NEW t \in 0 .. N PROVE g[t] = IF t = 0 THEN Begin ELSE Then(g[t - 1])
      <3>1. CASE t = 0
        BY <1>7, <3>1
      <3>2. CASE t # 0
        <4>1. t \in 1 .. N /\ t - 1 \in 0 .. N
          BY <1>1, <3>2
        <4>2. g[t - 1] \in S
          BY <4>1
        <4>. QED  BY <1>5, <1>7, <3>2, <4>1, <4>2
      <3>. QED  BY <3>1, <3>2
    <2>2. g = [t \in 0 .. N |-> g[t]]
      OBVIOUS
    <2>. QED  BY <2>1, <2>2
  <1>9. after = Body(after)
    <2>. HIDE DEF Body
    <2>. QED  BY <1>8
  <1>. HIDE DEF after
  <1>10. after[0] = Begin /\ \A t \in 1 .. N : after[t] = Then(after[t - 1])
    <2>1. 0 \in 0 .. N /\ \A t \in 1 .. N : t \in 0 .. N /\ t # 0
      BY <1>1
    <2>2. after[0] = Begin
      BY <1>9, <2>1
    <2>3. ASSUME NEW t \in 1 .. N PROVE after[t] = Then(after[t - 1])
      BY <1>9, <2>1
    <2>. QED  BY <2>2, <2>3
  <1>11. \A t \in 0 .. N : after[t] \in S
    <2>. DEFINE Each == [t \in 0 .. N |-> S]
    <2>1. \A t \in 0 .. N : Each[t] = S
      OBVIOUS
    <2>2. 0 \in 0 .. N /\ \A t \in 1 .. N : t \in 0 .. N /\ t - 1 \in 0 .. N
      BY <1>1
    <2>. HIDE DEF Each
    <2>3. after[0] \in Each[0]
      BY <1>3, <1>10, <2>1, <2>2
    <2>4. ASSUME NEW t \in 1 .. N, after[t - 1] \in Each[t - 1] PROVE after[t] \in Each[t]
      <3>1. after[t - 1] \in S /\ N # 0
        BY <1>1, <2>1, <2>2, <2>4
      <3>. QED  BY <1>4, <1>10, <2>1, <2>2, <3>1
    <2>5. \A t \in 0 .. N : after[t] \in Each[t]
      BY <1>1, <2>3, <2>4, StaysIn
    <2>. QED  BY <2>1, <2>5
  <1>12. after[N] \in S
    BY <1>1, <1>11
  <1>. QED  BY <1>2, <1>12 DEF S

LEMMA LastFirstHolds ==
  ASSUME NEW s \in Seq(Nat), NEW X \in SUBSET Nat, Holds(s, X), s # << >>
  PROVE  /\ LastFirst(s) \in Seq(Nat) /\ Holds(LastFirst(s), X \ {s[1]})
         /\ Len(LastFirst(s)) = Len(s) - 1
  <1>1. Len(s) \in Nat \ {0}
    BY LenProperties, EmptySeq
  <1>2. CASE Len(s) = 1
    <2>1. LastFirst(s) = << >>
      BY <1>2 DEF LastFirst
    <2>2. ASSUME NEW x \in X PROVE x = s[1]
      <3>1. PICK i \in 1 .. Len(s) : s[i] = x
        BY DEF Holds
      <3>. QED  BY <1>2, <3>1
    <2>. DEFINE e == << >>
    <2>3. e \in Seq(Nat) /\ Len(e) = 0
      OBVIOUS
    <2>. HIDE DEF e
    <2>. DEFINE Y == X \ {s[1]}
    <2>4. Y = {}
      BY <2>2
    <2>. HIDE DEF Y
    <2>5. LastFirst(s) = e
      BY <2>1 DEF e
    <2>6. e \in Seq(Nat) /\ Holds(e, Y) /\ Len(e) = Len(s) - 1
      BY <1>2, <2>3, <2>4 DEF Holds
    <2>7. LastFirst(s) \in Seq(Nat) /\ Holds(LastFirst(s), Y) /\ Len(LastFirst(s)) = Len(s) - 1
      BY <2>5, <2>6
    <2>. QED  BY <2>7 DEF Y
  <1>3. CASE Len(s) # 1
    <2>. DEFINE f == Front(s)
                b == [f EXCEPT ![1] = Last(s)]
                M == Len(s) - 1
    <2>1. f \in Seq(Nat) /\ Len(f) = M /\ \A k \in 1 .. M : f[k] = s[k]
      BY FrontIs
    <2>2. Last(s) = s[Len(s)] /\ s[Len(s)] \in Nat
      BY <1>1 DEF Last
    <2>3. M \in Nat \ {0} /\ Len(s) = M + 1 /\ 1 \in 1 .. M
      <3>. DEFINE n == Len(s)
      <3>1. n \in Nat \ {0} /\ n # 1
        BY <1>1, <1>3
      <3>. HIDE DEF n
      <3>2. n - 1 \in Nat \ {0} /\ n = (n - 1) + 1 /\ 1 \in 1 .. n - 1
        BY <3>1
      <3>. QED  BY <3>2 DEF n
    <2>. HIDE DEF f, M
    <2>4. /\ b \in Seq(Nat) /\ Len(b) = M
          /\ b[1] = s[M + 1] /\ \A k \in 1 .. M : k # 1 => b[k] = s[k]
      BY <2>1, <2>2, <2>3
    <2>5. LastFirst(s) = b
      BY <1>3 DEF LastFirst, f
    <2>. HIDE DEF b
    <2>. DEFINE At(k) == IF k = 1 THEN M + 1 ELSE k
    <2>6. ASSUME NEW k \in 1 .. M
          PROVE  At(k) \in 1 .. Len(s) /\ At(k) # 1 /\ b[k] = s[At(k)]
      BY <2>3, <2>4
    <2>7. ASSUME NEW k \in 1 .. M, NEW m \in 1 .. M, At(k) = At(m) PROVE k = m
      BY <2>3, <2>7
    <2>8. ASSUME NEW m \in 1 .. Len(s), m # 1 PROVE \E k \in 1 .. M : At(k) = m
      <3>1. CASE m = M + 1
        BY <2>3, <3>1
      <3>2. CASE m # M + 1
        <4>1. m \in 1 .. M /\ At(m) = m
          BY <2>3, <2>8, <3>2
        <4>. QED  BY <4>1
      <3>. QED  BY <3>1, <3>2
    <2>. HIDE DEF At
    <2>9. ASSUME NEW k \in 1 .. M, NEW m \in 1 .. M, b[k] = b[m] PROVE k = m
      <3>1. /\ At(k) \in 1 .. Len(s) /\ b[k] = s[At(k)]
            /\ At(m) \in 1 .. Len(s) /\ b[m] = s[At(m)]
        BY <2>6
      <3>2. At(k) = At(m)
        BY <2>9, <3>1, Zenon DEF Holds
      <3>. QED  BY <2>7, <3>2
    <2>10. ASSUME NEW k \in 1 .. M PROVE b[k] \in X \ {s[1]}
      <3>1. At(k) \in 1 .. Len(s) /\ At(k) # 1 /\ b[k] = s[At(k)] /\ 1 \in 1 .. Len(s)
        BY <1>1, <2>6
      <3>2. s[At(k)] \in X /\ s[At(k)] # s[1]
        BY <3>1, Zenon DEF Holds
      <3>. QED  BY <3>1, <3>2
    <2>11. ASSUME NEW n \in X \ {s[1]} PROVE \E k \in 1 .. M : b[k] = n
      <3>1. PICK m \in 1 .. Len(s) : s[m] = n
        BY DEF Holds
      <3>2. PICK k \in 1 .. M : At(k) = m
        BY <2>8, <3>1
      <3>. QED  BY <2>6, <3>1, <3>2
    <2>12. Holds(b, X \ {s[1]})
      BY <2>4, <2>9, <2>10, <2>11 DEF Holds
    <2>. QED  BY <2>3, <2>4, <2>5, <2>12
  <1>. QED  BY <1>2, <1>3

LEMMA HeapStep ==
  ASSUME HeapOK, [ArraysNext]_arraysVars PROVE HeapOK'
  <1>1. ASSUME UNCHANGED uses, uses # "heap" \/ UNCHANGED <<spec, heap>> PROVE HeapOK'
    BY <1>1 DEF HeapOK, Holds
  <1>2. ASSUME NEW n \in TreeNumber, heap_add(n) PROVE HeapOK'
    <2>1. /\ uses = "heap" /\ uses' = uses /\ n \in Nat /\ n \notin spec
          /\ spec' = spec \cup {n} /\ heap' = Loop(Append(heap, n), Len(heap), "up")
      BY <1>2, ConstantsTyped DEF heap_add, Put
    <2>2. heap \in Seq(Nat) /\ spec \in SUBSET Nat /\ Holds(heap, spec)
      BY <2>1 DEF HeapOK
    <2>. DEFINE a == Append(heap, n)
                X == spec \cup {n}
    <2>3. a \in Seq(Nat) /\ Len(a) = Len(heap) + 1 /\ Len(heap) \in Nat /\ a = heap \o <<n>>
      BY <2>1, <2>2
    <2>4. Holds(a, X) /\ X \in SUBSET Nat
      <3>. DEFINE one == <<n>>
                  Y == {n}
      <3>1. one \in Seq(Nat) /\ Holds(one, Y)
        BY <2>1, OneHolds
      <3>2. Y \in SUBSET Nat /\ spec \cap Y = {}
        BY <2>1
      <3>3. a = heap \o one
        BY <2>3
      <3>. HIDE DEF one, Y, a
      <3>4. Holds(heap \o one, spec \cup Y)
        BY <2>2, <3>1, <3>2, BothHold
      <3>. QED  BY <2>1, <2>2, <3>3, <3>4 DEF Y
    <2>. DEFINE k == Len(heap)
                b == Loop(a, k, "up")
    <2>5. k \in Nat /\ k < Len(a)
      BY <2>3
    <2>6. b \in Seq(Nat) /\ Holds(b, X)
      <3>. HIDE DEF a, X, k
      <3>. QED  BY <2>3, <2>4, <2>5, LoopHolds
    <2>. HIDE DEF b
    <2>7. heap' = b /\ spec' = X
      BY <2>1 DEF b
    <2>. HIDE DEF X
    <2>. QED  BY <2>4, <2>6, <2>7 DEF HeapOK, Holds
  <1>3. CASE heap_delete
    <2>1. /\ uses = "heap" /\ uses' = uses /\ heap # << >>
          /\ spec' = spec \ {heap[1]} /\ heap' = Loop(LastFirst(heap), 0, "down")
      BY <1>3 DEF heap_delete, Take
    <2>2. heap \in Seq(Nat) /\ spec \in SUBSET Nat /\ Holds(heap, spec)
      BY <2>1 DEF HeapOK
    <2>. DEFINE a == LastFirst(heap)
                X == spec \ {heap[1]}
                b == Loop(a, 0, "down")
    <2>3. a \in Seq(Nat) /\ Holds(a, X) /\ X \in SUBSET Nat
      BY <2>1, <2>2, LastFirstHolds
    <2>4. 0 \in Nat /\ (Len(a) = 0 \/ 0 < Len(a))
      BY <2>3
    <2>5. b \in Seq(Nat) /\ Holds(b, X)
      <3>. HIDE DEF a, X
      <3>. QED  BY <2>3, <2>4, LoopHolds
    <2>. HIDE DEF b
    <2>6. heap' = b /\ spec' = X
      BY <2>1 DEF b
    <2>. HIDE DEF X
    <2>. QED  BY <2>3, <2>5, <2>6 DEF HeapOK, Holds
  <1>4. CASE \/ BeginPartition \/ Exchange \/ PlacePivot \/ OrderPair
             \/ queue_delete \/ init_heap_beebs
             \/ \E n \in Number : hashed_add(n) \/ hashed_delete_if_member(n) \/ queue_add(n)
             \/ \E size \in Sizes : malloc_beebs(size)
             \/ UNCHANGED arraysVars
    <2>1. UNCHANGED uses /\ (uses # "heap" \/ UNCHANGED <<spec, heap>>)
      BY <1>4 DEF BeginPartition, Exchange, PlacePivot, OrderPair, sortFrame, specVars,
                  queue_delete, init_heap_beebs, hashed_add, hashed_delete_if_member,
                  queue_add, malloc_beebs, arraysVars
    <2>. QED  BY <1>1, <2>1
  <1>. QED  BY <1>2, <1>3, <1>4 DEF ArraysNext

-----------------------------------------------------------------------------
(* Nothing is lost.                                                        *)

ContainersOK == MemOK /\ QueueOK /\ HashOK /\ HeapOK

LEMMA ContainersInit ==
  ASSUME ArraysInit PROVE ContainersOK
  <1>0. /\ spec = {} /\ fifo = << >> /\ heap = << >> /\ ai = 0 /\ aj = 0
        /\ htab = [h \in Cells |-> << >>] /\ queue = [k \in 0 .. MAX_PARAMS - 1 |-> Null]
        /\ mem = [ptr |-> 0, requested |-> 0, failed |-> FALSE]
    BY DEF ArraysInit, ArraysInitial, Cells
  <1>. DEFINE e == << >>
  <1>1. e \in Seq(Nat) /\ Len(e) = 0
    OBVIOUS
  <1>2. spec \in SUBSET Nat /\ spec = {} /\ fifo = e /\ heap = e /\ htab = [h \in Cells |-> e]
    BY <1>0
  <1>. HIDE DEF e
  <1>3. Holds(e, {})
    BY <1>1 DEF Holds
  <1>4. MemOK
    BY <1>0, ConstantsTyped DEF MemOK
  <1>5. QueueOK
    <2>1. 0 \in 0 .. MAX_PARAMS - 1 /\ (0 - 0) % MAX_PARAMS = 0
      BY ConstantsTyped
    <2>2. queue \in [0 .. MAX_PARAMS - 1 -> Nat]
      BY <1>0 DEF Null
    <2>3. ai \in 0 .. MAX_PARAMS - 1 /\ aj \in 0 .. MAX_PARAMS - 1 /\ (aj - ai) % MAX_PARAMS = 0
      BY <1>0, <2>1
    <2>. QED  BY <1>1, <1>2, <2>2, <2>3 DEF QueueOK
  <1>6. HashOK
    <2>1. \A h \in Cells : InCell(h) = {} /\ htab[h] = e
      BY <1>2 DEF InCell
    <2>. QED  BY <1>1, <1>2, <1>3, <2>1 DEF HashOK
  <1>7. HeapOK
    BY <1>1, <1>2, <1>3 DEF HeapOK
  <1>. QED  BY <1>4, <1>5, <1>6, <1>7 DEF ContainersOK

LEMMA NothingLostByOK ==
  ASSUME ContainersOK PROVE NothingLost
  <1>1. MemOK /\ QueueOK /\ HashOK /\ HeapOK
    BY DEF ContainersOK
  <1>2. HashedComplete
    BY <1>1, HashedByOK
  <1>3. QueueInOrder
    <2>. SUFFICES ASSUME uses = "queue" PROVE QueueInOrder
      BY DEF QueueInOrder
    <2>1. DOMAIN queue = 0 .. MAX_PARAMS - 1 /\ DOMAIN fifo = 1 .. Len(fifo)
      BY <1>1, LenProperties DEF QueueOK
    <2>. QED  BY <1>1, <2>1 DEF QueueInOrder, QueueOK
  <1>4. HeapKeepsElements
    BY <1>1, HoldsCounts DEF HeapKeepsElements, HeapOK
  <1>5. CheckHeapTells
    <2>. SUFFICES ASSUME uses = "malloc" PROVE (mem.requested <= HEAP_SIZE) = ~ mem.failed
      BY DEF CheckHeapTells, check_heap_beebs
    <2>1. /\ mem.failed \in BOOLEAN /\ mem.requested \in Nat
          /\ ~ mem.failed => mem.requested <= HEAP_SIZE
          /\ mem.failed => mem.requested > HEAP_SIZE
      BY <1>1 DEF MemOK
    <2>. QED  BY <2>1, ConstantsTyped
  <1>. QED  BY <1>2, <1>3, <1>4, <1>5 DEF NothingLost

\* The containers return what was put in and not taken out, and the allocator's
\* check tells whether an allocation failed (the macros of sglib.h for hashed
\* containers, queues and heaps; beebsc.c).
THEOREM ContainersLoseNothing == ArraysSpec => []NothingLost
  <1>1. ArraysInit => ContainersOK
    BY ContainersInit
  <1>2. ContainersOK /\ [ArraysNext]_arraysVars => ContainersOK'
    BY MemStep, QueueStep, HashStep, HeapStep DEF ContainersOK
  <1>3. ContainersOK => NothingLost
    BY NothingLostByOK
  <1>. QED  BY <1>1, <1>2, <1>3, PTL DEF ArraysSpec

-----------------------------------------------------------------------------
(* The double linked list.                                                 *)

LEMMA NumberTyped ==
  /\ Number \subseteq Nat \ {0} /\ Null \notin Number /\ Number \in SUBSET Nat
  /\ IsFiniteSet(Number) /\ Cardinality(Number) \in Nat
  <1>1. IsFiniteSet(Number \cup TreeNumber) /\ Number \subseteq Nat \ {0}
    BY SglibAssumption
  <1>2. IsFiniteSet(Number)
    BY <1>1, FS_Subset
  <1>. QED  BY <1>1, <1>2, FS_CardinalityType DEF Null

\* c has the L elements that link leads to from n on.
Chain(c, L, link, n) ==
  /\ L \in Nat /\ L <= Cardinality(Number) /\ c \in [1 .. L -> Number]
  /\ n = IF L = 0 THEN Null ELSE c[1]
  /\ \A k \in 1 .. L : link[c[k]] = IF k < L THEN c[k + 1] ELSE Null

LEMMA FollowIs ==
  ASSUME NEW c, NEW L, NEW link, NEW n, Chain(c, L, link, n)
  PROVE  Follow(link, n) = c
  <1>. DEFINE C == Cardinality(Number)
              Body(g) == [t \in 0 .. C |->
                            IF t = 0 THEN n
                            ELSE LET m == g[t - 1] IN IF m = Null THEN Null ELSE link[m]]
              at == CHOOSE g : g = Body(g)
              G(t) == IF t < L THEN c[t + 1] ELSE Null
              g == [t \in 0 .. C |-> G(t)]
  <1>1. /\ C \in Nat /\ L \in 0 .. C /\ \A k \in 1 .. L : c[k] \in Number /\ c[k] # Null
        /\ \A k \in 1 .. L : link[c[k]] = IF k < L THEN c[k + 1] ELSE Null
        /\ n = IF L = 0 THEN Null ELSE c[1]
    BY NumberTyped DEF Chain
  <1>2. Follow(link, n) = [k \in 1 .. Cardinality({t \in 0 .. C : at[t] # Null}) |-> at[k - 1]]
    BY DEF Follow
  <1>3. c = [k \in 1 .. L |-> c[k]]
    BY DEF Chain
  <1>. HIDE DEF C
  <1>4. \A t \in 0 .. C : g[t] = G(t)
    OBVIOUS
  <1>5. ASSUME NEW t \in 1 .. C
        PROVE  G(t) = IF G(t - 1) = Null THEN Null ELSE link[G(t - 1)]
    <2>1. CASE t <= L
      <3>1. t \in 1 .. L /\ t - 1 < L /\ t - 1 + 1 = t
        BY <1>1, <2>1
      <3>2. G(t - 1) = c[t] /\ c[t] # Null /\ link[c[t]] = IF t < L THEN c[t + 1] ELSE Null
        BY <1>1, <3>1
      <3>. QED  BY <3>2
    <2>2. CASE ~ (t <= L)
      <3>1. ~ (t < L) /\ ~ (t - 1 < L)
        BY <1>1, <2>2
      <3>. QED  BY <3>1
    <2>. QED  BY <2>1, <2>2
  <1>6. G(0) = n
    BY <1>1
  <1>7. g = Body(g)
    <2>1. ASSUME NEW t \in 0 .. C
          PROVE  g[t] = IF t = 0 THEN n
                        ELSE LET m == g[t - 1] IN IF m = Null THEN Null ELSE link[m]
      <3>1. CASE t = 0
        BY <1>1, <1>4, <1>6, <3>1
      <3>2. CASE t # 0
        <4>1. t \in 1 .. C /\ t - 1 \in 0 .. C
          BY <1>1, <3>2
        <4>. HIDE DEF g, G
        <4>. QED  BY <1>4, <1>5, <3>2, <4>1
      <3>. QED  BY <3>1, <3>2
    <2>2. g = [t \in 0 .. C |-> g[t]]
      OBVIOUS
    <2>. HIDE DEF g
    <2>. QED  BY <2>1, <2>2
  <1>8. at = Body(at)
    <2>. HIDE DEF Body, g
    <2>. QED  BY <1>7
  <1>. HIDE DEF at, G, g
  <1>9. \A t \in 0 .. C : at[t] = G(t)
    <2>. DEFINE Each == [t \in 0 .. C |-> {G(t)}]
    <2>1. \A t \in 0 .. C : \A x : x \in Each[t] <=> x = G(t)
      OBVIOUS
    <2>2. 0 \in 0 .. C /\ \A t \in 1 .. C : t \in 0 .. C /\ t - 1 \in 0 .. C /\ t # 0
      BY <1>1
    <2>. HIDE DEF Each
    <2>3. at[0] \in Each[0]
      BY <1>6, <1>8, <2>1, <2>2
    <2>4. ASSUME NEW t \in 1 .. C, at[t - 1] \in Each[t - 1] PROVE at[t] \in Each[t]
      <3>1. at[t - 1] = G(t - 1)
        BY <2>1, <2>2, <2>4
      <3>2. at[t] = IF at[t - 1] = Null THEN Null ELSE link[at[t - 1]]
        BY <1>8, <2>2
      <3>. QED  BY <1>5, <2>1, <2>2, <3>1, <3>2
    <2>5. \A t \in 0 .. C : at[t] \in Each[t]
      BY <1>1, <2>3, <2>4, StaysIn
    <2>. QED  BY <2>1, <2>5
  <1>10. /\ \A t \in 0 .. C : at[t] # Null <=> t < L
         /\ \A k \in 1 .. L : k - 1 \in 0 .. C /\ at[k - 1] = c[k]
    BY <1>1, <1>9 DEF G
  <1>11. Cardinality({t \in 0 .. C : at[t] # Null}) = L
    <2>1. {t \in 0 .. C : at[t] # Null} = 0 .. L - 1
      BY <1>1, <1>10
    <2>2. Cardinality(0 .. L - 1) = L
      <3>1. 0 \in Int /\ L - 1 \in Int /\ (0 > L - 1 => L = 0) /\ L - 1 - 0 + 1 = L
        BY <1>1
      <3>. QED  BY <3>1, FS_Interval
    <2>. QED  BY <2>1, <2>2
  <1>12. [k \in 1 .. L |-> at[k - 1]] = [k \in 1 .. L |-> c[k]]
    BY <1>10
  <1>. QED  BY <1>2, <1>3, <1>11, <1>12

\* f has the N elements of X in the order of the links.
Linked(f, N, X, forth, back) ==
  /\ X \subseteq Number /\ N \in Nat /\ f \in [1 .. N -> X]
  /\ \A k, m \in 1 .. N : f[k] = f[m] => k = m
  /\ \A x \in X : \E k \in 1 .. N : f[k] = x
  /\ \A k \in 1 .. N : /\ k < N => forth[f[k]] = f[k + 1]
                       /\ k = N => forth[f[k]] = Null
                       /\ 1 < k => back[f[k]] = f[k - 1]
                       /\ k = 1 => back[f[k]] = Null

Links == [Number -> Number \cup {Null}]

DlOK ==
  /\ uses = "dllist"
  /\ next \in Links /\ previous \in Links
  /\ IF spec = {} THEN list = Null ELSE list \in spec
  /\ \E f, N : Linked(f, N, spec, next, previous)

LEMMA FunctionIsSeq ==
  ASSUME NEW S, NEW m \in Nat, NEW c \in [1 .. m -> S]
  PROVE  c \in Seq(S) /\ Len(c) = m
  <1>1. c \in Seq(S)
    BY SeqDef
  <1>2. Len(c) \in Nat /\ DOMAIN c = 1 .. Len(c) /\ DOMAIN c = 1 .. m
    BY <1>1, LenProperties
  <1>. QED  BY <1>1, <1>2

LEMMA LinkedCounts ==
  ASSUME NEW X, NEW f, NEW N, NEW forth, NEW back, Linked(f, N, X, forth, back)
  PROVE  /\ f \in Seq(Number) /\ Len(f) = N /\ Holds(f, X)
         /\ N = Cardinality(X) /\ N <= Cardinality(Number)
  <1>1. N \in Nat /\ f \in [1 .. N -> Number] /\ X \subseteq Number
    BY DEF Linked
  <1>2. f \in Seq(Number)
    BY <1>1, FunctionIsSeq
  <1>3. Len(f) = N
    BY <1>1, FunctionIsSeq
  <1>4. Holds(f, X)
    BY <1>3 DEF Linked, Holds
  <1>5. Number \subseteq Nat
    BY NumberTyped
  <1>6. f \in Seq(Nat) /\ X \in SUBSET Nat
    BY <1>1, <1>2, <1>5, SeqMonotonic
  <1>7. N = Cardinality(X)
    BY <1>3, <1>4, <1>6, HoldsCounts
  <1>8. Cardinality(X) <= Cardinality(Number)
    BY <1>1, NumberTyped, FS_Subset
  <1>. QED  BY <1>2, <1>3, <1>4, <1>7, <1>8

\* n stands at i, linked to its neighbours and they to it; all else is as it was.
Joins(f, N, n, i, forth, back, onward, backward) ==
  /\ i \in 1 .. N + 1
  /\ i <= N => onward[n] = f[i] /\ backward[f[i]] = n
  /\ i = N + 1 => onward[n] = Null
  /\ 1 < i => backward[n] = f[i - 1] /\ onward[f[i - 1]] = n
  /\ i = 1 => backward[n] = Null
  /\ \A k \in 1 .. N : /\ k # i - 1 => onward[f[k]] = forth[f[k]]
                       /\ k # i => backward[f[k]] = back[f[k]]

LEMMA Joined ==
  ASSUME NEW X, NEW q, NEW N, NEW forth, NEW back, Linked(q, N, X, forth, back),
         NEW n \in Number, n \notin X, NEW i, NEW onward, NEW backward,
         Joins(q, N, n, i, forth, back, onward, backward)
  PROVE  \E f : Linked(f, N + 1, X \cup {n}, onward, backward)
  <1>. DEFINE F(k) == IF k < i THEN q[k] ELSE IF k = i THEN n ELSE q[k - 1]
              f == [k \in 1 .. N + 1 |-> F(k)]
              Y == X \cup {n}
  <1>1. /\ N \in Nat /\ X \subseteq Number
        /\ \A k \in 1 .. N : q[k] \in X
        /\ \A k, m \in 1 .. N : q[k] = q[m] => k = m
        /\ \A x \in X : \E k \in 1 .. N : q[k] = x
        /\ \A k \in 1 .. N : /\ k < N => forth[q[k]] = q[k + 1]
                             /\ k = N => forth[q[k]] = Null
                             /\ 1 < k => back[q[k]] = q[k - 1]
                             /\ k = 1 => back[q[k]] = Null
    BY DEF Linked
  <1>2. /\ i \in 1 .. N + 1
        /\ i <= N => onward[n] = q[i] /\ backward[q[i]] = n
        /\ i = N + 1 => onward[n] = Null
        /\ 1 < i => backward[n] = q[i - 1] /\ onward[q[i - 1]] = n
        /\ i = 1 => backward[n] = Null
        /\ \A k \in 1 .. N : /\ k # i - 1 => onward[q[k]] = forth[q[k]]
                             /\ k # i => backward[q[k]] = back[q[k]]
    BY DEF Joins
  <1>3. \A k \in 1 .. N + 1 : /\ k < i => k \in 1 .. N /\ F(k) = q[k]
                              /\ k = i => F(k) = n
                              /\ i < k => k - 1 \in 1 .. N /\ F(k) = q[k - 1]
    BY <1>1, <1>2
  <1>. HIDE DEF F
  <1>4. \A k \in 1 .. N + 1 : F(k) \in Y
    <2>1. ASSUME NEW k \in 1 .. N + 1 PROVE F(k) \in Y
      <3>1. k < i \/ k = i \/ i < k
        BY <1>1, <1>2
      <3>. QED  BY <1>1, <1>3, <3>1
    <2>. QED  BY <2>1
  <1>5. ASSUME NEW k \in 1 .. N + 1, NEW m \in 1 .. N + 1, F(k) = F(m) PROVE k = m
    <2>1. (k < i \/ k = i \/ i < k) /\ (m < i \/ m = i \/ i < m)
      BY <1>1, <1>2
    <2>2. CASE k = i \/ m = i
      BY <1>1, <1>3, <1>5, <2>1, <2>2
    <2>3. CASE k # i /\ m # i
      <3>. DEFINE a == IF k < i THEN k ELSE k - 1
                  b == IF m < i THEN m ELSE m - 1
      <3>1. a \in 1 .. N /\ F(k) = q[a] /\ b \in 1 .. N /\ F(m) = q[b]
        BY <1>3, <2>1, <2>3
      <3>2. a = b
        <4>. HIDE DEF a, b
        <4>1. q[a] = q[b]
          BY <1>5, <3>1
        <4>. QED  BY <1>1, <3>1, <4>1, Zenon
      <3>. QED  BY <1>1, <1>2, <2>1, <2>3, <3>2
    <2>. QED  BY <2>2, <2>3
  <1>6. ASSUME NEW y \in Y PROVE \E k \in 1 .. N + 1 : F(k) = y
    <2>1. CASE y = n
      BY <1>2, <1>3, <2>1
    <2>2. CASE y \in X
      <3>1. PICK k \in 1 .. N : q[k] = y
        BY <1>1, <2>2
      <3>2. CASE k < i
        <4>1. k \in 1 .. N + 1
          BY <1>1
        <4>. QED  BY <1>3, <3>1, <3>2, <4>1
      <3>3. CASE ~ (k < i)
        <4>1. k + 1 \in 1 .. N + 1 /\ i < k + 1 /\ k + 1 - 1 = k
          BY <1>1, <1>2, <3>3
        <4>2. F(k + 1) = q[k + 1 - 1]
          BY <1>3, <4>1
        <4>. QED  BY <3>1, <4>1, <4>2
      <3>. QED  BY <3>2, <3>3
    <2>. QED  BY <2>1, <2>2
  <1>7. ASSUME NEW k \in 1 .. N + 1
        PROVE  /\ k < N + 1 => onward[F(k)] = F(k + 1)
               /\ k = N + 1 => onward[F(k)] = Null
    <2>1. CASE k < i /\ k # i - 1
      <3>1. k \in 1 .. N /\ k + 1 \in 1 .. N + 1 /\ k + 1 < i /\ k < N /\ k # N + 1
        BY <1>1, <1>2, <2>1
      <3>2. F(k) = q[k] /\ F(k + 1) = q[k + 1] /\ onward[q[k]] = forth[q[k]] /\ forth[q[k]] = q[k + 1]
        BY <1>1, <1>2, <1>3, <2>1, <3>1
      <3>. QED  BY <3>1, <3>2
    <2>2. CASE k = i - 1
      <3>1. k \in 1 .. N /\ k < i /\ k + 1 = i /\ 1 < i /\ k # N + 1 /\ i \in 1 .. N + 1
        BY <1>1, <1>2, <2>2
      <3>2. F(k) = q[k] /\ F(i) = n /\ onward[q[i - 1]] = n
        BY <1>2, <1>3, <3>1
      <3>. QED  BY <2>2, <3>1, <3>2
    <2>3. CASE k = i
      <3>1. F(k) = n
        BY <1>3, <2>3
      <3>2. CASE i <= N
        <4>1. k + 1 \in 1 .. N + 1 /\ i < k + 1 /\ k + 1 - 1 = i /\ k # N + 1
          BY <1>1, <1>2, <2>3, <3>2
        <4>2. F(k + 1) = q[k + 1 - 1]
          BY <1>3, <4>1
        <4>. QED  BY <1>2, <3>1, <3>2, <4>1, <4>2
      <3>3. CASE ~ (i <= N)
        <4>1. ~ (k < N + 1) /\ i = N + 1
          BY <1>1, <1>2, <2>3, <3>3
        <4>. QED  BY <1>2, <2>3, <3>1, <4>1
      <3>. QED  BY <3>2, <3>3
    <2>4. CASE i < k
      <3>. DEFINE a == k - 1
      <3>1. /\ a \in 1 .. N /\ a # i - 1 /\ k = a + 1 /\ (k < N + 1 <=> a < N) /\ (k = N + 1 <=> a = N)
            /\ k < N + 1 => k + 1 \in 1 .. N + 1 /\ i < k + 1 /\ k + 1 - 1 = k
        BY <1>1, <1>2, <2>4
      <3>2. F(k) = q[a]
        BY <1>3, <2>4
      <3>3. k < N + 1 => F(k + 1) = q[a + 1]
        <4>1. k < N + 1 => F(k + 1) = q[k + 1 - 1]
          BY <1>3, <3>1
        <4>. QED  BY <3>1, <4>1
      <3>. HIDE DEF a
      <3>4. onward[q[a]] = forth[q[a]] /\ (a < N => forth[q[a]] = q[a + 1]) /\ (a = N => forth[q[a]] = Null)
        BY <1>1, <1>2, <3>1
      <3>. QED  BY <3>1, <3>2, <3>3, <3>4
    <2>. QED  BY <1>1, <1>2, <2>1, <2>2, <2>3, <2>4
  <1>8. ASSUME NEW k \in 1 .. N + 1
        PROVE  /\ 1 < k => backward[F(k)] = F(k - 1)
               /\ k = 1 => backward[F(k)] = Null
    <2>1. CASE k < i
      <3>1. k \in 1 .. N /\ k # i /\ (1 < k => k - 1 \in 1 .. N + 1 /\ k - 1 < i)
        BY <1>1, <1>2, <2>1
      <3>2. F(k) = q[k] /\ backward[q[k]] = back[q[k]] /\ (1 < k => F(k - 1) = q[k - 1])
        BY <1>2, <1>3, <2>1, <3>1
      <3>. QED  BY <1>1, <3>1, <3>2
    <2>2. CASE k = i
      <3>1. F(k) = n /\ (1 < k => k - 1 \in 1 .. N + 1 /\ k - 1 < i) /\ (k = 1 => ~ (1 < i))
        BY <1>1, <1>2, <1>3, <2>2
      <3>2. 1 < k => F(k - 1) = q[k - 1]
        BY <1>3, <3>1
      <3>. QED  BY <1>2, <2>2, <3>1, <3>2
    <2>3. CASE i < k /\ k - 1 = i
      <3>1. k - 1 \in 1 .. N /\ F(k) = q[k - 1] /\ F(k - 1) = n /\ i <= N /\ k # 1
        BY <1>1, <1>2, <1>3, <2>3
      <3>. QED  BY <1>2, <2>3, <3>1
    <2>4. CASE i < k /\ k - 1 # i
      <3>. DEFINE a == k - 1
      <3>1. a \in 1 .. N /\ a # i /\ 1 < a /\ a \in 1 .. N + 1 /\ i < a /\ k # 1
        BY <1>1, <1>2, <2>4
      <3>2. F(k) = q[a]
        BY <1>3, <2>4
      <3>3. F(a) = q[a - 1]
        <4>. HIDE DEF a
        <4>. QED  BY <1>3, <3>1
      <3>4. backward[q[a]] = back[q[a]] /\ back[q[a]] = q[a - 1]
        <4>. HIDE DEF a
        <4>. QED  BY <1>1, <1>2, <3>1
      <3>. QED  BY <3>1, <3>2, <3>3, <3>4
    <2>. QED  BY <1>1, <1>2, <2>1, <2>2, <2>3, <2>4
  <1>9. f \in [1 .. N + 1 -> Y] /\ \A k \in 1 .. N + 1 : f[k] = F(k)
    BY <1>4
  <1>. HIDE DEF f
  <1>10. /\ \A k, m \in 1 .. N + 1 : f[k] = f[m] => k = m
         /\ \A y \in Y : \E k \in 1 .. N + 1 : f[k] = y
    BY <1>5, <1>6, <1>9
  <1>11. \A k \in 1 .. N + 1 : /\ k < N + 1 => onward[f[k]] = f[k + 1]
                               /\ k = N + 1 => onward[f[k]] = Null
                               /\ 1 < k => backward[f[k]] = f[k - 1]
                               /\ k = 1 => backward[f[k]] = Null
    <2>1. \A k \in 1 .. N + 1 : /\ k < N + 1 => k + 1 \in 1 .. N + 1
                                /\ 1 < k => k - 1 \in 1 .. N + 1
      BY <1>1
    <2>. QED  BY <1>7, <1>8, <1>9, <2>1
  <1>. HIDE DEF Y
  <1>12. Linked(f, N + 1, Y, onward, backward)
    <2>. DEFINE M == N + 1
    <2>1. M \in Nat /\ Y \subseteq Number
      BY <1>1 DEF M, Y
    <2>. HIDE DEF M
    <2>2. /\ Y \subseteq Number /\ M \in Nat /\ f \in [1 .. M -> Y]
          /\ \A k, m \in 1 .. M : f[k] = f[m] => k = m
          /\ \A y \in Y : \E k \in 1 .. M : f[k] = y
          /\ \A k \in 1 .. M : /\ k < M => onward[f[k]] = f[k + 1]
                               /\ k = M => onward[f[k]] = Null
                               /\ 1 < k => backward[f[k]] = f[k - 1]
                               /\ k = 1 => backward[f[k]] = Null
      BY <1>9, <1>10, <1>11, <2>1, Zenon DEF M
    <2>3. Linked(f, M, Y, onward, backward)
      BY <2>2, Zenon DEF Linked
    <2>. QED  BY <2>3 DEF M
  <1>. QED  BY <1>12 DEF Y

\* The element at i goes, and its neighbours are linked to each other.
Leaves(f, N, i, forth, back, onward, backward) ==
  /\ i \in 1 .. N
  /\ 1 < i => onward[f[i - 1]] = forth[f[i]]
  /\ i < N => backward[f[i + 1]] = back[f[i]]
  /\ \A k \in 1 .. N : /\ k # i - 1 => onward[f[k]] = forth[f[k]]
                       /\ k # i + 1 => backward[f[k]] = back[f[k]]

LEMMA Left ==
  ASSUME NEW X, NEW q, NEW N, NEW forth, NEW back, Linked(q, N, X, forth, back),
         NEW i, NEW onward, NEW backward, Leaves(q, N, i, forth, back, onward, backward)
  PROVE  \E f : Linked(f, N - 1, X \ {q[i]}, onward, backward)
  <1>. DEFINE At(k) == IF k < i THEN k ELSE k + 1
              f == [k \in 1 .. N - 1 |-> q[At(k)]]
              Y == X \ {q[i]}
  <1>1. /\ N \in Nat /\ X \subseteq Number
        /\ \A k \in 1 .. N : q[k] \in X
        /\ \A k, m \in 1 .. N : q[k] = q[m] => k = m
        /\ \A x \in X : \E k \in 1 .. N : q[k] = x
        /\ \A k \in 1 .. N : /\ k < N => forth[q[k]] = q[k + 1]
                             /\ k = N => forth[q[k]] = Null
                             /\ 1 < k => back[q[k]] = q[k - 1]
                             /\ k = 1 => back[q[k]] = Null
    BY DEF Linked
  <1>2. /\ i \in 1 .. N
        /\ 1 < i => onward[q[i - 1]] = forth[q[i]]
        /\ i < N => backward[q[i + 1]] = back[q[i]]
        /\ \A k \in 1 .. N : /\ k # i - 1 => onward[q[k]] = forth[q[k]]
                             /\ k # i + 1 => backward[q[k]] = back[q[k]]
    BY DEF Leaves
  <1>3. \A k \in 1 .. N - 1 : /\ At(k) \in 1 .. N /\ At(k) # i
                              /\ k < i => At(k) = k
                              /\ i <= k => At(k) = k + 1
    BY <1>1, <1>2
  <1>4. \A k, m \in 1 .. N - 1 : At(k) = At(m) => k = m
    BY <1>1, <1>2
  <1>5. ASSUME NEW m \in 1 .. N, m # i PROVE \E k \in 1 .. N - 1 : At(k) = m
    <2>1. CASE m < i
      <3>1. m \in 1 .. N - 1 /\ At(m) = m
        BY <1>1, <1>2, <2>1
      <3>. QED  BY <3>1
    <2>2. CASE m > i
      <3>1. m - 1 \in 1 .. N - 1 /\ At(m - 1) = m
        BY <1>1, <1>2, <2>2
      <3>. QED  BY <3>1
    <2>. QED  BY <1>1, <1>2, <1>5, <2>1, <2>2
  <1>6. f \in [1 .. N - 1 -> Y] /\ \A k \in 1 .. N - 1 : f[k] = q[At(k)]
    <2>. HIDE DEF At
    <2>1. ASSUME NEW k \in 1 .. N - 1 PROVE q[At(k)] \in Y
      BY <1>1, <1>2, <1>3
    <2>. QED  BY <2>1
  <1>. HIDE DEF At, f
  <1>7. ASSUME NEW k \in 1 .. N - 1, NEW m \in 1 .. N - 1, f[k] = f[m] PROVE k = m
    <2>1. q[At(k)] = q[At(m)]
      BY <1>6, <1>7
    <2>2. At(k) = At(m)
      BY <1>1, <1>3, <2>1
    <2>. QED  BY <1>4, <2>2
  <1>8. ASSUME NEW y \in Y PROVE \E k \in 1 .. N - 1 : f[k] = y
    <2>1. PICK m \in 1 .. N : q[m] = y
      BY <1>1
    <2>2. PICK k \in 1 .. N - 1 : At(k) = m
      BY <1>5, <2>1
    <2>. QED  BY <1>6, <2>1, <2>2
  <1>9. ASSUME NEW k \in 1 .. N - 1
        PROVE  /\ k < N - 1 => onward[f[k]] = f[k + 1]
               /\ k = N - 1 => onward[f[k]] = Null
    <2>1. k < N - 1 => k + 1 \in 1 .. N - 1 /\ f[k + 1] = q[At(k + 1)]
      BY <1>1, <1>6
    <2>2. CASE k < i /\ k # i - 1
      <3>1. k \in 1 .. N /\ k + 1 < i /\ k < N - 1 /\ k + 1 \in 1 .. N - 1 /\ k < N /\ k # N - 1
        BY <1>1, <1>2, <2>2
      <3>2. At(k) = k /\ At(k + 1) = k + 1
        BY <1>3, <2>2, <3>1
      <3>3. onward[q[k]] = forth[q[k]] /\ forth[q[k]] = q[k + 1] /\ f[k] = q[k]
        <4>1. onward[q[k]] = forth[q[k]]
          BY <1>2, <2>2, <3>1
        <4>2. forth[q[k]] = q[k + 1]
          BY <1>1, <3>1
        <4>3. f[k] = q[k]
          BY <1>6, <3>2
        <4>. QED  BY <4>1, <4>2, <4>3
      <3>. QED  BY <2>1, <3>1, <3>2, <3>3
    <2>3. CASE k = i - 1
      <3>1. /\ k < i /\ 1 < i /\ i \in 1 .. N /\ k + 1 = i
            /\ (k < N - 1 <=> i < N) /\ (k = N - 1 <=> i = N)
        BY <1>1, <1>2, <2>3
      <3>2. At(k) = k /\ (k < N - 1 => At(k + 1) = i + 1)
        BY <1>3, <2>1, <3>1
      <3>3. f[k] = q[i - 1] /\ onward[f[k]] = forth[q[i]]
        BY <1>2, <1>6, <2>3, <3>1, <3>2
      <3>4. (i < N => forth[q[i]] = q[i + 1]) /\ (i = N => forth[q[i]] = Null)
        BY <1>1, <3>1
      <3>. QED  BY <2>1, <3>1, <3>2, <3>3, <3>4
    <2>4. CASE i <= k
      <3>. DEFINE a == k + 1
      <3>1. /\ a \in 1 .. N /\ a # i - 1 /\ (k < N - 1 <=> a < N) /\ (k = N - 1 <=> a = N)
            /\ i <= k + 1
        BY <1>1, <1>2, <2>4
      <3>2. At(k) = a /\ (k < N - 1 => At(k + 1) = a + 1)
        BY <1>3, <2>1, <2>4, <3>1
      <3>. HIDE DEF a
      <3>3. f[k] = q[a] /\ onward[q[a]] = forth[q[a]]
        BY <1>2, <1>6, <3>1, <3>2
      <3>4. (a < N => forth[q[a]] = q[a + 1]) /\ (a = N => forth[q[a]] = Null)
        BY <1>1, <3>1
      <3>. QED  BY <2>1, <3>1, <3>2, <3>3, <3>4
    <2>. QED  BY <1>1, <1>2, <2>2, <2>3, <2>4
  <1>10. ASSUME NEW k \in 1 .. N - 1
         PROVE  /\ 1 < k => backward[f[k]] = f[k - 1]
                /\ k = 1 => backward[f[k]] = Null
    <2>1. 1 < k => k - 1 \in 1 .. N - 1 /\ f[k - 1] = q[At(k - 1)]
      BY <1>1, <1>6
    <2>2. CASE k < i
      <3>1. k \in 1 .. N /\ k # i + 1 /\ k - 1 < i
        BY <1>1, <1>2, <2>2
      <3>2. At(k) = k /\ (1 < k => At(k - 1) = k - 1)
        BY <1>3, <2>1, <2>2, <3>1
      <3>3. f[k] = q[k] /\ backward[q[k]] = back[q[k]]
        BY <1>2, <1>6, <3>1, <3>2
      <3>4. (1 < k => back[q[k]] = q[k - 1]) /\ (k = 1 => back[q[k]] = Null)
        BY <1>1, <3>1
      <3>. QED  BY <2>1, <3>2, <3>3, <3>4
    <2>3. CASE k = i
      <3>1. i <= k /\ i < N /\ i \in 1 .. N /\ k - 1 < i
        BY <1>1, <1>2, <2>3
      <3>2. At(k) = i + 1 /\ (1 < k => At(k - 1) = i - 1)
        BY <1>3, <2>1, <2>3, <3>1
      <3>3. f[k] = q[i + 1] /\ backward[f[k]] = back[q[i]]
        BY <1>2, <1>6, <3>1, <3>2
      <3>4. (1 < i => back[q[i]] = q[i - 1]) /\ (i = 1 => back[q[i]] = Null)
        BY <1>1, <3>1
      <3>. QED  BY <2>1, <2>3, <3>2, <3>3, <3>4
    <2>4. CASE i < k
      <3>. DEFINE a == k + 1
      <3>1. a \in 1 .. N /\ a # i + 1 /\ 1 < a /\ a - 1 = k /\ 1 < k /\ k # 1 /\ i <= k - 1 /\ i <= k
        BY <1>1, <1>2, <2>4
      <3>2. At(k) = a /\ At(k - 1) = k
        BY <1>3, <2>1, <3>1
      <3>. HIDE DEF a
      <3>3. f[k] = q[a] /\ backward[q[a]] = back[q[a]] /\ back[q[a]] = q[a - 1]
        BY <1>1, <1>2, <1>6, <3>1, <3>2
      <3>. QED  BY <2>1, <3>1, <3>2, <3>3
    <2>. QED  BY <1>1, <1>2, <2>2, <2>3, <2>4
  <1>. HIDE DEF Y
  <1>11. Linked(f, N - 1, Y, onward, backward)
    <2>. DEFINE M == N - 1
    <2>1. M \in Nat /\ Y \subseteq Number
      BY <1>1, <1>2 DEF M, Y
    <2>. HIDE DEF M
    <2>2. /\ Y \subseteq Number /\ M \in Nat /\ f \in [1 .. M -> Y]
          /\ \A k, m \in 1 .. M : f[k] = f[m] => k = m
          /\ \A y \in Y : \E k \in 1 .. M : f[k] = y
          /\ \A k \in 1 .. M : /\ k < M => onward[f[k]] = f[k + 1]
                               /\ k = M => onward[f[k]] = Null
                               /\ 1 < k => backward[f[k]] = f[k - 1]
                               /\ k = 1 => backward[f[k]] = Null
      BY <1>6, <1>7, <1>8, <1>9, <1>10, <2>1, Zenon DEF M
    <2>3. Linked(f, M, Y, onward, backward)
      BY <2>2, Zenon DEF Linked
    <2>. QED  BY <2>3 DEF M
  <1>. QED  BY <1>11 DEF Y

\* The links exchange their directions.
LEMMA TurnedRound ==
  ASSUME NEW X, NEW q, NEW N, NEW forth, NEW back, Linked(q, N, X, forth, back)
  PROVE  \E f : Linked(f, N, X, back, forth) /\ \A k \in 1 .. N : f[k] = q[N + 1 - k]
  <1>. DEFINE f == [k \in 1 .. N |-> q[N + 1 - k]]
  <1>1. /\ N \in Nat /\ X \subseteq Number
        /\ \A k \in 1 .. N : q[k] \in X
        /\ \A k, m \in 1 .. N : q[k] = q[m] => k = m
        /\ \A x \in X : \E k \in 1 .. N : q[k] = x
        /\ \A k \in 1 .. N : /\ k < N => forth[q[k]] = q[k + 1]
                             /\ k = N => forth[q[k]] = Null
                             /\ 1 < k => back[q[k]] = q[k - 1]
                             /\ k = 1 => back[q[k]] = Null
    BY DEF Linked
  <1>2. \A k \in 1 .. N : /\ N + 1 - k \in 1 .. N /\ N + 1 - (N + 1 - k) = k
                          /\ k < N => 1 < N + 1 - k /\ N + 1 - (k + 1) = (N + 1 - k) - 1
                          /\ k = N => N + 1 - k = 1
                          /\ 1 < k => N + 1 - k < N /\ N + 1 - (k - 1) = (N + 1 - k) + 1
                          /\ k = 1 => N + 1 - k = N
    BY <1>1
  <1>3. f \in [1 .. N -> X] /\ \A k \in 1 .. N : f[k] = q[N + 1 - k]
    BY <1>1, <1>2
  <1>. HIDE DEF f
  <1>4. ASSUME NEW k \in 1 .. N, NEW m \in 1 .. N, f[k] = f[m] PROVE k = m
    <2>. DEFINE a == N + 1 - k
                b == N + 1 - m
    <2>1. a \in 1 .. N /\ b \in 1 .. N /\ f[k] = q[a] /\ f[m] = q[b] /\ (a = b => k = m)
      BY <1>1, <1>2, <1>3
    <2>. HIDE DEF a, b
    <2>2. q[a] = q[b]
      BY <1>4, <2>1
    <2>3. a = b
      BY <1>1, <2>1, <2>2, Zenon
    <2>. QED  BY <2>1, <2>3
  <1>5. ASSUME NEW x \in X PROVE \E k \in 1 .. N : f[k] = x
    <2>1. PICK k \in 1 .. N : q[k] = x
      BY <1>1
    <2>2. N + 1 - k \in 1 .. N /\ f[N + 1 - k] = x
      BY <1>2, <1>3, <2>1
    <2>. QED  BY <2>2
  <1>6. ASSUME NEW k \in 1 .. N
        PROVE  /\ k < N => back[f[k]] = f[k + 1]
               /\ k = N => back[f[k]] = Null
               /\ 1 < k => forth[f[k]] = f[k - 1]
               /\ k = 1 => forth[f[k]] = Null
    <2>. DEFINE a == N + 1 - k
    <2>1. /\ a \in 1 .. N /\ f[k] = q[a]
          /\ k < N => 1 < a /\ f[k + 1] = q[a - 1]
          /\ k = N => a = 1
          /\ 1 < k => a < N /\ f[k - 1] = q[a + 1]
          /\ k = 1 => a = N
      <3>1. (k < N => k + 1 \in 1 .. N) /\ (1 < k => k - 1 \in 1 .. N)
        BY <1>1
      <3>2. a \in 1 .. N /\ f[k] = q[a]
        BY <1>2, <1>3
      <3>3. k < N => 1 < a /\ f[k + 1] = q[a - 1]
        <4>1. k < N => 1 < a /\ N + 1 - (k + 1) = a - 1
          BY <1>2
        <4>2. k < N => f[k + 1] = q[N + 1 - (k + 1)]
          BY <1>3, <3>1
        <4>. QED  BY <4>1, <4>2
      <3>4. 1 < k => a < N /\ f[k - 1] = q[a + 1]
        <4>1. 1 < k => a < N /\ N + 1 - (k - 1) = a + 1
          BY <1>2
        <4>2. 1 < k => f[k - 1] = q[N + 1 - (k - 1)]
          BY <1>3, <3>1
        <4>. QED  BY <4>1, <4>2
      <3>5. (k = N => a = 1) /\ (k = 1 => a = N)
        BY <1>2
      <3>. QED  BY <3>2, <3>3, <3>4, <3>5
    <2>. HIDE DEF a
    <2>. QED  BY <1>1, <2>1
  <1>7. Linked(f, N, X, back, forth)
    BY <1>1, <1>3, <1>4, <1>5, <1>6, Zenon DEF Linked
  <1>. QED  BY <1>3, <1>7

-----------------------------------------------------------------------------

\* What stands in q from i on backwards, and from i on to N.
Backwards(q, i) == [k \in 1 .. i |-> q[i + 1 - k]]
Onwards(q, i, N) == [k \in 1 .. N + 1 - i |-> q[i - 1 + k]]
Behind(q, i, N) == [k \in 1 .. N - i |-> q[i + k]]

LEMMA FollowedBothWays ==
  ASSUME NEW X, NEW q, NEW N, NEW forth, NEW back, Linked(q, N, X, forth, back), NEW i \in 1 .. N
  PROVE  /\ Follow(back, q[i]) = Backwards(q, i)
         /\ Follow(forth, forth[q[i]]) = Behind(q, i, N)
         /\ Follow(forth, q[i]) = Onwards(q, i, N)
  <1>1. /\ N \in Nat /\ i \in Int /\ 1 <= i /\ i <= N
        /\ \A k \in 1 .. N : q[k] \in Number
        /\ \A k \in 1 .. N : /\ k < N => forth[q[k]] = q[k + 1]
                             /\ k = N => forth[q[k]] = Null
                             /\ 1 < k => back[q[k]] = q[k - 1]
                             /\ k = 1 => back[q[k]] = Null
    BY DEF Linked
  <1>2. N <= Cardinality(Number)
    BY LinkedCounts
  <1>3. \A m \in 0 .. N : m \in Nat /\ m <= Cardinality(Number)
    BY <1>1, <1>2, NumberTyped
  <1>4. Follow(back, q[i]) = [k \in 1 .. i |-> q[i + 1 - k]]
    <2>. DEFINE c == [k \in 1 .. i |-> q[i + 1 - k]]
    <2>1. /\ i \in 0 .. N /\ i # 0 /\ 1 \in 1 .. i /\ i + 1 - 1 = i
          /\ \A k \in 1 .. i : /\ i + 1 - k \in 1 .. N
                               /\ k < i => k + 1 \in 1 .. i /\ 1 < i + 1 - k /\ i + 1 - (k + 1) = (i + 1 - k) - 1
                               /\ ~ (k < i) => i + 1 - k = 1
      BY <1>1
    <2>2. c \in [1 .. i -> Number] /\ \A k \in 1 .. i : c[k] = q[i + 1 - k]
      BY <1>1, <2>1
    <2>. HIDE DEF c
    <2>3. q[i] = IF i = 0 THEN Null ELSE c[1]
      BY <2>1, <2>2
    <2>4. ASSUME NEW k \in 1 .. i PROVE back[c[k]] = IF k < i THEN c[k + 1] ELSE Null
      <3>. DEFINE a == i + 1 - k
      <3>1. /\ a \in 1 .. N /\ c[k] = q[a]
            /\ k < i => 1 < a /\ c[k + 1] = q[a - 1]
            /\ ~ (k < i) => a = 1
        BY <2>1, <2>2
      <3>. HIDE DEF a
      <3>. QED  BY <1>1, <3>1
    <2>5. Chain(c, i, back, q[i])
      BY <1>3, <2>1, <2>2, <2>3, <2>4 DEF Chain
    <2>6. Follow(back, q[i]) = c
      BY <2>5, FollowIs, Zenon
    <2>. QED  BY <2>6 DEF c
  <1>5. Follow(forth, forth[q[i]]) = [k \in 1 .. N - i |-> q[i + k]]
    <2>. DEFINE m == N - i
                c == [k \in 1 .. m |-> q[i + k]]
    <2>1. /\ m \in 0 .. N /\ (m = 0 <=> i = N) /\ (m # 0 => 1 \in 1 .. m /\ i < N)
          /\ \A k \in 1 .. m : /\ i + k \in 1 .. N
                               /\ k < m => k + 1 \in 1 .. m /\ i + k < N /\ i + (k + 1) = i + k + 1
                               /\ ~ (k < m) => i + k = N
      BY <1>1
    <2>. HIDE DEF m
    <2>2. c \in [1 .. m -> Number] /\ \A k \in 1 .. m : c[k] = q[i + k]
      BY <1>1, <2>1
    <2>. HIDE DEF c
    <2>3. forth[q[i]] = IF m = 0 THEN Null ELSE c[1]
      BY <1>1, <2>1, <2>2
    <2>4. ASSUME NEW k \in 1 .. m PROVE forth[c[k]] = IF k < m THEN c[k + 1] ELSE Null
      <3>. DEFINE a == i + k
      <3>1. /\ a \in 1 .. N /\ c[k] = q[a]
            /\ k < m => a < N /\ c[k + 1] = q[a + 1]
            /\ ~ (k < m) => a = N
        BY <2>1, <2>2
      <3>. HIDE DEF a
      <3>. QED  BY <1>1, <3>1
    <2>5. Chain(c, m, forth, forth[q[i]])
      BY <1>3, <2>1, <2>2, <2>3, <2>4 DEF Chain
    <2>6. Follow(forth, forth[q[i]]) = c
      BY <2>5, FollowIs, Zenon
    <2>. QED  BY <2>6 DEF c, m
  <1>6. Follow(forth, q[i]) = [k \in 1 .. N + 1 - i |-> q[i - 1 + k]]
    <2>. DEFINE m == N + 1 - i
                c == [k \in 1 .. m |-> q[i - 1 + k]]
    <2>1. /\ m \in 0 .. N /\ m # 0 /\ 1 \in 1 .. m /\ i - 1 + 1 = i
          /\ \A k \in 1 .. m : /\ i - 1 + k \in 1 .. N
                               /\ k < m => k + 1 \in 1 .. m /\ i - 1 + k < N /\ i - 1 + (k + 1) = i - 1 + k + 1
                               /\ ~ (k < m) => i - 1 + k = N
      BY <1>1
    <2>. HIDE DEF m
    <2>2. c \in [1 .. m -> Number] /\ \A k \in 1 .. m : c[k] = q[i - 1 + k]
      BY <1>1, <2>1
    <2>. HIDE DEF c
    <2>3. q[i] = IF m = 0 THEN Null ELSE c[1]
      BY <1>1, <2>1, <2>2
    <2>4. ASSUME NEW k \in 1 .. m PROVE forth[c[k]] = IF k < m THEN c[k + 1] ELSE Null
      <3>. DEFINE a == i - 1 + k
      <3>1. /\ a \in 1 .. N /\ c[k] = q[a]
            /\ k < m => a < N /\ c[k + 1] = q[a + 1]
            /\ ~ (k < m) => a = N
        BY <2>1, <2>2
      <3>. HIDE DEF a
      <3>. QED  BY <1>1, <3>1
    <2>5. Chain(c, m, forth, q[i])
      BY <1>3, <2>1, <2>2, <2>3, <2>4 DEF Chain
    <2>6. Follow(forth, q[i]) = c
      BY <2>5, FollowIs, Zenon
    <2>. QED  BY <2>6 DEF c, m
  <1>. QED  BY <1>4, <1>5, <1>6 DEF Backwards, Behind, Onwards

LEMMA FollowNull ==
  ASSUME NEW link
  PROVE  Follow(link, Null) = << >>
  <1>. DEFINE c == [k \in 1 .. 0 |-> Null]
  <1>1. Chain(c, 0, link, Null)
    BY NumberTyped DEF Chain
  <1>2. Follow(link, Null) = c
    BY <1>1, FollowIs, Zenon
  <1>3. c = << >>
    OBVIOUS
  <1>. QED  BY <1>2, <1>3

LEMMA MembersAre ==
  ASSUME DlOK
  PROVE  Len(MembersFrom(list)) = Cardinality(spec) /\ Range(MembersFrom(list)) = spec
  <1>1. PICK q, N : Linked(q, N, spec, next, previous)
    BY DEF DlOK
  <1>2. spec \subseteq Number
    BY <1>1 DEF Linked
  <1>3. /\ N \in Nat
        /\ \A k \in 1 .. N : q[k] \in spec
        /\ \A k, m \in 1 .. N : q[k] = q[m] => k = m
        /\ \A x \in spec : \E k \in 1 .. N : q[k] = x
    BY <1>1 DEF Linked
  <1>4. CASE list = Null
    <2>1. spec = {}
      BY <1>2, <1>4, NumberTyped DEF DlOK
    <2>2. MembersFrom(list) = << >> \o << >>
      BY <1>4, FollowNull DEF MembersFrom
    <2>3. MembersFrom(list) = << >>
      BY <2>2
    <2>. QED  BY <2>1, <2>3, FS_EmptySet DEF Range
  <1>5. CASE list # Null
    <2>1. list \in spec
      BY <1>5 DEF DlOK
    <2>2. PICK i \in 1 .. N : q[i] = list
      BY <1>3, <2>1
    <2>. DEFINE m == N - i
                b == Backwards(q, i)
                f == Behind(q, i, N)
                s == b \o f
                At(k) == IF k <= i THEN i + 1 - k ELSE k
    <2>3. MembersFrom(list) = s
      <3>1. Follow(previous, q[i]) = b /\ Follow(next, next[q[i]]) = f
        <4>. HIDE DEF b, f
        <4>1. Follow(previous, q[i]) = Backwards(q, i) /\ Follow(next, next[q[i]]) = Behind(q, i, N)
          BY <1>1, FollowedBothWays
        <4>. QED  BY <4>1 DEF b, f
      <3>. HIDE DEF b, f
      <3>. QED  BY <1>5, <2>2, <3>1, Zenon DEF MembersFrom
    <2>4. i \in Nat /\ m \in Nat /\ i + m = N /\ i \in 1 .. N
      BY <1>3
    <2>. HIDE DEF m
    <2>5. /\ b \in Seq(Number) /\ Len(b) = i /\ \A k \in 1 .. i : b[k] = q[i + 1 - k]
          /\ f \in Seq(Number) /\ Len(f) = m /\ \A k \in 1 .. m : f[k] = q[i + k]
      <3>1. b \in [1 .. i -> Number] /\ f \in [1 .. m -> Number]
        BY <1>2, <1>3, <2>4 DEF Backwards, Behind, m
      <3>2. \A k \in 1 .. i : b[k] = q[i + 1 - k]
        BY DEF Backwards
      <3>3. \A k \in 1 .. m : f[k] = q[i + k]
        BY DEF Behind, m
      <3>. HIDE DEF b, f
      <3>. QED  BY <2>4, <3>1, <3>2, <3>3, FunctionIsSeq
    <2>. HIDE DEF b, f
    <2>6. /\ s \in Seq(Number) /\ Len(s) = N
          /\ \A k \in 1 .. N : At(k) \in 1 .. N /\ s[k] = q[At(k)]
      <3>1. s \in Seq(Number) /\ Len(s) = N
        BY <2>4, <2>5, ConcatProperties
      <3>2. ASSUME NEW k \in 1 .. N PROVE At(k) \in 1 .. N /\ s[k] = q[At(k)]
        <4>1. CASE k <= i
          <5>1. k \in 1 .. i /\ At(k) = i + 1 - k /\ At(k) \in 1 .. N
            BY <2>4, <4>1
          <5>2. s[k] = b[k]
            BY <2>5, <5>1
          <5>. QED  BY <2>5, <5>1, <5>2
        <4>2. CASE ~ (k <= i)
          <5>1. k - i \in 1 .. m /\ At(k) = k /\ i + (k - i) = k /\ k > i
            BY <2>4, <4>2
          <5>2. s[k] = f[k - i]
            <6>1. k \in 1 .. Len(b) + Len(f) /\ Len(b) = i /\ ~ (k <= i)
              BY <2>4, <2>5, <4>2
            <6>2. (b \o f)[k] = IF k <= Len(b) THEN b[k] ELSE f[k - Len(b)]
              BY <2>5, <6>1, ConcatProperties
            <6>. QED  BY <6>1, <6>2
          <5>. QED  BY <2>5, <5>1, <5>2
        <4>. QED  BY <4>1, <4>2
      <3>. QED  BY <3>1, <3>2
    <2>. HIDE DEF s
    <2>7. /\ \A k, l \in 1 .. N : At(k) = At(l) => k = l
          /\ \A l \in 1 .. N : At(l) \in 1 .. N /\ At(At(l)) = l
      BY <2>4
    <2>. HIDE DEF At
    <2>8. Holds(s, spec)
      <3>1. ASSUME NEW k \in 1 .. N, NEW l \in 1 .. N, s[k] = s[l] PROVE k = l
        <4>1. q[At(k)] = q[At(l)] /\ At(k) \in 1 .. N /\ At(l) \in 1 .. N
          BY <2>6, <3>1
        <4>2. At(k) = At(l)
          BY <1>3, <4>1
        <4>. QED  BY <2>7, <4>2
      <3>2. ASSUME NEW x \in spec PROVE \E k \in 1 .. N : s[k] = x
        <4>1. PICK k \in 1 .. N : q[k] = x
          BY <1>3
        <4>. QED  BY <2>6, <2>7, <4>1
      <3>3. \A k \in 1 .. N : s[k] \in spec
        BY <1>3, <2>6
      <3>. QED  BY <2>6, <3>1, <3>2, <3>3 DEF Holds
    <2>9. Number \subseteq Nat
      BY NumberTyped
    <2>10. s \in Seq(Nat) /\ spec \in SUBSET Nat
      BY <1>2, <2>6, <2>9, SeqMonotonic
    <2>. QED  BY <2>3, <2>8, <2>10, HoldsCounts
  <1>. QED  BY <1>4, <1>5

\* DlListLinked follows.
LEMMA LinkedByOK ==
  ASSUME DlOK
  PROVE  DlListLinked
  <1>1. PICK q, N : Linked(q, N, spec, next, previous)
    BY DEF DlOK
  <1>2. spec \subseteq Number /\ Null \notin Number
    BY <1>1, NumberTyped DEF Linked
  <1>3. /\ N \in Nat
        /\ \A k \in 1 .. N : q[k] \in spec
        /\ \A x \in spec : \E k \in 1 .. N : q[k] = x
        /\ \A k \in 1 .. N : /\ k < N => next[q[k]] = q[k + 1]
                             /\ k = N => next[q[k]] = Null
                             /\ 1 < k => previous[q[k]] = q[k - 1]
                             /\ k = 1 => previous[q[k]] = Null
    BY <1>1 DEF Linked
  <1>4. ASSUME NEW n \in spec
        PROVE  /\ next[n] # Null => next[n] \in spec /\ previous[next[n]] = n
               /\ previous[n] # Null => previous[n] \in spec /\ next[previous[n]] = n
    <2>1. PICK k \in 1 .. N : q[k] = n
      BY <1>3
    <2>2. ASSUME next[n] # Null PROVE next[n] \in spec /\ previous[next[n]] = n
      <3>1. k < N
        BY <1>3, <2>1, <2>2
      <3>2. k + 1 \in 1 .. N /\ 1 < k + 1 /\ k + 1 - 1 = k
        BY <1>3, <3>1
      <3>3. next[n] = q[k + 1] /\ previous[q[k + 1]] = q[k + 1 - 1]
        BY <1>3, <2>1, <3>1, <3>2
      <3>. QED  BY <1>3, <2>1, <3>2, <3>3
    <2>3. ASSUME previous[n] # Null PROVE previous[n] \in spec /\ next[previous[n]] = n
      <3>1. 1 < k
        BY <1>3, <2>1, <2>3
      <3>2. k - 1 \in 1 .. N /\ k - 1 < N /\ k - 1 + 1 = k
        BY <1>3, <3>1
      <3>3. previous[n] = q[k - 1] /\ next[q[k - 1]] = q[k - 1 + 1]
        BY <1>3, <2>1, <3>1, <3>2
      <3>. QED  BY <1>3, <2>1, <3>2, <3>3
    <2>. QED  BY <2>2, <2>3
  <1>5. (list = Null) = (spec = {})
    BY <1>2 DEF DlOK
  <1>. QED  BY <1>4, <1>5, MembersAre DEF DlListLinked

-----------------------------------------------------------------------------
(* Each operation keeps a list a list.                                     *)

LEMMA PlaceOf ==
  ASSUME DlOK, NEW q, NEW N, Linked(q, N, spec, next, previous)
  PROVE  /\ N \in Nat /\ spec \subseteq Number /\ Null \notin Number
         /\ \A k \in 1 .. N : q[k] \in spec /\ q[k] # Null
         /\ \A k, m \in 1 .. N : q[k] = q[m] => k = m
         /\ \A k \in 1 .. N : /\ k < N => next[q[k]] = q[k + 1]
                              /\ k = N => next[q[k]] = Null
                              /\ 1 < k => previous[q[k]] = q[k - 1]
                              /\ k = 1 => previous[q[k]] = Null
         /\ list = Null => N = 0 /\ spec = {}
         /\ list # Null => list \in spec /\ \E i \in 1 .. N : q[i] = list
         /\ next \in Links /\ previous \in Links
  <1>1. /\ N \in Nat /\ spec \subseteq Number
        /\ \A k \in 1 .. N : q[k] \in spec
        /\ \A k, m \in 1 .. N : q[k] = q[m] => k = m
        /\ \A x \in spec : \E k \in 1 .. N : q[k] = x
        /\ \A k \in 1 .. N : /\ k < N => next[q[k]] = q[k + 1]
                             /\ k = N => next[q[k]] = Null
                             /\ 1 < k => previous[q[k]] = q[k - 1]
                             /\ k = 1 => previous[q[k]] = Null
    BY DEF Linked
  <1>2. Null \notin Number
    BY NumberTyped
  <1>3. IF spec = {} THEN list = Null ELSE list \in spec
    BY DEF DlOK
  <1>4. list = Null => spec = {}
    BY <1>1, <1>2, <1>3
  <1>5. spec = {} => N = 0
    <2>1. spec = {} => 1 \notin 1 .. N
      BY <1>1
    <2>. QED  BY <1>1, <2>1
  <1>6. list # Null => list \in spec /\ \E i \in 1 .. N : q[i] = list
    BY <1>1, <1>3
  <1>7. next \in Links /\ previous \in Links
    BY DEF DlOK
  <1>. QED  BY <1>1, <1>2, <1>4, <1>5, <1>6, <1>7

LEMMA AddStep ==
  ASSUME DlOK, NEW n \in Number, dllist_add(n)
  PROVE  DlOK'
  <1>1. PICK q, N : Linked(q, N, spec, next, previous)
    BY DEF DlOK
  <1>2. /\ N \in Nat /\ Null \notin Number /\ spec \subseteq Number
        /\ \A k \in 1 .. N : q[k] \in spec /\ q[k] # Null
        /\ \A k, m \in 1 .. N : q[k] = q[m] => k = m
        /\ \A k \in 1 .. N : /\ 1 < k => previous[q[k]] = q[k - 1]
                             /\ k = 1 => previous[q[k]] = Null
        /\ list = Null => N = 0
        /\ list # Null => list \in spec /\ \E i \in 1 .. N : q[i] = list
        /\ next \in Links /\ previous \in Links
    BY <1>1, PlaceOf
  <1>3. uses = "dllist" /\ uses' = uses /\ n \notin spec /\ spec' = spec \cup {n}
    BY DEF dllist_add, Put, othersFrame, DlOK
  <1>4. CASE list = Null
    <2>1. list' = n /\ next' = [next EXCEPT ![n] = Null] /\ previous' = [previous EXCEPT ![n] = Null]
      BY <1>4 DEF dllist_add
    <2>2. next' \in Links /\ previous' \in Links /\ next'[n] = Null /\ previous'[n] = Null
      BY <1>2, <2>1 DEF Links
    <2>3. Joins(q, N, n, 1, next, previous, next', previous')
      BY <1>2, <1>4, <2>2 DEF Joins
    <2>4. PICK f : Linked(f, N + 1, spec \cup {n}, next', previous')
      BY <1>1, <1>3, <2>3, Joined
    <2>. QED  BY <1>3, <2>1, <2>2, <2>4 DEF DlOK
  <1>5. CASE list # Null
    <2>1. PICK i \in 1 .. N : q[i] = list
      BY <1>2, <1>5
    <2>2. /\ next' = SetLink([next EXCEPT ![n] = list], previous[list], n)
          /\ previous' = [previous EXCEPT ![n] = previous[list], ![list] = n]
          /\ list' = list
      BY <1>5 DEF dllist_add
    <2>3. list \in spec /\ list \in Number /\ list # n /\ (previous[list] # Null => previous[list] \in Number)
      BY <1>2, <1>3, <1>5 DEF Links
    <2>4. /\ next' \in Links /\ previous' \in Links
          /\ previous'[n] = previous[list] /\ previous'[list] = n
          /\ \A x \in Number : x # n /\ x # list => previous'[x] = previous[x]
      BY <1>2, <2>2, <2>3 DEF Links, SetLink
    <2>5. CASE i = 1
      <3>1. previous[list] = Null
        BY <1>2, <2>1, <2>5
      <3>2. next' = [next EXCEPT ![n] = list]
        BY <2>2, <3>1 DEF SetLink
      <3>3. next'[n] = list /\ \A x \in Number : x # n => next'[x] = next[x]
        BY <1>2, <3>2 DEF Links
      <3>4. \A k \in 1 .. N : q[k] \in Number /\ q[k] # n /\ (k # i => q[k] # list)
        BY <1>2, <1>3, <2>1
      <3>5. 1 \in 1 .. N + 1 /\ 1 <= N /\ 1 # N + 1 /\ q[1] = list /\ ~ (1 < 1)
        BY <1>2, <2>1, <2>5
      <3>6. Joins(q, N, n, 1, next, previous, next', previous')
        BY <2>4, <2>5, <3>1, <3>3, <3>4, <3>5 DEF Joins
      <3>7. PICK f : Linked(f, N + 1, spec \cup {n}, next', previous')
        BY <1>1, <1>3, <3>6, Joined
      <3>. QED  BY <1>3, <2>2, <2>3, <2>4, <3>7 DEF DlOK
    <2>6. CASE i # 1
      <3>1. 1 < i /\ i - 1 \in 1 .. N /\ i \in 1 .. N + 1 /\ i # N + 1 /\ i <= N
        BY <1>2, <2>6
      <3>2. previous[list] = q[i - 1] /\ q[i - 1] # Null /\ q[i - 1] \in Number /\ q[i - 1] # n
        BY <1>2, <1>3, <2>1, <3>1
      <3>. DEFINE x == q[i - 1]
      <3>3. next' = [[next EXCEPT ![n] = list] EXCEPT ![x] = n]
        BY <2>2, <3>2 DEF SetLink
      <3>. HIDE DEF x
      <3>4. next'[n] = list /\ next'[x] = n /\ \A y \in Number : y # n /\ y # x => next'[y] = next[y]
        BY <1>2, <3>2, <3>3 DEF Links, x
      <3>5. \A k \in 1 .. N : q[k] \in Number /\ q[k] # n /\ (k # i => q[k] # list)
        BY <1>2, <1>3, <2>1
      <3>6. \A k \in 1 .. N : k # i - 1 => q[k] # x
        BY <1>2, <3>1 DEF x
      <3>7. Joins(q, N, n, i, next, previous, next', previous')
        <4>1. i <= N => next'[n] = q[i] /\ previous'[q[i]] = n
          BY <2>1, <2>4, <3>4
        <4>2. 1 < i => previous'[n] = q[i - 1] /\ next'[q[i - 1]] = n
          BY <2>4, <3>2, <3>4 DEF x
        <4>3. \A k \in 1 .. N : /\ k # i - 1 => next'[q[k]] = next[q[k]]
                                /\ k # i => previous'[q[k]] = previous[q[k]]
          BY <2>4, <3>4, <3>5, <3>6
        <4>. QED  BY <2>6, <3>1, <4>1, <4>2, <4>3 DEF Joins
      <3>8. PICK f : Linked(f, N + 1, spec \cup {n}, next', previous')
        BY <1>1, <1>3, <3>7, Joined
      <3>. QED  BY <1>3, <2>2, <2>3, <2>4, <3>8 DEF DlOK
    <2>. QED  BY <2>5, <2>6
  <1>. QED  BY <1>4, <1>5

LEMMA AddAfterStep ==
  ASSUME DlOK, NEW n \in Number, dllist_add_after(n)
  PROVE  DlOK'
  <1>1. PICK q, N : Linked(q, N, spec, next, previous)
    BY DEF DlOK
  <1>2. /\ N \in Nat /\ Null \notin Number /\ spec \subseteq Number
        /\ \A k \in 1 .. N : q[k] \in spec /\ q[k] # Null
        /\ \A k, m \in 1 .. N : q[k] = q[m] => k = m
        /\ \A k \in 1 .. N : /\ k < N => next[q[k]] = q[k + 1]
                             /\ k = N => next[q[k]] = Null
        /\ list = Null => N = 0
        /\ list # Null => list \in spec /\ \E i \in 1 .. N : q[i] = list
        /\ next \in Links /\ previous \in Links
    BY <1>1, PlaceOf
  <1>3. uses = "dllist" /\ uses' = uses /\ n \notin spec /\ spec' = spec \cup {n}
    BY DEF dllist_add_after, Put, othersFrame, DlOK
  <1>4. CASE list = Null
    <2>1. list' = n /\ next' = [next EXCEPT ![n] = Null] /\ previous' = [previous EXCEPT ![n] = Null]
      BY <1>4 DEF dllist_add_after
    <2>2. next' \in Links /\ previous' \in Links /\ next'[n] = Null /\ previous'[n] = Null
      BY <1>2, <2>1 DEF Links
    <2>3. Joins(q, N, n, 1, next, previous, next', previous')
      BY <1>2, <1>4, <2>2 DEF Joins
    <2>4. PICK f : Linked(f, N + 1, spec \cup {n}, next', previous')
      BY <1>1, <1>3, <2>3, Joined
    <2>. QED  BY <1>3, <2>1, <2>2, <2>4 DEF DlOK
  <1>5. CASE list # Null
    <2>1. PICK i \in 1 .. N : q[i] = list
      BY <1>2, <1>5
    <2>2. /\ next' = [next EXCEPT ![n] = next[list], ![list] = n]
          /\ previous' = SetLink([previous EXCEPT ![n] = list], next[list], n)
          /\ list' = list
      BY <1>5 DEF dllist_add_after
    <2>3. list \in spec /\ list \in Number /\ list # n /\ (next[list] # Null => next[list] \in Number)
      BY <1>2, <1>3, <1>5 DEF Links
    <2>4. /\ next' \in Links /\ previous' \in Links
          /\ next'[n] = next[list] /\ next'[list] = n
          /\ \A x \in Number : x # n /\ x # list => next'[x] = next[x]
      BY <1>2, <2>2, <2>3 DEF Links, SetLink
    <2>5. \A k \in 1 .. N : q[k] \in Number /\ q[k] # n /\ (k # i => q[k] # list)
      BY <1>2, <1>3, <2>1
    <2>. DEFINE j == i + 1
    <2>6. j \in 1 .. N + 1 /\ 1 < j /\ j # 1 /\ j - 1 = i /\ (j <= N <=> i < N) /\ (j = N + 1 <=> i = N)
      BY <1>2
    <2>7. CASE i = N
      <3>1. next[list] = Null
        BY <1>2, <2>1, <2>7
      <3>2. previous' = [previous EXCEPT ![n] = list]
        BY <2>2, <3>1 DEF SetLink
      <3>3. previous'[n] = list /\ \A x \in Number : x # n => previous'[x] = previous[x]
        BY <1>2, <3>2 DEF Links
      <3>4. ~ (j <= N) /\ j = N + 1
        BY <1>2, <2>7
      <3>. HIDE DEF j
      <3>5. Joins(q, N, n, j, next, previous, next', previous')
        BY <2>1, <2>4, <2>5, <2>6, <3>1, <3>3, <3>4 DEF Joins
      <3>6. PICK f : Linked(f, N + 1, spec \cup {n}, next', previous')
        BY <1>1, <1>3, <3>5, Joined
      <3>. QED  BY <1>3, <2>2, <2>3, <2>4, <3>6 DEF DlOK
    <2>8. CASE i # N
      <3>1. i < N /\ j \in 1 .. N /\ j <= N /\ j # N + 1
        BY <1>2, <2>8
      <3>2. next[list] = q[j] /\ q[j] # Null /\ q[j] \in Number /\ q[j] # n
        BY <1>2, <1>3, <2>1, <3>1
      <3>. HIDE DEF j
      <3>. DEFINE x == q[j]
      <3>3. previous' = [[previous EXCEPT ![n] = list] EXCEPT ![x] = n]
        BY <2>2, <3>2 DEF SetLink
      <3>. HIDE DEF x
      <3>4. /\ previous'[n] = list /\ previous'[x] = n
            /\ \A y \in Number : y # n /\ y # x => previous'[y] = previous[y]
        BY <1>2, <3>2, <3>3 DEF Links, x
      <3>5. \A k \in 1 .. N : k # j => q[k] # x
        BY <1>2, <3>1 DEF x
      <3>6. Joins(q, N, n, j, next, previous, next', previous')
        <4>1. next'[n] = q[j] /\ previous'[q[j]] = n
          BY <2>4, <3>2, <3>4 DEF x
        <4>2. previous'[n] = q[j - 1] /\ next'[q[j - 1]] = n
          BY <2>1, <2>4, <2>6, <3>4
        <4>3. \A k \in 1 .. N : /\ k # j - 1 => next'[q[k]] = next[q[k]]
                                /\ k # j => previous'[q[k]] = previous[q[k]]
          BY <2>4, <2>5, <2>6, <3>4, <3>5
        <4>. QED  BY <2>6, <3>1, <4>1, <4>2, <4>3 DEF Joins
      <3>7. PICK f : Linked(f, N + 1, spec \cup {n}, next', previous')
        BY <1>1, <1>3, <3>6, Joined
      <3>. QED  BY <1>3, <2>2, <2>3, <2>4, <3>7 DEF DlOK
    <2>. QED  BY <2>7, <2>8
  <1>. QED  BY <1>4, <1>5

LEMMA DeleteStep ==
  ASSUME DlOK, NEW n \in Number, dllist_delete_if_member(n)
  PROVE  DlOK'
  <1>1. PICK q, N : Linked(q, N, spec, next, previous)
    BY DEF DlOK
  <1>2. /\ N \in Nat /\ Null \notin Number /\ spec \subseteq Number
        /\ \A k \in 1 .. N : q[k] \in spec /\ q[k] # Null
        /\ \A k, m \in 1 .. N : q[k] = q[m] => k = m
        /\ \A k \in 1 .. N : /\ k < N => next[q[k]] = q[k + 1]
                             /\ k = N => next[q[k]] = Null
                             /\ 1 < k => previous[q[k]] = q[k - 1]
                             /\ k = 1 => previous[q[k]] = Null
        /\ next \in Links /\ previous \in Links
    BY <1>1, PlaceOf
  <1>3. \A x \in spec : \E k \in 1 .. N : q[k] = x
    BY <1>1 DEF Linked
  <1>4. Range(MembersFrom(list)) = spec
    BY MembersAre
  <1>5. uses = "dllist" /\ uses' = uses
    BY DEF dllist_delete_if_member, othersFrame, DlOK
  <1>6. CASE n \notin spec
    <2>1. spec' = spec /\ list' = list /\ next' = next /\ previous' = previous
      BY <1>4, <1>6 DEF dllist_delete_if_member, specVars, listVars
    <2>. QED  BY <1>5, <2>1 DEF DlOK
  <1>7. CASE n \in spec
    <2>1. /\ previous' = SetLink(previous, next[n], previous[n])
          /\ next' = SetLink(next, previous[n], next[n])
          /\ list' = AfterDelete(n)
          /\ spec' = spec \ {n}
      BY <1>4, <1>7 DEF dllist_delete_if_member, Take
    <2>2. PICK i \in 1 .. N : q[i] = n
      BY <1>3, <1>7
    <2>3. /\ 1 < i => previous[n] = q[i - 1] /\ i - 1 \in 1 .. N /\ q[i - 1] \in spec \ {n}
          /\ i = 1 => previous[n] = Null
          /\ i < N => next[n] = q[i + 1] /\ i + 1 \in 1 .. N /\ q[i + 1] \in spec \ {n}
          /\ i = N => next[n] = Null
      <3>1. (1 < i => i - 1 \in 1 .. N /\ i - 1 # i) /\ (i < N => i + 1 \in 1 .. N /\ i + 1 # i)
        BY <1>2
      <3>. QED  BY <1>2, <2>2, <3>1
    <2>4. next[n] \in Number \cup {Null} /\ previous[n] \in Number \cup {Null}
      BY <1>2 DEF Links
    <2>5. /\ next' \in Links /\ previous' \in Links
          /\ previous[n] # Null => next'[previous[n]] = next[n]
          /\ next[n] # Null => previous'[next[n]] = previous[n]
          /\ \A x \in Number : x # previous[n] => next'[x] = next[x]
          /\ \A x \in Number : x # next[n] => previous'[x] = previous[x]
      BY <1>2, <2>1, <2>4 DEF Links, SetLink
    <2>6. Leaves(q, N, i, next, previous, next', previous')
      <3>1. 1 < i => next'[q[i - 1]] = next[q[i]]
        BY <1>2, <2>2, <2>3, <2>5
      <3>2. i < N => previous'[q[i + 1]] = previous[q[i]]
        BY <1>2, <2>2, <2>3, <2>5
      <3>3. ASSUME NEW k \in 1 .. N, k # i - 1 PROVE next'[q[k]] = next[q[k]]
        <4>1. q[k] \in Number /\ q[k] # Null
          BY <1>2
        <4>2. q[k] # previous[n]
          <5>1. CASE i = 1
            BY <2>3, <4>1, <5>1
          <5>2. CASE i # 1
            <6>1. 1 < i
              BY <1>2, <5>2
            <6>. QED  BY <1>2, <2>3, <3>3, <6>1
          <5>. QED  BY <5>1, <5>2
        <4>. QED  BY <2>5, <4>1, <4>2
      <3>4. ASSUME NEW k \in 1 .. N, k # i + 1 PROVE previous'[q[k]] = previous[q[k]]
        <4>1. q[k] \in Number /\ q[k] # Null
          BY <1>2
        <4>2. q[k] # next[n]
          <5>1. CASE i = N
            BY <2>3, <4>1, <5>1
          <5>2. CASE i # N
            <6>1. i < N
              BY <1>2, <5>2
            <6>. QED  BY <1>2, <2>3, <3>4, <6>1
          <5>. QED  BY <5>1, <5>2
        <4>. QED  BY <2>5, <4>1, <4>2
      <3>. QED  BY <3>1, <3>2, <3>3, <3>4 DEF Leaves
    <2>7. PICK f : Linked(f, N - 1, spec \ {n}, next', previous')
      <3>1. \E f : Linked(f, N - 1, spec \ {q[i]}, next', previous')
        BY <1>1, <2>6, Left
      <3>. QED  BY <2>2, <3>1
    <2>8. IF spec \ {n} = {} THEN list' = Null ELSE list' \in spec \ {n}
      <3>1. IF spec = {} THEN list = Null ELSE list \in spec
        BY DEF DlOK
      <3>2. CASE list # n
        <4>1. list' = list /\ list \in spec \ {n}
          BY <1>7, <2>1, <3>1, <3>2 DEF AfterDelete
        <4>. QED  BY <4>1
      <3>3. CASE list = n /\ 1 < i
        <4>1. previous[n] # Null
          BY <1>2, <2>3, <3>3
        <4>2. list' = previous[n]
          BY <2>1, <3>3, <4>1 DEF AfterDelete
        <4>. QED  BY <2>3, <3>3, <4>2
      <3>4. CASE list = n /\ i = 1
        <4>1. list' = next[n]
          BY <2>1, <2>3, <3>4 DEF AfterDelete
        <4>2. CASE i < N
          BY <2>3, <4>1, <4>2
        <4>3. CASE i = N
          <5>1. \A k \in 1 .. N : k = i
            BY <1>2, <3>4, <4>3
          <5>2. spec \ {n} = {}
            BY <1>3, <2>2, <5>1
          <5>. QED  BY <2>3, <4>1, <4>3, <5>2
        <4>. QED  BY <1>2, <4>2, <4>3
      <3>. QED  BY <1>2, <3>2, <3>3, <3>4
    <2>. QED  BY <1>5, <2>1, <2>5, <2>7, <2>8 DEF DlOK
  <1>. QED  BY <1>6, <1>7

LEMMA SameLinks ==
  ASSUME NEW X, NEW f, NEW N, NEW forth, NEW back, Linked(f, N, X, forth, back),
         NEW onward, NEW backward,
         \A x \in X : onward[x] = forth[x] /\ backward[x] = back[x]
  PROVE  Linked(f, N, X, onward, backward)
  <1>1. \A k \in 1 .. N : f[k] \in X
    BY DEF Linked
  <1>2. \A k \in 1 .. N : onward[f[k]] = forth[f[k]] /\ backward[f[k]] = back[f[k]]
    BY <1>1
  <1>. QED  BY <1>2 DEF Linked

LEMMA ReverseStep ==
  ASSUME DlOK, dllist_reverse
  PROVE  DlOK'
  <1>1. PICK q, N : Linked(q, N, spec, next, previous)
    BY DEF DlOK
  <1>2. Range(MembersFrom(list)) = spec
    BY MembersAre
  <1>3. spec \subseteq Number /\ next \in Links /\ previous \in Links
    BY <1>1, PlaceOf
  <1>4. /\ next' = [n \in Number |-> IF n \in spec THEN previous[n] ELSE next[n]]
        /\ previous' = [n \in Number |-> IF n \in spec THEN next[n] ELSE previous[n]]
        /\ spec' = spec /\ list' = list /\ uses' = uses
    BY <1>2 DEF dllist_reverse, specVars, othersFrame
  <1>5. next' \in Links /\ previous' \in Links
    BY <1>3, <1>4 DEF Links
  <1>6. \A x \in spec : next'[x] = previous[x] /\ previous'[x] = next[x]
    BY <1>3, <1>4
  <1>7. PICK f : Linked(f, N, spec, previous, next)
    BY <1>1, TurnedRound
  <1>8. Linked(f, N, spec, next', previous')
    BY <1>6, <1>7, SameLinks
  <1>. QED  BY <1>4, <1>5, <1>8 DEF DlOK

-----------------------------------------------------------------------------
(* The merge sort.                                                         *)

Ascending(s) == \A x, y \in 1 .. Len(s) : x < y => s[x] < s[y]

\* Each run of n elements ascends.
RunsAscend(s, n) ==
  \A r \in Nat : \A x, y \in 1 .. Len(s) :
    n * r < x /\ x < y /\ y <= n * r + n => s[x] < s[y]

LEMMA StepsAscend ==
  ASSUME NEW s \in Seq(Nat), \A k \in 1 .. Len(s) : k < Len(s) => s[k] < s[k + 1]
  PROVE  Ascending(s)
  <1>1. Len(s) \in Nat /\ \A k \in 1 .. Len(s) : s[k] \in Nat
    BY LenProperties, ElementOfSeq
  <1>2. ASSUME NEW x \in 1 .. Len(s), NEW y \in 1 .. Len(s), x < y PROVE s[x] < s[y]
    <2>. DEFINE T == {z \in 1 .. Len(s) : x < z /\ ~ (s[x] < s[z])}
    <2>1. T = {}
      <3>. SUFFICES ASSUME T # {} PROVE FALSE
        OBVIOUS
      <3>1. T \subseteq Nat
        BY <1>1
      <3>2. PICK z \in T : \A u \in T : z <= u
        BY <3>1, Least
      <3>3. z \in 1 .. Len(s) /\ x < z /\ ~ (s[x] < s[z])
        BY <3>2
      <3>4. z - 1 \in 1 .. Len(s) /\ z - 1 < Len(s) /\ z - 1 + 1 = z /\ ~ (z <= z - 1) /\ (x = z - 1 \/ x < z - 1)
        <4>. DEFINE N == Len(s)
        <4>1. N \in Nat /\ z \in 1 .. N /\ x \in 1 .. N /\ x < z
          BY <1>1, <3>3
        <4>. HIDE DEF N
        <4>2. z - 1 \in 1 .. N /\ z - 1 < N /\ z - 1 + 1 = z /\ ~ (z <= z - 1) /\ (x = z - 1 \/ x < z - 1)
          BY <4>1
        <4>. QED  BY <4>2 DEF N
      <3>5. s[z - 1] < s[z]
        BY <3>4
      <3>6. x = z - 1 \/ s[x] < s[z - 1]
        BY <3>2, <3>4
      <3>7. s[x] < s[z]
        <4>. DEFINE a == s[x]
                    b == s[z - 1]
                    c == s[z]
        <4>1. a \in Nat /\ b \in Nat /\ c \in Nat /\ b < c /\ (a = b \/ a < b)
          BY <1>1, <3>3, <3>4, <3>5, <3>6
        <4>. HIDE DEF a, b, c
        <4>2. a < c
          BY <4>1
        <4>. QED  BY <4>2 DEF a, c
      <3>. QED  BY <3>3, <3>7
    <2>. QED  BY <1>2, <2>1
  <1>. QED  BY <1>2 DEF Ascending

LEMMA MultipleGrows ==
  ASSUME NEW w \in Nat, NEW d \in Nat, NEW e \in Nat, d < e
  PROVE  w * d + w <= w * e
  <1>1. e - d - 1 \in Nat
    OBVIOUS
  <1>. DEFINE c == e - d - 1
  <1>2. e = d + 1 + c
    OBVIOUS
  <1>. HIDE DEF c
  <1>3. w * (d + 1 + c) = w * d + w + w * c
    BY <1>1 DEF c
  <1>4. w * c \in Nat
    BY <1>1 DEF c
  <1>. QED  BY <1>2, <1>3, <1>4

LEMMA BlockOf ==
  ASSUME NEW w \in Nat \ {0}, NEW x \in Nat
  PROVE  x \div w \in Nat /\ w * (x \div w) <= x /\ x < w * (x \div w) + w
  OBVIOUS

LEMMA OneBlock ==
  ASSUME NEW w \in Nat \ {0}, NEW x \in Nat, NEW d \in Nat, w * d <= x, x < w * d + w
  PROVE  x \div w = d
  <1>. DEFINE e == x \div w
  <1>1. e \in Nat /\ w * e <= x /\ x < w * e + w
    BY BlockOf
  <1>. HIDE DEF e
  <1>. DEFINE lo == w * d
              r == w * e
  <1>2. lo \in Int /\ r \in Int /\ lo <= x /\ x < lo + w /\ r <= x /\ x < r + w
    BY <1>1
  <1>3. (d < e => lo + w <= r) /\ (e < d => r + w <= lo)
    BY <1>1, MultipleGrows
  <1>. HIDE DEF lo, r
  <1>4. d = e
    BY <1>1, <1>2, <1>3
  <1>. QED  BY <1>4 DEF e

LEMMA OfAIs ==
  ASSUME NEW a \in Seq(Nat), NEW b \in Seq(Nat)
  PROVE  \A t \in 0 .. Len(a) + Len(b) :
           /\ OfA(a, b)[t] \in 0 .. Len(a) /\ t - OfA(a, b)[t] \in 0 .. Len(b)
           /\ t # 0 => LET i == OfA(a, b)[t - 1]
                           j == t - 1 - i
                       IN OfA(a, b)[t] = IF i < Len(a) /\ (j < Len(b) => a[i + 1] < b[j + 1])
                                         THEN i + 1 ELSE i
  <1>. DEFINE N == Len(a) + Len(b)
              Then(t, i) == IF i < Len(a) /\ (t - 1 - i < Len(b) => a[i + 1] < b[t - 1 - i + 1])
                            THEN i + 1 ELSE i
              Body(g) == [t \in 0 .. N |-> IF t = 0 THEN 0 ELSE Then(t, g[t - 1])]
              F == [turn \in (1 .. N) \X Nat |-> Then(turn[1], turn[2])]
              at == OfA(a, b)
  <1>1. Len(a) \in Nat /\ Len(b) \in Nat /\ N \in Nat
    OBVIOUS
  <1>2. ASSUME NEW t \in 1 .. N, NEW i \in Nat PROVE Then(t, i) \in Nat
    OBVIOUS
  <1>3. at = CHOOSE g : g = Body(g)
    BY DEF OfA
  <1>. HIDE DEF Then
  <1>4. ASSUME NEW t \in 1 .. N, NEW i \in Nat PROVE F[<<t, i>>] = Then(t, i)
    <2>. DEFINE turn == <<t, i>>
    <2>1. turn \in (1 .. N) \X Nat /\ turn[1] = t /\ turn[2] = i
      OBVIOUS
    <2>. HIDE DEF turn
    <2>2. F[turn] = Then(turn[1], turn[2])
      BY <2>1
    <2>. QED  BY <2>1, <2>2 DEF turn
  <1>5. F \in [(1 .. N) \X Nat -> Nat]
    <2>1. ASSUME NEW turn \in (1 .. N) \X Nat PROVE Then(turn[1], turn[2]) \in Nat
      BY <1>2
    <2>. QED  BY <2>1
  <1>. HIDE DEF F, at, N
  <1>6. PICK g \in [0 .. N -> Nat] : g[0] = 0 /\ \A t \in 1 .. N : g[t] = F[<<t, g[t - 1]>>]
    <2>1. HasIterate(Nat, 0, N, F)
      BY <1>1, <1>5, Iterates
    <2>. QED  BY <2>1 DEF HasIterate
  <1>7. g = Body(g)
    <2>1. ASSUME NEW t \in 0 .. N PROVE g[t] = IF t = 0 THEN 0 ELSE Then(t, g[t - 1])
      <3>1. CASE t = 0
        BY <1>6, <3>1
      <3>2. CASE t # 0
        <4>1. t \in 1 .. N /\ t - 1 \in 0 .. N
          BY <1>1, <3>2
        <4>2. g[t - 1] \in Nat
          BY <4>1
        <4>. QED  BY <1>4, <1>6, <3>2, <4>1, <4>2
      <3>. QED  BY <3>1, <3>2
    <2>2. g = [t \in 0 .. N |-> g[t]]
      OBVIOUS
    <2>. QED  BY <2>1, <2>2
  <1>8. at = Body(at)
    <2>. HIDE DEF Body
    <2>. QED  BY <1>3, <1>7
  <1>9. at[0] = 0 /\ \A t \in 1 .. N : at[t] = Then(t, at[t - 1])
    <2>1. 0 \in 0 .. N /\ \A t \in 1 .. N : t \in 0 .. N /\ t # 0
      BY <1>1
    <2>2. at[0] = 0
      BY <1>8, <2>1
    <2>3. ASSUME NEW t \in 1 .. N PROVE at[t] = Then(t, at[t - 1])
      BY <1>8, <2>1
    <2>. QED  BY <2>2, <2>3
  <1>10. \A t \in 0 .. N : at[t] \in 0 .. Len(a) /\ t - at[t] \in 0 .. Len(b)
    <2>. DEFINE Each == [t \in 0 .. N |-> {i \in 0 .. Len(a) : t - i \in 0 .. Len(b)}]
    <2>1. \A t \in 0 .. N : \A i : i \in Each[t] <=> i \in 0 .. Len(a) /\ t - i \in 0 .. Len(b)
      OBVIOUS
    <2>2. 0 \in 0 .. N /\ \A t \in 1 .. N : t \in 0 .. N /\ t - 1 \in 0 .. N
      BY <1>1
    <2>. HIDE DEF Each
    <2>3. at[0] \in Each[0]
      <3>1. 0 \in 0 .. Len(a) /\ 0 - 0 \in 0 .. Len(b)
        BY <1>1
      <3>. QED  BY <1>9, <2>1, <2>2, <3>1
    <2>4. ASSUME NEW t \in 1 .. N, at[t - 1] \in Each[t - 1] PROVE at[t] \in Each[t]
      <3>. DEFINE i == at[t - 1]
      <3>1. i \in 0 .. Len(a) /\ t - 1 - i \in 0 .. Len(b) /\ at[t] = Then(t, i)
        BY <1>9, <2>1, <2>2, <2>4
      <3>. HIDE DEF i
      <3>2. (Then(t, i) = i + 1 /\ i < Len(a)) \/ (Then(t, i) = i /\ (i = Len(a) \/ t - 1 - i < Len(b)))
        BY <1>1, <3>1 DEF Then
      <3>3. t \in Int /\ t <= Len(a) + Len(b)
        BY <1>1 DEF N
      <3>4. Then(t, i) \in 0 .. Len(a) /\ t - Then(t, i) \in 0 .. Len(b)
        <4>. DEFINE u == Then(t, i)
                    la == Len(a)
                    lb == Len(b)
        <4>1. /\ la \in Nat /\ lb \in Nat /\ i \in 0 .. la /\ t - 1 - i \in 0 .. lb
              /\ t \in Int /\ t <= la + lb
              /\ (u = i + 1 /\ i < la) \/ (u = i /\ (i = la \/ t - 1 - i < lb))
          BY <1>1, <3>1, <3>2, <3>3
        <4>. HIDE DEF u, la, lb
        <4>2. u \in 0 .. la /\ t - u \in 0 .. lb
          BY <4>1
        <4>. QED  BY <4>2 DEF u, la, lb
      <3>. QED  BY <2>1, <2>2, <3>1, <3>4
    <2>5. \A t \in 0 .. N : at[t] \in Each[t]
      BY <1>1, <2>3, <2>4, StaysIn
    <2>. QED  BY <2>1, <2>5
  <1>11. \A t \in 0 .. N : t # 0 => t \in 1 .. N
    BY <1>1
  <1>. QED  BY <1>9, <1>10, <1>11 DEF Then, at, N

LEMMA MergeIs ==
  ASSUME NEW a \in Seq(Nat), NEW b \in Seq(Nat), Ascending(a), Ascending(b),
         \A i \in 1 .. Len(a), j \in 1 .. Len(b) : a[i] # b[j]
  PROVE  /\ Merge(a, b) \in Seq(Nat) /\ Len(Merge(a, b)) = Len(a) + Len(b)
         /\ Ascending(Merge(a, b))
         /\ \A t \in 1 .. Len(a) + Len(b) : \/ \E i \in 1 .. Len(a) : Merge(a, b)[t] = a[i]
                                            \/ \E j \in 1 .. Len(b) : Merge(a, b)[t] = b[j]
  <1>. DEFINE la == Len(a)
              lb == Len(b)
              N == la + lb
              o == OfA(a, b)
              m == Merge(a, b)
  <1>1. /\ la \in Nat /\ lb \in Nat /\ N \in Nat
        /\ \A i \in 1 .. la : a[i] \in Nat
        /\ \A j \in 1 .. lb : b[j] \in Nat
        /\ \A i \in 1 .. la, j \in 1 .. lb : a[i] # b[j]
    BY LenProperties, ElementOfSeq
  <1>2. /\ \A x, y \in 1 .. la : x < y => a[x] < a[y]
        /\ \A x, y \in 1 .. lb : x < y => b[x] < b[y]
    BY DEF Ascending
  <1>3. m = [t \in 1 .. N |-> IF o[t] > o[t - 1] THEN a[o[t]] ELSE b[t - o[t]]]
    BY DEF Merge
  <1>4. \A t \in 0 .. N :
          /\ o[t] \in 0 .. la /\ t - o[t] \in 0 .. lb
          /\ t # 0 => LET i == o[t - 1]
                          j == t - 1 - i
                      IN o[t] = IF i < la /\ (j < lb => a[i + 1] < b[j + 1]) THEN i + 1 ELSE i
    BY OfAIs
  <1>. HIDE DEF o, m, la, lb
  <1>5. ASSUME NEW t \in 1 .. N
        PROVE  LET i == o[t - 1]
                   j == t - 1 - i
               IN /\ i \in 0 .. la /\ j \in 0 .. lb
                  /\ \/ i < la /\ (j < lb => a[i + 1] < b[j + 1]) /\ o[t] = i + 1 /\ m[t] = a[i + 1]
                     \/ j < lb /\ (i < la => ~ (a[i + 1] < b[j + 1])) /\ o[t] = i /\ m[t] = b[j + 1]
    <2>. DEFINE i == o[t - 1]
                j == t - 1 - i
    <2>1. t \in 0 .. N /\ t # 0 /\ t - 1 \in 0 .. N
      BY <1>1
    <2>2. /\ i \in 0 .. la /\ j \in 0 .. lb /\ o[t] \in 0 .. la /\ t - o[t] \in 0 .. lb
          /\ o[t] = IF i < la /\ (j < lb => a[i + 1] < b[j + 1]) THEN i + 1 ELSE i
      BY <1>4, <2>1
    <2>3. m[t] = IF o[t] > i THEN a[o[t]] ELSE b[t - o[t]]
      <3>. HIDE DEF N
      <3>. QED  BY <1>3
    <2>4. i \in Int /\ t = i + (j + 1) /\ i + 1 > i /\ ~ (i > i) /\ t - i = j + 1
      <3>1. t \in Int /\ i \in Int
        BY <1>1, <2>2
      <3>. HIDE DEF i
      <3>. QED  BY <3>1
    <2>. HIDE DEF i
    <2>5. CASE i < la /\ (j < lb => a[i + 1] < b[j + 1])
      <3>1. o[t] = i + 1 /\ m[t] = a[i + 1]
        BY <2>2, <2>3, <2>4, <2>5
      <3>. QED  BY <2>2, <2>5, <3>1 DEF i
    <2>6. CASE ~ (i < la /\ (j < lb => a[i + 1] < b[j + 1]))
      <3>1. o[t] = i
        BY <2>2, <2>6
      <3>2. m[t] = b[j + 1]
        BY <2>3, <2>4, <3>1
      <3>3. j < lb
        <4>1. t - i \in 0 .. lb
          BY <2>2, <3>1
        <4>. QED  BY <1>1, <2>4, <4>1
      <3>4. i < la => ~ (a[i + 1] < b[j + 1])
        BY <2>6, <3>3
      <3>. QED  BY <2>2, <3>1, <3>2, <3>3, <3>4 DEF i
    <2>. QED  BY <2>5, <2>6
  <1>6. ASSUME NEW t \in 1 .. N
        PROVE  (\E i \in 1 .. la : m[t] = a[i]) \/ (\E j \in 1 .. lb : m[t] = b[j])
    <2>. DEFINE i == o[t - 1]
                j == t - 1 - i
    <2>1. /\ i \in 0 .. la /\ j \in 0 .. lb
          /\ (i < la /\ m[t] = a[i + 1]) \/ (j < lb /\ m[t] = b[j + 1])
      BY <1>5
    <2>. HIDE DEF i, j
    <2>2. (i < la => i + 1 \in 1 .. la) /\ (j < lb => j + 1 \in 1 .. lb)
      BY <1>1, <2>1
    <2>. QED  BY <2>1, <2>2
  <1>7. m \in Seq(Nat) /\ Len(m) = N
    <2>1. \A t \in 1 .. N : m[t] \in Nat
      BY <1>1, <1>6
    <2>2. m \in [1 .. N -> Nat]
      BY <1>3, <2>1
    <2>. HIDE DEF N
    <2>. QED  BY <1>1, <2>2, FunctionIsSeq
  <1>8. ASSUME NEW t \in 1 .. N, t < N PROVE m[t] < m[t + 1]
    <2>. DEFINE i == o[t - 1]
                j == t - 1 - i
                k == o[t]
                l == t + 1 - 1 - k
    <2>1. t + 1 \in 1 .. N /\ t + 1 - 1 = t /\ t \in Int
      BY <1>1, <1>8
    <2>2. /\ i \in 0 .. la /\ j \in 0 .. lb
          /\ \/ i < la /\ (j < lb => a[i + 1] < b[j + 1]) /\ k = i + 1 /\ m[t] = a[i + 1]
             \/ j < lb /\ (i < la => ~ (a[i + 1] < b[j + 1])) /\ k = i /\ m[t] = b[j + 1]
      BY <1>5
    <2>3. /\ k \in 0 .. la /\ l \in 0 .. lb
          /\ \/ k < la /\ m[t + 1] = a[k + 1]
             \/ l < lb /\ m[t + 1] = b[l + 1]
      <3>. DEFINE u == t + 1
                  h == o[u - 1]
                  g == u - 1 - h
      <3>1. u \in 1 .. N /\ u - 1 = t
        BY <2>1
      <3>2. h = k /\ g = l
        <4>. HIDE DEF u
        <4>1. h = k
          <5>. HIDE DEF h
          <5>1. h = o[u - 1]
            BY DEF h
          <5>. HIDE DEF k
          <5>2. k = o[t]
            BY DEF k
          <5>. QED  BY <3>1, <5>1, <5>2
        <4>2. l = u - 1 - k
          <5>1. u = t + 1
            BY DEF u
          <5>2. k \in Int /\ t \in Int
            BY <2>1, <2>2
          <5>. HIDE DEF k
          <5>. QED  BY <5>1, <5>2
        <4>. QED  BY <4>1, <4>2
      <3>3. /\ h \in 0 .. la /\ g \in 0 .. lb
            /\ \/ h < la /\ m[u] = a[h + 1]
               \/ g < lb /\ m[u] = b[g + 1]
        <4>. HIDE DEF u, N
        <4>. QED  BY <1>5, <3>1
      <3>. HIDE DEF h, g, k, l
      <3>. QED  BY <3>2, <3>3 DEF u
    <2>4. (k = i + 1 => l = j) /\ (k = i => l = j + 1)
      <3>1. t \in Int /\ i \in Int /\ k \in Int
        <4>1. la \in Nat /\ i \in 0 .. la /\ k \in 0 .. la /\ t \in Int
          BY <1>1, <2>1, <2>2, <2>3
        <4>. HIDE DEF i, k
        <4>. QED  BY <4>1
      <3>. HIDE DEF i, k
      <3>. QED  BY <3>1
    <2>. HIDE DEF i, j, k, l
    <2>5. CASE i < la /\ (j < lb => a[i + 1] < b[j + 1]) /\ k = i + 1 /\ m[t] = a[i + 1]
      <3>1. CASE k < la /\ m[t + 1] = a[k + 1]
        <4>1. i + 1 \in 1 .. la /\ k + 1 \in 1 .. la /\ i + 1 < k + 1
          BY <1>1, <2>2, <2>5, <3>1
        <4>. QED  BY <1>2, <2>5, <3>1, <4>1
      <3>2. CASE l < lb /\ m[t + 1] = b[l + 1]
        BY <2>4, <2>5, <3>2
      <3>. QED  BY <2>3, <3>1, <3>2
    <2>6. CASE j < lb /\ (i < la => ~ (a[i + 1] < b[j + 1])) /\ k = i /\ m[t] = b[j + 1]
      <3>1. CASE k < la /\ m[t + 1] = a[k + 1]
        <4>. DEFINE u == a[i + 1]
                    v == b[j + 1]
        <4>1. i + 1 \in 1 .. la /\ j + 1 \in 1 .. lb
          BY <1>1, <2>2, <2>6, <3>1
        <4>2. u \in Nat /\ v \in Nat /\ u # v /\ ~ (u < v) /\ m[t] = v /\ m[t + 1] = u
          BY <1>1, <2>6, <3>1, <4>1
        <4>. HIDE DEF u, v
        <4>. QED  BY <4>2
      <3>2. CASE l < lb /\ m[t + 1] = b[l + 1]
        <4>1. j + 1 \in 1 .. lb /\ l + 1 \in 1 .. lb /\ j + 1 < l + 1
          BY <1>1, <2>2, <2>3, <2>4, <2>6, <3>2
        <4>. QED  BY <1>2, <2>6, <3>2, <4>1
      <3>. QED  BY <2>3, <3>1, <3>2
    <2>. QED  BY <2>2, <2>5, <2>6
  <1>9. Ascending(m)
    BY <1>7, <1>8, StepsAscend
  <1>. QED  BY <1>6, <1>7, <1>9 DEF m, la, lb

LEMMA RunIs ==
  ASSUME NEW s \in Seq(Nat), NEW n \in Nat \ {0}, NEW r \in Nat
  PROVE  /\ Run(s, n, r) \in Seq(Nat)
         /\ Len(Run(s, n, r)) <= n
         /\ \A k \in 1 .. n : k <= Len(Run(s, n, r)) <=> n * r + k <= Len(s)
         /\ \A k \in 1 .. Len(Run(s, n, r)) : Run(s, n, r)[k] = s[n * r + k]
  <1>. DEFINE lo == n * r
              L == Len(s)
              e == Min({lo + n, L})
              run == Run(s, n, r)
  <1>1. lo \in Nat /\ L \in Nat /\ \A k \in 1 .. L : s[k] \in Nat
    BY LenProperties, ElementOfSeq
  <1>2. run = SubSeq(s, lo + 1, e)
    BY DEF Run
  <1>. HIDE DEF lo, L, run
  <1>3. e \in {lo + n, L} /\ e <= lo + n /\ e <= L
    <2>1. {lo + n, L} \subseteq Nat /\ {lo + n, L} # {}
      BY <1>1
    <2>. QED  BY <2>1, LeastIsMin
  <1>. HIDE DEF e
  <1>4. lo + 1 \in Int /\ e \in Nat /\ \A k \in lo + 1 .. e : s[k] \in Nat
    BY <1>1, <1>3
  <1>5. /\ run \in Seq(Nat)
        /\ Len(run) = IF lo + 1 <= e THEN e - (lo + 1) + 1 ELSE 0
        /\ \A k \in 1 .. e - (lo + 1) + 1 : run[k] = s[lo + 1 + k - 1]
    BY <1>2, <1>4, SubSeqProperties
  <1>. DEFINE l == Len(run)
  <1>6. l = IF lo + 1 <= e THEN e - lo ELSE 0
    BY <1>1, <1>4, <1>5
  <1>. HIDE DEF l
  <1>7. l \in Nat /\ l <= n /\ \A k \in 1 .. n : k <= l <=> lo + k <= L
    BY <1>1, <1>3, <1>4, <1>6
  <1>8. ASSUME NEW k \in 1 .. l PROVE run[k] = s[lo + k]
    <2>. DEFINE top == e - (lo + 1) + 1
    <2>1. lo \in Nat /\ e \in Nat /\ l \in Nat
      BY <1>1, <1>4, <1>7
    <2>2. l >= 1 /\ k \in Int /\ 1 <= k /\ k <= l
      BY <2>1
    <2>3. top = l
      BY <1>6, <2>1, <2>2
    <2>4. k \in 1 .. top /\ lo + 1 + k - 1 = lo + k
      <3>. HIDE DEF top
      <3>. QED  BY <2>1, <2>2, <2>3
    <2>5. run[k] = s[lo + 1 + k - 1]
      BY <1>5, <2>4
    <2>. QED  BY <2>4, <2>5
  <1>. QED  BY <1>5, <1>7, <1>8 DEF l, lo, L, run

\* What the round with runs of n makes of block d, the runs 2 d and 2 d + 1.
Merged(s, n, d) == Merge(Run(s, n, 2 * d), Run(s, n, 2 * d + 1))
Block(s, n, d) == {x \in 1 .. Len(s) : (x - 1) \div (2 * n) = d}

LEMMA BlockIs ==
  ASSUME NEW s \in Seq(Nat), NEW n \in Nat \ {0}, NEW d \in Nat, NEW X, Holds(s, X), RunsAscend(s, n)
  PROVE  /\ Merged(s, n, d) \in Seq(Nat) /\ Ascending(Merged(s, n, d))
         /\ \A x \in Block(s, n, d) : x - 2 * n * d \in 1 .. Len(Merged(s, n, d))
         /\ \A t \in 1 .. Len(Merged(s, n, d)) : \E x \in Block(s, n, d) : Merged(s, n, d)[t] = s[x]
  <1>. DEFINE w == 2 * n
              lo == w * d
              L == Len(s)
              a == Run(s, n, 2 * d)
              b == Run(s, n, 2 * d + 1)
              la == Len(a)
              lb == Len(b)
              m == Merged(s, n, d)
  <1>1. L \in Nat /\ w \in Nat \ {0} /\ lo \in Nat /\ w = n + n /\ 2 * d \in Nat /\ 2 * d + 1 \in Nat
    BY LenProperties
  <1>2. n * (2 * d) = lo /\ n * (2 * d + 1) = lo + n
    OBVIOUS
  <1>3. /\ a \in Seq(Nat) /\ la <= n
        /\ \A k \in 1 .. n : k <= la <=> lo + k <= L
        /\ \A k \in 1 .. la : a[k] = s[lo + k]
    <2>. DEFINE r == 2 * d
    <2>1. r \in Nat /\ n * r = lo
      BY <1>1, <1>2
    <2>. HIDE DEF r, lo
    <2>2. /\ Run(s, n, r) \in Seq(Nat) /\ Len(Run(s, n, r)) <= n
          /\ \A k \in 1 .. n : k <= Len(Run(s, n, r)) <=> n * r + k <= Len(s)
          /\ \A k \in 1 .. Len(Run(s, n, r)) : Run(s, n, r)[k] = s[n * r + k]
      BY <2>1, RunIs
    <2>. QED  BY <2>1, <2>2 DEF r
  <1>4. /\ b \in Seq(Nat) /\ lb <= n
        /\ \A k \in 1 .. n : k <= lb <=> lo + n + k <= L
        /\ \A k \in 1 .. lb : b[k] = s[lo + n + k]
    <2>. DEFINE r == 2 * d + 1
                g == lo + n
    <2>1. r \in Nat /\ n * r = g
      BY <1>1, <1>2
    <2>. HIDE DEF r, g
    <2>2. /\ Run(s, n, r) \in Seq(Nat) /\ Len(Run(s, n, r)) <= n
          /\ \A k \in 1 .. n : k <= Len(Run(s, n, r)) <=> n * r + k <= Len(s)
          /\ \A k \in 1 .. Len(Run(s, n, r)) : Run(s, n, r)[k] = s[n * r + k]
      BY <2>1, RunIs
    <2>3. /\ Run(s, n, r) \in Seq(Nat) /\ Len(Run(s, n, r)) <= n
          /\ \A k \in 1 .. n : k <= Len(Run(s, n, r)) <=> g + k <= Len(s)
          /\ \A k \in 1 .. Len(Run(s, n, r)) : Run(s, n, r)[k] = s[g + k]
      BY <2>1, <2>2
    <2>. QED  BY <2>3 DEF r, g
  <1>5. la \in Nat /\ lb \in Nat
    BY <1>3, <1>4
  <1>6. m = Merge(a, b)
    BY DEF Merged
  <1>. HIDE DEF a, b, la, lb, lo, L, w, m
  <1>7. /\ \A k \in 1 .. la : lo + k \in 1 .. L
        /\ \A k \in 1 .. lb : lo + n + k \in 1 .. L
        /\ lb > 0 => la = n
    <2>1. (\A k \in 1 .. la : k \in 1 .. n /\ k <= la) /\ (\A k \in 1 .. lb : k \in 1 .. n /\ k <= lb)
      BY <1>3, <1>4, <1>5
    <2>2. (\A k \in 1 .. la : lo + k <= L) /\ (\A k \in 1 .. lb : lo + n + k <= L)
      BY <1>3, <1>4, <2>1
    <2>3. (\A k \in 1 .. la : lo + k \in 1 .. L) /\ (\A k \in 1 .. lb : lo + n + k \in 1 .. L)
      BY <1>1, <2>2
    <2>4. lb > 0 => n \in 1 .. n /\ 1 \in 1 .. lb /\ (lo + n + 1 <= L => lo + n <= L)
      BY <1>1, <1>5
    <2>5. lb > 0 => n <= la
      BY <1>3, <2>2, <2>4
    <2>. QED  BY <1>3, <1>5, <2>3, <2>5
  <1>8. /\ \A x \in 1 .. L : \A y \in 1 .. L : s[x] = s[y] => x = y
        /\ \A r \in Nat : \A x, y \in 1 .. L : n * r < x /\ x < y /\ y <= n * r + n => s[x] < s[y]
    BY DEF Holds, RunsAscend, L
  <1>9. Ascending(a)
    <2>1. ASSUME NEW x \in 1 .. la, NEW y \in 1 .. la, x < y PROVE a[x] < a[y]
      <3>1. lo + x \in 1 .. L /\ lo + y \in 1 .. L /\ lo < lo + x /\ lo + x < lo + y /\ lo + y <= lo + n
        BY <1>1, <1>3, <1>5, <1>7, <2>1
      <3>2. s[lo + x] < s[lo + y]
        BY <1>1, <1>2, <1>8, <3>1
      <3>. QED  BY <1>3, <3>2
    <2>. QED  BY <2>1 DEF Ascending, la
  <1>10. Ascending(b)
    <2>. DEFINE g == lo + n
    <2>1. ASSUME NEW x \in 1 .. lb, NEW y \in 1 .. lb, x < y PROVE b[x] < b[y]
      <3>1. g + x \in 1 .. L /\ g + y \in 1 .. L /\ g < g + x /\ g + x < g + y /\ g + y <= g + n
        <4>1. g + x \in 1 .. L /\ g + y \in 1 .. L
          BY <1>7
        <4>2. g \in Nat /\ n \in Nat /\ lb \in Nat /\ lb <= n
          BY <1>1, <1>4, <1>5
        <4>. HIDE DEF g
        <4>. QED  BY <2>1, <4>1, <4>2
      <3>2. b[x] = s[g + x] /\ b[y] = s[g + y] /\ n * (2 * d + 1) = g
        BY <1>2, <1>4
      <3>. HIDE DEF g
      <3>3. s[g + x] < s[g + y]
        BY <1>1, <1>8, <3>1, <3>2
      <3>. QED  BY <3>2, <3>3
    <2>. QED  BY <2>1 DEF Ascending, lb
  <1>11. \A i \in 1 .. la, j \in 1 .. lb : a[i] # b[j]
    <2>1. ASSUME NEW i \in 1 .. la, NEW j \in 1 .. lb PROVE a[i] # b[j]
      <3>. DEFINE x == lo + i
                  y == lo + n + j
      <3>1. x \in 1 .. L /\ y \in 1 .. L /\ a[i] = s[x] /\ b[j] = s[y]
        BY <1>3, <1>4, <1>7
      <3>2. x # y
        <4>1. lo \in Nat /\ n \in Nat /\ la \in Nat /\ la <= n /\ lb \in Nat
          BY <1>1, <1>3, <1>5
        <4>2. i <= n /\ j >= 1 /\ i \in Int /\ j \in Int
          BY <4>1
        <4>. QED  BY <4>1, <4>2
      <3>. HIDE DEF x, y
      <3>. QED  BY <1>8, <3>1, <3>2
    <2>. QED  BY <2>1
  <1>12. /\ m \in Seq(Nat) /\ Len(m) = la + lb /\ Ascending(m)
         /\ \A t \in 1 .. la + lb : \/ \E i \in 1 .. la : m[t] = a[i]
                                    \/ \E j \in 1 .. lb : m[t] = b[j]
    <2>1. a \in Seq(Nat) /\ b \in Seq(Nat) /\ Ascending(a) /\ Ascending(b)
      BY <1>3, <1>4, <1>9, <1>10
    <2>2. \A i \in 1 .. Len(a), j \in 1 .. Len(b) : a[i] # b[j]
      BY <1>11 DEF la, lb
    <2>3. /\ Merge(a, b) \in Seq(Nat) /\ Len(Merge(a, b)) = Len(a) + Len(b)
          /\ Ascending(Merge(a, b))
          /\ \A t \in 1 .. Len(a) + Len(b) : \/ \E i \in 1 .. Len(a) : Merge(a, b)[t] = a[i]
                                             \/ \E j \in 1 .. Len(b) : Merge(a, b)[t] = b[j]
      BY <2>1, <2>2, MergeIs
    <2>. QED  BY <1>6, <2>3 DEF la, lb
  <1>13. ASSUME NEW x \in Block(s, n, d) PROVE x - lo \in 1 .. la + lb
    <2>1. x \in 1 .. L /\ x - 1 \in Nat /\ (x - 1) \div w = d
      BY DEF Block, L, w
    <2>2. lo <= x - 1 /\ x - 1 < lo + w
      BY <1>1, <2>1, BlockOf DEF lo
    <2>3. CASE x - lo <= n
      <3>1. x - lo \in 1 .. n /\ lo + (x - lo) <= L
        BY <1>1, <2>1, <2>2, <2>3
      <3>2. x - lo <= la
        BY <1>3, <3>1
      <3>. QED  BY <1>5, <3>1, <3>2
    <2>4. CASE ~ (x - lo <= n)
      <3>. DEFINE k == x - lo - n
      <3>1. k \in 1 .. n /\ lo + n + k <= L /\ k + n = x - lo
        BY <1>1, <2>1, <2>2, <2>4
      <3>. HIDE DEF k
      <3>2. k <= lb
        BY <1>4, <3>1
      <3>3. lb > 0
        BY <1>5, <3>1, <3>2
      <3>. QED  BY <1>5, <1>7, <3>1, <3>2, <3>3
    <2>. QED  BY <2>3, <2>4
  <1>14. ASSUME NEW x \in 1 .. L, lo <= x - 1, x - 1 < lo + w PROVE x \in Block(s, n, d)
    <2>1. x - 1 \in Nat
      BY <1>1
    <2>2. (x - 1) \div w = d
      BY <1>1, <1>14, <2>1, OneBlock DEF lo
    <2>. QED  BY <2>2 DEF Block, L, w
  <1>15. ASSUME NEW t \in 1 .. la + lb PROVE \E x \in Block(s, n, d) : m[t] = s[x]
    <2>1. CASE \E i \in 1 .. la : m[t] = a[i]
      <3>1. PICK i \in 1 .. la : m[t] = a[i]
        BY <2>1
      <3>. DEFINE x == lo + i
      <3>2. x \in 1 .. L /\ lo <= x - 1 /\ x - 1 < lo + w /\ a[i] = s[x]
        <4>1. x \in 1 .. L /\ a[i] = s[x]
          BY <1>3, <1>7
        <4>2. lo <= x - 1 /\ x - 1 < lo + w
          <5>1. lo \in Nat /\ n \in Nat /\ w = n + n /\ la \in Nat /\ la <= n
            BY <1>1, <1>3, <1>5
          <5>2. i \in Int /\ 1 <= i /\ i <= n
            BY <5>1
          <5>. QED  BY <5>1, <5>2
        <4>. QED  BY <4>1, <4>2
      <3>. HIDE DEF x
      <3>. QED  BY <1>14, <3>1, <3>2
    <2>2. CASE \E j \in 1 .. lb : m[t] = b[j]
      <3>1. PICK j \in 1 .. lb : m[t] = b[j]
        BY <2>2
      <3>. DEFINE x == lo + n + j
      <3>2. x \in 1 .. L /\ b[j] = s[x]
        BY <1>4, <1>7
      <3>3. lo <= x - 1 /\ x - 1 < lo + w
        <4>1. lo \in Nat /\ n \in Nat /\ w = n + n /\ lb \in Nat /\ lb <= n
          BY <1>1, <1>4, <1>5
        <4>2. j \in Int /\ 1 <= j /\ j <= n
          BY <4>1
        <4>. QED  BY <4>1, <4>2
      <3>. HIDE DEF x
      <3>. QED  BY <1>14, <3>1, <3>2, <3>3
    <2>. QED  BY <1>12, <2>1, <2>2
  <1>16. /\ \A x \in Block(s, n, d) : x - lo \in 1 .. Len(m)
         /\ \A t \in 1 .. Len(m) : \E x \in Block(s, n, d) : m[t] = s[x]
    BY <1>12, <1>13, <1>15
  <1>. QED  BY <1>12, <1>16 DEF m, lo, w

LEMMA MergeRunsIs ==
  ASSUME NEW s \in Seq(Nat), NEW n \in Nat \ {0}, NEW X \in SUBSET Nat, Holds(s, X), RunsAscend(s, n)
  PROVE  /\ MergeRuns(s, n) \in Seq(Nat) /\ Len(MergeRuns(s, n)) = Len(s)
         /\ Holds(MergeRuns(s, n), X)
         /\ RunsAscend(MergeRuns(s, n), 2 * n)
  <1>. DEFINE L == Len(s)
              w == 2 * n
              D(x) == (x - 1) \div w
              r == MergeRuns(s, n)
              m(d) == Merged(s, n, d)
              B(d) == Block(s, n, d)
  <1>1. /\ L \in Nat /\ w \in Nat \ {0} /\ \A x \in 1 .. L : s[x] \in X
        /\ \A x, y \in 1 .. L : s[x] = s[y] => x = y
    BY LenProperties DEF Holds
  <1>2. r = [x \in 1 .. L |-> m(D(x))[x - w * D(x)]]
    BY DEF MergeRuns, Merged
  <1>3. ASSUME NEW x \in 1 .. L PROVE D(x) \in Nat /\ x \in B(D(x)) /\ x - 1 \in Nat
    <2>1. x - 1 \in Nat
      BY <1>1
    <2>2. D(x) \in Nat
      <3>. HIDE DEF w
      <3>. QED  BY <1>1, <2>1, BlockOf
    <2>. QED  BY <2>1, <2>2 DEF Block
  <1>4. ASSUME NEW d \in Nat, NEW x \in B(d) PROVE x \in 1 .. L /\ D(x) = d
    BY <1>4 DEF Block
  <1>5. ASSUME NEW d \in Nat
        PROVE  /\ m(d) \in Seq(Nat) /\ Ascending(m(d))
               /\ \A x \in B(d) : x - w * d \in 1 .. Len(m(d))
               /\ \A t \in 1 .. Len(m(d)) : \E x \in B(d) : m(d)[t] = s[x]
    BY BlockIs
  <1>. HIDE DEF L, w, D, r, m, B
  <1>6. ASSUME NEW x \in 1 .. L
        PROVE  /\ r[x] = m(D(x))[x - w * D(x)]
               /\ \E y \in 1 .. L : D(y) = D(x) /\ r[x] = s[y]
    <2>1. D(x) \in Nat /\ x \in B(D(x))
      BY <1>3
    <2>2. r[x] = m(D(x))[x - w * D(x)]
      BY <1>2
    <2>. DEFINE d == D(x)
                t == x - w * d
    <2>3. d \in Nat /\ x \in B(d) /\ r[x] = m(d)[t]
      BY <2>1, <2>2
    <2>. HIDE DEF d
    <2>4. t \in 1 .. Len(m(d))
      BY <1>5, <2>3
    <2>. HIDE DEF t
    <2>5. PICK y \in B(d) : m(d)[t] = s[y]
      BY <1>5, <2>3, <2>4
    <2>6. y \in 1 .. L /\ D(y) = d
      BY <1>4, <2>3
    <2>. QED  BY <2>2, <2>3, <2>5, <2>6 DEF d
  <1>7. ASSUME NEW x \in 1 .. L, NEW y \in 1 .. L, D(x) = D(y), x < y PROVE r[x] < r[y]
    <2>. DEFINE d == D(x)
                t == x - w * d
                u == y - w * d
    <2>1. d \in Nat /\ x \in B(d) /\ y \in B(d) /\ r[x] = m(d)[t] /\ r[y] = m(d)[u]
      BY <1>3, <1>6, <1>7
    <2>. HIDE DEF d
    <2>2. t \in 1 .. Len(m(d)) /\ u \in 1 .. Len(m(d)) /\ Ascending(m(d))
      BY <1>5, <2>1
    <2>3. t < u
      <3>. DEFINE lo == w * d
      <3>1. lo \in Int /\ x \in Int /\ y \in Int
        BY <1>1, <2>1
      <3>. HIDE DEF lo, t, u
      <3>2. t = x - lo /\ u = y - lo
        BY DEF lo, t, u
      <3>. QED  BY <1>7, <3>1, <3>2
    <2>. HIDE DEF t, u
    <2>4. m(d)[t] < m(d)[u]
      BY <2>2, <2>3 DEF Ascending
    <2>. QED  BY <2>1, <2>4
  <1>8. \A x \in 1 .. L : r[x] \in X
    BY <1>1, <1>6
  <1>9. r \in Seq(Nat) /\ Len(r) = L
    <2>1. r \in [1 .. L -> Nat]
      BY <1>2, <1>8
    <2>. QED  BY <1>1, <2>1, FunctionIsSeq
  <1>10. ASSUME NEW x \in 1 .. L, NEW y \in 1 .. L, r[x] = r[y] PROVE x = y
    <2>1. PICK z \in 1 .. L : D(z) = D(x) /\ r[x] = s[z]
      BY <1>6
    <2>2. PICK v \in 1 .. L : D(v) = D(y) /\ r[y] = s[v]
      BY <1>6
    <2>3. s[z] = s[v]
      BY <1>10, <2>1, <2>2
    <2>4. z = v
      BY <1>1, <2>3
    <2>5. D(x) = D(y)
      BY <2>1, <2>2, <2>4
    <2>6. r[x] \in Nat /\ r[y] \in Nat
      BY <1>8
    <2>7. ~ (x < y)
      BY <1>7, <1>10, <2>5, <2>6
    <2>8. ~ (y < x)
      BY <1>7, <1>10, <2>5, <2>6
    <2>. QED  BY <1>1, <2>7, <2>8
  <1>11. Holds(r, X)
    <2>. DEFINE Y == {r[x] : x \in 1 .. L}
    <2>1. Y \subseteq X /\ \A y \in Y : \E x \in 1 .. L : r[x] = y
      BY <1>8
    <2>2. \A x \in 1 .. L : r[x] \in Y
      OBVIOUS
    <2>. HIDE DEF Y
    <2>3. Holds(r, Y)
      BY <1>9, <1>10, <2>1, <2>2 DEF Holds
    <2>4. Y \in SUBSET Nat
      BY <2>1
    <2>5. L = Cardinality(Y) /\ L = Cardinality(X)
      BY <1>9, <2>3, <2>4, HoldsCounts DEF L
    <2>6. IsFiniteSet(X)
      <3>1. DOMAIN s = 1 .. L
        BY LenProperties DEF L
      <3>2. s \in [1 .. L -> X]
        BY <1>1, <3>1
      <3>3. s \in Surjection(1 .. L, X)
        BY <3>2, Fun_IsSurj DEF Holds, L
      <3>4. IsFiniteSet(1 .. L)
        BY <1>1, FS_Interval
      <3>. QED  BY <3>3, <3>4, FS_Surjection
    <2>7. X = Y
      BY <2>1, <2>5, <2>6, FS_Subset
    <2>. QED  BY <2>3, <2>7
  <1>12. RunsAscend(r, w)
    <2>1. ASSUME NEW d \in Nat, NEW x \in 1 .. L, NEW y \in 1 .. L,
                 w * d < x, x < y, y <= w * d + w
          PROVE  r[x] < r[y]
      <3>. DEFINE lo == w * d
      <3>1. lo \in Int
        BY <1>1
      <3>. HIDE DEF lo
      <3>2. lo <= x - 1 /\ x - 1 < lo + w /\ lo <= y - 1 /\ y - 1 < lo + w /\ x - 1 \in Nat /\ y - 1 \in Nat
        BY <1>1, <2>1, <3>1 DEF lo
      <3>3. D(x) = d
        BY <1>1, <3>2, OneBlock DEF lo, D
      <3>4. D(y) = d
        BY <1>1, <3>2, OneBlock DEF lo, D
      <3>. QED  BY <1>7, <2>1, <3>3, <3>4
    <2>. QED  BY <1>9, <2>1 DEF RunsAscend
  <1>. QED  BY <1>9, <1>11, <1>12 DEF r, L, w

LEMMA ListSortIs ==
  ASSUME NEW s \in Seq(Nat), NEW X \in SUBSET Nat, Holds(s, X)
  PROVE  ListSort(s) \in Seq(Nat) /\ Holds(ListSort(s), X) /\ Ascending(ListSort(s))
  <1>. DEFINE N == Len(s)
              Begin == [s |-> s, n |-> 1]
              Then(r) == IF N <= r.n THEN r ELSE [s |-> MergeRuns(r.s, r.n), n |-> 2 * r.n]
              Body(g) == [t \in 0 .. N |-> IF t = 0 THEN Begin ELSE Then(g[t - 1])]
              round == CHOOSE g : g = Body(g)
              S == {r \in [s : Seq(Nat), n : Nat \ {0}] :
                      Len(r.s) = N /\ Holds(r.s, X) /\ RunsAscend(r.s, r.n)}
              F == [turn \in (1 .. N) \X S |-> Then(turn[2])]
  <1>1. N \in Nat
    OBVIOUS
  <1>2. ListSort(s) = round[N].s
    BY DEF ListSort
  <1>3. Begin \in S /\ Begin.n = 1
    <2>1. RunsAscend(s, 1)
      <3>1. \A r \in Nat : \A x, y \in 1 .. N : ~ (1 * r < x /\ x < y /\ y <= 1 * r + 1)
        BY <1>1
      <3>. QED  BY <3>1 DEF RunsAscend
    <2>. QED  BY <2>1
  <1>4. ASSUME NEW r \in S
        PROVE  /\ Then(r) \in S
               /\ (N <= r.n => N <= Then(r).n)
               /\ (~ (N <= r.n) => Then(r).n = 2 * r.n)
    <2>1. CASE N <= r.n
      BY <2>1
    <2>2. CASE ~ (N <= r.n)
      <3>. DEFINE a == r.s
                  k == r.n
                  b == MergeRuns(a, k)
                  l == 2 * k
      <3>1. a \in Seq(Nat) /\ k \in Nat \ {0} /\ Len(a) = N /\ Holds(a, X) /\ RunsAscend(a, k)
        BY <1>4
      <3>2. Then(r) = [s |-> b, n |-> l] /\ ~ (N <= k)
        BY <2>2
      <3>. HIDE DEF a, k
      <3>3. l \in Nat \ {0}
        BY <3>1
      <3>4. b \in Seq(Nat) /\ Len(b) = Len(a) /\ Holds(b, X) /\ RunsAscend(b, l)
        BY <3>1, MergeRunsIs
      <3>. HIDE DEF b, l, Then
      <3>5. [s |-> b, n |-> l] \in S
        BY <3>1, <3>3, <3>4
      <3>6. Then(r).n = l
        BY <3>2
      <3>. QED  BY <2>2, <3>2, <3>5, <3>6 DEF l, k
    <2>. QED  BY <2>1, <2>2
  <1>. HIDE DEF Then, Begin
  <1>5. \A r \in S : r.n \in Nat \ {0}
    OBVIOUS
  <1>. HIDE DEF S
  <1>6. ASSUME NEW t \in 1 .. N, NEW r \in S PROVE F[<<t, r>>] = Then(r)
    <2>. DEFINE turn == <<t, r>>
    <2>1. turn \in (1 .. N) \X S /\ turn[2] = r
      OBVIOUS
    <2>. HIDE DEF turn
    <2>2. F[turn] = Then(turn[2])
      BY <2>1
    <2>. QED  BY <2>1, <2>2 DEF turn
  <1>7. F \in [(1 .. N) \X S -> S]
    <2>1. ASSUME NEW turn \in (1 .. N) \X S PROVE Then(turn[2]) \in S
      <3>1. turn[2] \in S
        OBVIOUS
      <3>. QED  BY <1>4, <3>1
    <2>. QED  BY <2>1
  <1>. HIDE DEF F
  <1>8. PICK g \in [0 .. N -> S] : g[0] = Begin /\ \A t \in 1 .. N : g[t] = F[<<t, g[t - 1]>>]
    <2>. HIDE DEF N
    <2>1. HasIterate(S, Begin, N, F)
      BY <1>1, <1>3, <1>7, Iterates, Zenon
    <2>. QED  BY <2>1 DEF HasIterate
  <1>. HIDE DEF N
  <1>9. g = Body(g)
    <2>1. ASSUME NEW t \in 0 .. N PROVE g[t] = IF t = 0 THEN Begin ELSE Then(g[t - 1])
      <3>1. CASE t = 0
        BY <1>8, <3>1
      <3>2. CASE t # 0
        <4>1. t \in 1 .. N /\ t - 1 \in 0 .. N
          BY <1>1, <3>2
        <4>2. g[t - 1] \in S
          BY <4>1
        <4>. QED  BY <1>6, <1>8, <3>2, <4>1, <4>2
      <3>. QED  BY <3>1, <3>2
    <2>2. g = [t \in 0 .. N |-> g[t]]
      OBVIOUS
    <2>. QED  BY <2>1, <2>2
  <1>10. round = Body(round)
    <2>. HIDE DEF Body
    <2>. QED  BY <1>9
  <1>. HIDE DEF round
  <1>11. round[0] = Begin /\ \A t \in 1 .. N : round[t] = Then(round[t - 1])
    <2>1. 0 \in 0 .. N /\ \A t \in 1 .. N : t \in 0 .. N /\ t # 0
      BY <1>1
    <2>2. round[0] = Begin
      BY <1>10, <2>1
    <2>3. ASSUME NEW t \in 1 .. N PROVE round[t] = Then(round[t - 1])
      BY <1>10, <2>1
    <2>. QED  BY <2>2, <2>3
  <1>12. \A t \in 0 .. N : round[t] \in S /\ (N <= round[t].n \/ t < round[t].n)
    <2>. DEFINE Each == [t \in 0 .. N |-> {r \in S : N <= r.n \/ t < r.n}]
    <2>1. \A t \in 0 .. N : \A r : r \in Each[t] <=> r \in S /\ (N <= r.n \/ t < r.n)
      OBVIOUS
    <2>2. 0 \in 0 .. N /\ \A t \in 1 .. N : t \in 0 .. N /\ t - 1 \in 0 .. N
      BY <1>1
    <2>. HIDE DEF Each
    <2>3. round[0] \in Each[0]
      BY <1>3, <1>11, <2>1, <2>2
    <2>4. ASSUME NEW t \in 1 .. N, round[t - 1] \in Each[t - 1] PROVE round[t] \in Each[t]
      <3>. DEFINE r == round[t - 1]
                  k == r.n
                  l == Then(r).n
      <3>1. r \in S /\ (N <= k \/ t - 1 < k) /\ round[t] = Then(r)
        BY <1>11, <2>1, <2>2, <2>4
      <3>. HIDE DEF r
      <3>2. Then(r) \in S /\ (N <= k => N <= l) /\ (~ (N <= k) => l = 2 * k)
        BY <1>4, <3>1
      <3>3. k \in Nat \ {0} /\ t \in Int /\ t <= N
        BY <1>1, <1>5, <3>1
      <3>. HIDE DEF k, l
      <3>4. N <= l \/ t < l
        BY <1>1, <3>1, <3>2, <3>3
      <3>. QED  BY <2>1, <2>2, <3>1, <3>2, <3>4 DEF l
    <2>5. \A t \in 0 .. N : round[t] \in Each[t]
      BY <1>1, <2>3, <2>4, StaysIn
    <2>. QED  BY <2>1, <2>5
  <1>13. round[N] \in S /\ N <= round[N].n
    <2>1. N \in 0 .. N
      BY <1>1
    <2>2. round[N] \in S /\ (N <= round[N].n \/ N < round[N].n)
      BY <1>12, <2>1
    <2>3. round[N].n \in Nat
      BY <1>5, <2>2
    <2>. QED  BY <1>1, <2>2, <2>3
  <1>. DEFINE z == round[N].s
              k == round[N].n
  <1>14. z \in Seq(Nat) /\ Len(z) = N /\ Holds(z, X) /\ RunsAscend(z, k) /\ k \in Nat /\ N <= k
    BY <1>13 DEF S
  <1>. HIDE DEF z, k
  <1>15. Ascending(z)
    <2>1. ASSUME NEW x \in 1 .. N, NEW y \in 1 .. N, x < y PROVE z[x] < z[y]
      <3>1. k * 0 = 0 /\ 0 \in Nat
        BY <1>14
      <3>2. 0 < x /\ y <= 0 + k
        BY <1>1, <1>14
      <3>. QED  BY <1>14, <2>1, <3>1, <3>2 DEF RunsAscend
    <2>. QED  BY <1>14, <2>1 DEF Ascending
  <1>. QED  BY <1>2, <1>14, <1>15 DEF z

\* s has N elements, none of them twice.
Distinct(s, N) ==
  N \in Nat /\ s \in Seq(Number) /\ Len(s) = N /\ \A k, m \in 1 .. N : s[k] = s[m] => k = m

LEMMA LinkOneIs ==
  ASSUME NEW s, NEW N, Distinct(s, N), NEW link, link \in Links, NEW d, d \in Int
  PROVE  /\ LinkOne(s, link, d) \in Links
         /\ \A k \in 1 .. N : LinkOne(s, link, d)[s[k]] = IF k + d \in 1 .. N THEN s[k + d] ELSE Null
  <1>. DEFINE IsIn(n) == \E k \in 1 .. N : s[k] = n
              At(n) == CHOOSE k \in 1 .. N : s[k] = n
              To(n) == IF IsIn(n) THEN IF At(n) + d \in 1 .. N THEN s[At(n) + d] ELSE Null
                                ELSE link[n]
              new == LinkOne(s, link, d)
  <1>1. N \in Nat /\ s \in Seq(Number) /\ Len(s) = N /\ \A k, m \in 1 .. N : s[k] = s[m] => k = m
    BY DEF Distinct
  <1>2. DOMAIN s = 1 .. N /\ \A k \in 1 .. N : s[k] \in Number
    BY <1>1, LenProperties, ElementOfSeq
  <1>3. new = [n \in Number |-> To(n)]
    BY <1>2 DEF LinkOne
  <1>4. \A n \in Number : link[n] \in Number \cup {Null}
    BY DEF Links
  <1>5. ASSUME NEW n \in Number PROVE To(n) \in Number \cup {Null}
    BY <1>2, <1>4
  <1>6. ASSUME NEW k \in 1 .. N PROVE To(s[k]) = IF k + d \in 1 .. N THEN s[k + d] ELSE Null
    <2>1. IsIn(s[k])
      OBVIOUS
    <2>2. At(s[k]) \in 1 .. N /\ s[At(s[k])] = s[k]
      BY <2>1
    <2>3. At(s[k]) = k
      BY <1>1, <2>2
    <2>. HIDE DEF IsIn, At
    <2>. QED  BY <2>1, <2>3
  <1>. HIDE DEF To, new
  <1>7. new \in Links
    BY <1>3, <1>5 DEF Links
  <1>8. ASSUME NEW k \in 1 .. N PROVE new[s[k]] = IF k + d \in 1 .. N THEN s[k + d] ELSE Null
    <2>1. new[s[k]] = To(s[k])
      BY <1>2, <1>3
    <2>. QED  BY <1>6, <2>1
  <1>. QED  BY <1>7, <1>8 DEF new

\* The sort links the elements in ascending order.
LEMMA SortLinks ==
  ASSUME DlOK, dllist_sort, list # Null
  PROVE  \E s \in Seq(Number) :
           /\ s # << >> /\ Ascending(s) /\ list' = s[1]
           /\ next' \in Links /\ previous' \in Links
           /\ Linked(s, Len(s), spec, next', previous')
  <1>1. PICK q, N : Linked(q, N, spec, next, previous)
    BY DEF DlOK
  <1>2. /\ N \in Nat /\ spec \subseteq Number
        /\ next \in Links /\ previous \in Links
        /\ list \in spec /\ \E i \in 1 .. N : q[i] = list
        /\ \A k \in 1 .. N : q[k] \in spec
    BY <1>1, PlaceOf
  <1>3. PICK i \in 1 .. N : q[i] = list
    BY <1>2
  <1>4. i \in Nat /\ 1 \in 1 .. i /\ 1 \in 1 .. N /\ i + 1 - i = 1
    BY <1>2
  <1>5. GetFirst(list) = q[1]
    <2>. DEFINE b == Backwards(q, i)
    <2>1. Follow(previous, list) = Backwards(q, i)
      BY <1>1, <1>3, FollowedBothWays
    <2>2. b \in [1 .. i -> Number] /\ b[i] = q[i + 1 - i]
      <3>1. \A k \in 1 .. i : i + 1 - k \in 1 .. N
        BY <1>2, <1>3
      <3>2. \A k \in 1 .. i : q[i + 1 - k] \in Number
        BY <1>2, <3>1
      <3>3. i \in 1 .. i
        BY <1>4
      <3>. QED  BY <3>2, <3>3 DEF Backwards
    <2>. HIDE DEF b
    <2>3. Len(b) = i
      BY <1>4, <2>2, FunctionIsSeq
    <2>4. Last(b) = q[1]
      BY <1>4, <2>2, <2>3 DEF Last
    <2>. QED  BY <2>1, <2>4 DEF GetFirst, b
  <1>6. Follow(next, q[1]) = q
    <2>1. Follow(next, q[1]) = Onwards(q, 1, N)
      BY <1>1, <1>4, FollowedBothWays
    <2>2. q = [k \in 1 .. N |-> q[k]]
      BY <1>1 DEF Linked
    <2>3. N + 1 - 1 = N /\ \A k \in 1 .. N : 1 - 1 + k = k
      BY <1>2
    <2>4. Onwards(q, 1, N) = q
      BY <2>2, <2>3 DEF Onwards
    <2>. QED  BY <2>1, <2>4
  <1>. DEFINE s == ListSort(q)
  <1>7. /\ next' = LinkOne(s, next, 1)
        /\ previous' = LinkOne(s, previous, -1)
        /\ list' = Head(s)
    BY <1>5, <1>6 DEF dllist_sort, LinkBack
  <1>8. q \in Seq(Number) /\ Len(q) = N /\ Holds(q, spec) /\ N = Cardinality(spec)
    BY <1>1, LinkedCounts
  <1>9. q \in Seq(Nat) /\ spec \in SUBSET Nat
    BY <1>2, <1>8, NumberTyped, SeqMonotonic
  <1>10. s \in Seq(Nat) /\ Holds(s, spec) /\ Ascending(s)
    BY <1>8, <1>9, ListSortIs
  <1>. HIDE DEF s
  <1>11. Len(s) = N
    BY <1>8, <1>9, <1>10, HoldsCounts
  <1>12. /\ \A k \in 1 .. N : s[k] \in spec
         /\ \A k, m \in 1 .. N : s[k] = s[m] => k = m
         /\ \A x \in spec : \E k \in 1 .. N : s[k] = x
    BY <1>10, <1>11 DEF Holds
  <1>13. s \in [1 .. N -> spec]
    <2>1. DOMAIN s = 1 .. N /\ s = [k \in 1 .. N |-> s[k]]
      BY <1>10, <1>11, LenProperties
    <2>. QED  BY <1>12, <2>1
  <1>14. s \in Seq(Number)
    <2>1. s \in [1 .. N -> Number]
      BY <1>2, <1>13
    <2>. QED  BY <1>2, <2>1, FunctionIsSeq
  <1>15. s # << >> /\ Head(s) = s[1]
    <2>1. s # << >>
      BY <1>4, <1>11, <1>2
    <2>. QED  BY <1>10, <2>1, HeadTailProperties
  <1>. DEFINE onward == LinkOne(s, next, 1)
              backward == LinkOne(s, previous, -1)
  <1>16. Distinct(s, N)
    BY <1>2, <1>11, <1>12, <1>14 DEF Distinct
  <1>17. /\ next' \in Links
         /\ \A k \in 1 .. N : next'[s[k]] = IF k + 1 \in 1 .. N THEN s[k + 1] ELSE Null
    <2>1. /\ onward \in Links
          /\ \A k \in 1 .. N : onward[s[k]] = IF k + 1 \in 1 .. N THEN s[k + 1] ELSE Null
      <3>. DEFINE d == 1
                  new == LinkOne(s, next, d)
      <3>1. d \in Int
        OBVIOUS
      <3>. HIDE DEF d
      <3>2. new \in Links /\ \A k \in 1 .. N : new[s[k]] = IF k + d \in 1 .. N THEN s[k + d] ELSE Null
        <4>1. next \in Links
          BY <1>2
        <4>. HIDE DEF s
        <4>. QED  BY <1>16, <3>1, <4>1, LinkOneIs
      <3>3. new = onward
        BY DEF d
      <3>. HIDE DEF new, onward
      <3>. QED  BY <3>2, <3>3 DEF d
    <2>. HIDE DEF onward
    <2>2. next' = onward
      BY <1>7 DEF onward
    <2>. QED  BY <2>1, <2>2
  <1>18. /\ previous' \in Links
         /\ \A k \in 1 .. N : previous'[s[k]] = IF k + -1 \in 1 .. N THEN s[k + -1] ELSE Null
    <2>1. /\ backward \in Links
          /\ \A k \in 1 .. N : backward[s[k]] = IF k + -1 \in 1 .. N THEN s[k + -1] ELSE Null
      BY <1>2, <1>16, LinkOneIs
    <2>. HIDE DEF backward
    <2>2. previous' = backward
      BY <1>7 DEF backward
    <2>. QED  BY <2>1, <2>2
  <1>19. Linked(s, N, spec, next', previous')
    <2>1. ASSUME NEW k \in 1 .. N
          PROVE  /\ k < N => next'[s[k]] = s[k + 1]
                 /\ k = N => next'[s[k]] = Null
                 /\ 1 < k => previous'[s[k]] = s[k - 1]
                 /\ k = 1 => previous'[s[k]] = Null
      <3>1. (k < N <=> k + 1 \in 1 .. N) /\ (1 < k <=> k - 1 \in 1 .. N) /\ k + -1 = k - 1
            /\ (k = N => ~ (k < N)) /\ (k = 1 => ~ (1 < k))
        BY <1>2
      <3>2. previous'[s[k]] = IF k - 1 \in 1 .. N THEN s[k - 1] ELSE Null
        BY <1>18, <3>1
      <3>. QED  BY <1>17, <3>1, <3>2
    <2>. QED  BY <1>2, <1>12, <1>13, <2>1 DEF Linked
  <1>. QED  BY <1>7, <1>10, <1>11, <1>14, <1>15, <1>17, <1>18, <1>19

LEMMA SortStep ==
  ASSUME DlOK, dllist_sort
  PROVE  DlOK'
  <1>1. uses' = uses /\ spec' = spec
    BY DEF dllist_sort, specVars, othersFrame
  <1>2. CASE list = Null
    <2>1. list' = list /\ next' = next /\ previous' = previous
      BY <1>2 DEF dllist_sort, listVars
    <2>. QED  BY <1>1, <2>1 DEF DlOK
  <1>3. CASE list # Null
    <2>1. PICK s \in Seq(Number) : /\ s # << >> /\ Ascending(s) /\ list' = s[1]
                                   /\ next' \in Links /\ previous' \in Links
                                   /\ Linked(s, Len(s), spec, next', previous')
      BY <1>3, SortLinks
    <2>2. s[1] \in spec
      <3>1. 1 \in 1 .. Len(s)
        BY <2>1, LenProperties, EmptySeq
      <3>. QED  BY <2>1, <3>1 DEF Linked
    <2>3. IF spec' = {} THEN list' = Null ELSE list' \in spec'
      BY <1>1, <2>1, <2>2
    <2>4. \E f, N : Linked(f, N, spec', next', previous')
      BY <1>1, <2>1
    <2>. QED  BY <1>1, <2>1, <2>3, <2>4 DEF DlOK
  <1>. QED  BY <1>2, <1>3

LEMMA SortAscends ==
  ASSUME DlOK, dllist_sort, spec # {}
  PROVE  /\ list' = Min(spec)
         /\ \A n \in spec : next'[n] # Null => n < next'[n]
  <1>1. list # Null
    <2>1. list \in spec
      BY DEF DlOK
    <2>2. PICK f, N : Linked(f, N, spec, next, previous)
      BY DEF DlOK
    <2>3. spec \subseteq Number
      BY <2>2 DEF Linked
    <2>. QED  BY <2>1, <2>3, NumberTyped
  <1>2. PICK s \in Seq(Number) : /\ s # << >> /\ Ascending(s) /\ list' = s[1]
                                 /\ next' \in Links /\ previous' \in Links
                                 /\ Linked(s, Len(s), spec, next', previous')
    BY <1>1, SortLinks
  <1>. DEFINE N == Len(s)
  <1>3. /\ N \in Nat /\ 1 \in 1 .. N /\ spec \subseteq Number
        /\ \A k \in 1 .. N : s[k] \in spec
        /\ \A x \in spec : \E k \in 1 .. N : s[k] = x
        /\ \A k \in 1 .. N : /\ k < N => next'[s[k]] = s[k + 1]
                             /\ k = N => next'[s[k]] = Null
        /\ \A x, y \in 1 .. N : x < y => s[x] < s[y]
    <2>1. N \in Nat /\ 1 \in 1 .. N
      BY <1>2, LenProperties, EmptySeq
    <2>2. /\ spec \subseteq Number
          /\ \A k \in 1 .. N : s[k] \in spec
          /\ \A x \in spec : \E k \in 1 .. N : s[k] = x
          /\ \A k \in 1 .. N : /\ k < N => next'[s[k]] = s[k + 1]
                               /\ k = N => next'[s[k]] = Null
      BY <1>2 DEF Linked
    <2>3. \A x, y \in 1 .. N : x < y => s[x] < s[y]
      BY <1>2 DEF Ascending
    <2>. QED  BY <2>1, <2>2, <2>3
  <1>4. spec \subseteq Nat
    BY <1>3, NumberTyped
  <1>. HIDE DEF N
  <1>5. s[1] \in spec /\ \A y \in spec : s[1] <= y
    <2>1. ASSUME NEW y \in spec PROVE s[1] <= y
      <3>1. PICK k \in 1 .. N : s[k] = y
        BY <1>3
      <3>2. k = 1 \/ 1 < k
        BY <1>3
      <3>. DEFINE a == s[1]
      <3>3. a = y \/ a < y
        BY <1>3, <3>1, <3>2
      <3>4. a \in Nat /\ y \in Nat
        BY <1>3, <1>4
      <3>. HIDE DEF a
      <3>5. a <= y
        BY <3>3, <3>4
      <3>. QED  BY <3>5 DEF a
    <2>. QED  BY <1>3, <2>1
  <1>6. Min(spec) \in spec /\ \A y \in spec : Min(spec) <= y
    BY <1>4, LeastIsMin
  <1>7. s[1] = Min(spec)
    <2>. DEFINE a == s[1]
                b == Min(spec)
    <2>1. a \in Nat /\ b \in Nat /\ a <= b /\ b <= a
      BY <1>4, <1>5, <1>6
    <2>. HIDE DEF a, b
    <2>2. a = b
      BY <2>1
    <2>. QED  BY <2>2 DEF a, b
  <1>8. ASSUME NEW n \in spec, next'[n] # Null PROVE n < next'[n]
    <2>1. PICK k \in 1 .. N : s[k] = n
      BY <1>3
    <2>2. k < N
      BY <1>3, <1>8, <2>1
    <2>3. k + 1 \in 1 .. N /\ k < k + 1
      BY <1>3, <2>2
    <2>. QED  BY <1>3, <2>1, <2>2, <2>3
  <1>. QED  BY <1>2, <1>7, <1>8

-----------------------------------------------------------------------------

LEMMA DlInit ==
  ASSUME ArraysInitial("dllist"), ListInitial
  PROVE  DlOK
  <1>1. uses = "dllist" /\ spec = {} /\ list = Null
    BY DEF ArraysInitial, ListInitial
  <1>2. next \in Links /\ previous \in Links
    BY DEF ListInitial, Links
  <1>3. Linked(<< >>, 0, {}, next, previous)
    <2>1. << >> \in [1 .. 0 -> {}]
      OBVIOUS
    <2>. QED  BY <2>1 DEF Linked
  <1>. QED  BY <1>1, <1>2, <1>3 DEF DlOK

LEMMA DlStep ==
  ASSUME DlOK, [DlListNext]_dlVars
  PROVE  DlOK'
  <1>1. CASE dllist_sort
    BY <1>1, SortStep
  <1>2. CASE dllist_reverse
    BY <1>2, ReverseStep
  <1>3. CASE \E n \in Number : dllist_add(n)
    BY <1>3, AddStep
  <1>4. CASE \E n \in Number : dllist_add_after(n)
    BY <1>4, AddAfterStep
  <1>5. CASE \E n \in Number : dllist_delete_if_member(n)
    BY <1>5, DeleteStep
  <1>6. CASE UNCHANGED dlVars
    <2>1. uses' = uses /\ spec' = spec /\ list' = list /\ next' = next /\ previous' = previous
      BY <1>6 DEF dlVars, arraysVars, listVars, specVars
    <2>. QED  BY <2>1 DEF DlOK
  <1>. QED  BY <1>1, <1>2, <1>3, <1>4, <1>5, <1>6 DEF DlListNext

LEMMA DlAlways == DlListSpec => []DlOK
  <1>1. ArraysInitial("dllist") /\ ListInitial => DlOK
    BY DlInit
  <1>2. DlOK /\ [DlListNext]_dlVars => DlOK'
    BY DlStep
  <1>. QED  BY <1>1, <1>2, PTL DEF DlListSpec

\* SGLIB_DL_LIST: whatever is added before or after the list pointer, deleted,
\* reversed or sorted, the links of the list agree in both directions and lead
\* from the list pointer to the members and to nothing else.
THEOREM LinksStayWhole == DlListSpec => []DlListLinked
  <1>1. DlOK => DlListLinked
    BY LinkedByOK
  <1>. QED  BY <1>1, DlAlways, PTL

\* SGLIB_LIST_SORT: the list begins with its least element and ascends.
THEOREM ListSortSorts == DlListSpec => DlListSorted
  <1>1. DlOK => [dllist_sort /\ spec # {} =>
                   /\ list' = Min(spec)
                   /\ \A n \in spec : next'[n] # Null => n < next'[n]]_dlVars
    BY SortAscends
  <1>. QED  BY <1>1, DlAlways, PTL DEF DlListSorted

-----------------------------------------------------------------------------
(* Crc32: words and their shifts.                                          *)

LEMMA PowerGrows ==
  ASSUME NEW n \in Nat
  PROVE  2^n \in Nat /\ 2^n >= 1 /\ 2^(n + 8) >= 256
  <1>. DEFINE T == {k \in Nat : ~ (2^k >= 1)}
  <1>1. 2^0 = 1
    <2>1. Cardinality(SUBSET {}) = 2^Cardinality({}) /\ Cardinality({}) = 0
      BY FS_SUBSET, FS_EmptySet
    <2>2. SUBSET {} = {{}} /\ Cardinality({{}}) = 1
      BY FS_Singleton
    <2>. QED  BY <2>1, <2>2
  <1>2. T = {}
    <2>. SUFFICES ASSUME T # {} PROVE FALSE
      OBVIOUS
    <2>0. T \subseteq Nat
      OBVIOUS
    <2>1. PICK k \in T : \A y \in T : k <= y
      BY <2>0, Least
    <2>2. k \in Nat /\ ~ (2^k >= 1) /\ k # 0
      <3>1. k \in Nat /\ ~ (2^k >= 1)
        BY <2>1
      <3>2. k # 0
        <4>1. ASSUME k = 0 PROVE FALSE
          <5>1. 2^k = 1
            BY <1>1, <4>1, Zenon
          <5>2. 1 >= 1
            OBVIOUS
          <5>. QED  BY <3>1, <5>1, <5>2, Zenon
        <4>. QED  BY <4>1
      <3>. QED  BY <3>1, <3>2
    <2>3. k - 1 \in Nat /\ k - 1 \notin T
      BY <2>1, <2>2
    <2>. DEFINE j == k - 1
                w == 2^j
    <2>4. w \in Nat /\ w >= 1 /\ 2^(j + 1) = 2 * w /\ j + 1 = k
      BY <2>2, <2>3, PowerDoubles
    <2>. HIDE DEF w, j
    <2>5. 2^k = 2 * w
      BY <2>4
    <2>6. 2 * w >= 1
      BY <2>4
    <2>. QED  BY <2>2, <2>5, <2>6
  <1>3. \A k \in Nat : 2^k \in Nat /\ 2^k >= 1 /\ 2^(k + 1) = 2 * 2^k
    BY <1>2, PowerDoubles
  <1>. DEFINE P(k) == 2^(n + k)
  <1>4. P(0) \in Nat /\ P(0) >= 1 /\ 2^n = P(0)
    BY <1>3
  <1>5. \A k \in 0 .. 7 : n + k \in Nat /\ (n + k) + 1 = n + (k + 1)
    OBVIOUS
  <1>6. ASSUME NEW k \in 0 .. 7 PROVE P(k + 1) = 2 * P(k) /\ P(k) \in Nat
    BY <1>3, <1>5
  <1>7. P(8) = 2^(n + 8)
    OBVIOUS
  <1>. HIDE DEF P
  <1>8. /\ P(1) = 2 * P(0) /\ P(2) = 2 * P(1) /\ P(3) = 2 * P(2) /\ P(4) = 2 * P(3)
        /\ P(5) = 2 * P(4) /\ P(6) = 2 * P(5) /\ P(7) = 2 * P(6) /\ P(8) = 2 * P(7)
    <2>1. /\ P(0 + 1) = 2 * P(0) /\ P(1 + 1) = 2 * P(1) /\ P(2 + 1) = 2 * P(2)
          /\ P(3 + 1) = 2 * P(3) /\ P(4 + 1) = 2 * P(4) /\ P(5 + 1) = 2 * P(5)
          /\ P(6 + 1) = 2 * P(6) /\ P(7 + 1) = 2 * P(7)
      BY <1>6
    <2>. QED  BY <2>1
  <1>9. P(8) >= 256
    BY <1>4, <1>8
  <1>. QED  BY <1>4, <1>7, <1>9

\* A number below 256 has no bit above the seventh.
LEMMA OctetOfNat ==
  ASSUME NEW n \in 0 .. 255
  PROVE  Long!FromNat(n) \subseteq 0 .. 7
  <1>1. ASSUME NEW i \in Long!FromNat(n), ~ (i \in 0 .. 7) PROVE FALSE
    <2>1. i \in 8 .. 30 /\ (n \div 2^i) % 2 = 1
      BY <1>1 DEF Long!FromNat, Long!Bit
    <2>. DEFINE j == i - 8
                w == 2^i
    <2>2. j \in Nat /\ j + 8 = i
      BY <2>1
    <2>3. w \in Nat /\ w >= 256
      <3>. HIDE DEF j
      <3>1. 2^(j + 8) >= 256
        BY <2>2, PowerGrows
      <3>2. 2^i \in Nat
        BY <2>1, PowerGrows
      <3>. QED  BY <2>2, <3>1, <3>2
    <2>4. (n \div w) % 2 = 1
      BY <2>1
    <2>. HIDE DEF w
    <2>5. n \div w = 0
      BY <2>3
    <2>. QED  BY <2>4, <2>5
  <1>. QED  BY <1>1

LEMMA ShiftedTyped ==
  ASSUME NEW x \in SUBSET Long!Bit
  PROVE  Shifted(x) \in SUBSET Long!Bit
  <1>1. Polynomial \subseteq Long!Bit
    BY DEF Polynomial, Long!Bit
  <1>. QED  BY <1>1 DEF Shifted, Long!Xor, Long!ShiftR

LEMMA XorIs ==
  ASSUME NEW x, NEW y, NEW i
  PROVE  i \in Long!Xor(x, y) <=> ((i \in x) # (i \in y))
  BY DEF Long!Xor

\* Shifting is linear.
LEMMA ShiftRXor ==
  ASSUME NEW x \in SUBSET Long!Bit, NEW y \in SUBSET Long!Bit, NEW n \in Nat
  PROVE  Long!ShiftR(Long!Xor(x, y), n) = Long!Xor(Long!ShiftR(x, n), Long!ShiftR(y, n))
  BY DEF Long!ShiftR, Long!Xor

LEMMA ShiftedXor ==
  ASSUME NEW x \in SUBSET Long!Bit, NEW y \in SUBSET Long!Bit
  PROVE  Shifted(Long!Xor(x, y)) = Long!Xor(Shifted(x), Shifted(y))
  <1>. DEFINE sx == Long!ShiftR(x, 1)
              sy == Long!ShiftR(y, 1)
              s == Long!ShiftR(Long!Xor(x, y), 1)
  <1>1. s = Long!Xor(sx, sy)
    BY ShiftRXor
  <1>2. 0 \in Long!Xor(x, y) <=> ((0 \in x) # (0 \in y))
    BY DEF Long!Xor
  <1>3. /\ Shifted(x) = IF 0 \in x THEN Long!Xor(sx, Polynomial) ELSE sx
        /\ Shifted(y) = IF 0 \in y THEN Long!Xor(sy, Polynomial) ELSE sy
        /\ Shifted(Long!Xor(x, y)) = IF 0 \in Long!Xor(x, y) THEN Long!Xor(s, Polynomial) ELSE s
    BY DEF Shifted
  <1>. HIDE DEF sx, sy, s
  <1>4. CASE 0 \in x /\ 0 \in y
    BY <1>1, <1>2, <1>3, <1>4 DEF Long!Xor
  <1>5. CASE 0 \in x /\ 0 \notin y
    BY <1>1, <1>2, <1>3, <1>5 DEF Long!Xor
  <1>6. CASE 0 \notin x /\ 0 \in y
    BY <1>1, <1>2, <1>3, <1>6 DEF Long!Xor
  <1>7. CASE 0 \notin x /\ 0 \notin y
    BY <1>1, <1>2, <1>3, <1>7 DEF Long!Xor
  <1>. QED  BY <1>4, <1>5, <1>6, <1>7

LEMMA OctetXor ==
  ASSUME NEW x \in SUBSET Long!Bit, NEW y \in SUBSET Long!Bit
  PROVE  ShiftedByOctet(Long!Xor(x, y)) = Long!Xor(ShiftedByOctet(x), ShiftedByOctet(y))
  <1>. DEFINE x1 == Shifted(x)   y1 == Shifted(y)
              x2 == Shifted(x1)  y2 == Shifted(y1)
              x3 == Shifted(x2)  y3 == Shifted(y2)
              x4 == Shifted(x3)  y4 == Shifted(y3)
              x5 == Shifted(x4)  y5 == Shifted(y4)
              x6 == Shifted(x5)  y6 == Shifted(y5)
              x7 == Shifted(x6)  y7 == Shifted(y6)
  <1>1. x1 \in SUBSET Long!Bit /\ y1 \in SUBSET Long!Bit /\ Shifted(Long!Xor(x, y)) = Long!Xor(x1, y1)
    BY ShiftedTyped, ShiftedXor
  <1>. HIDE DEF x1, y1
  <1>2. x2 \in SUBSET Long!Bit /\ y2 \in SUBSET Long!Bit /\ Shifted(Long!Xor(x1, y1)) = Long!Xor(x2, y2)
    BY <1>1, ShiftedTyped, ShiftedXor
  <1>. HIDE DEF x2, y2
  <1>3. x3 \in SUBSET Long!Bit /\ y3 \in SUBSET Long!Bit /\ Shifted(Long!Xor(x2, y2)) = Long!Xor(x3, y3)
    BY <1>2, ShiftedTyped, ShiftedXor
  <1>. HIDE DEF x3, y3
  <1>4. x4 \in SUBSET Long!Bit /\ y4 \in SUBSET Long!Bit /\ Shifted(Long!Xor(x3, y3)) = Long!Xor(x4, y4)
    BY <1>3, ShiftedTyped, ShiftedXor
  <1>. HIDE DEF x4, y4
  <1>5. x5 \in SUBSET Long!Bit /\ y5 \in SUBSET Long!Bit /\ Shifted(Long!Xor(x4, y4)) = Long!Xor(x5, y5)
    BY <1>4, ShiftedTyped, ShiftedXor
  <1>. HIDE DEF x5, y5
  <1>6. x6 \in SUBSET Long!Bit /\ y6 \in SUBSET Long!Bit /\ Shifted(Long!Xor(x5, y5)) = Long!Xor(x6, y6)
    BY <1>5, ShiftedTyped, ShiftedXor
  <1>. HIDE DEF x6, y6
  <1>7. x7 \in SUBSET Long!Bit /\ y7 \in SUBSET Long!Bit /\ Shifted(Long!Xor(x6, y6)) = Long!Xor(x7, y7)
    BY <1>6, ShiftedTyped, ShiftedXor
  <1>. HIDE DEF x7, y7
  <1>8. Shifted(Long!Xor(x7, y7)) = Long!Xor(Shifted(x7), Shifted(y7))
    BY <1>7, ShiftedXor
  <1>9. ShiftedByOctet(Long!Xor(x, y)) = Shifted(Long!Xor(x7, y7))
    BY <1>1, <1>2, <1>3, <1>4, <1>5, <1>6, <1>7 DEF ShiftedByOctet
  <1>10. ShiftedByOctet(x) = Shifted(x7) /\ ShiftedByOctet(y) = Shifted(y7)
    BY DEF ShiftedByOctet, x1, x2, x3, x4, x5, x6, x7, y1, y2, y3, y4, y5, y6, y7
  <1>. QED  BY <1>8, <1>9, <1>10

\* A word without low bits is shifted out of them.
LEMMA ShiftedHigh ==
  ASSUME NEW x \in SUBSET Long!Bit, NEW n \in 0 .. 7, \A i \in x : i >= 8
  PROVE  Shifted(Long!ShiftR(x, n)) = Long!ShiftR(x, n + 1)
  <1>1. 0 \notin Long!ShiftR(x, n)
    BY DEF Long!ShiftR
  <1>2. Long!ShiftR(Long!ShiftR(x, n), 1) = Long!ShiftR(x, n + 1)
    BY DEF Long!ShiftR, Long!Bit
  <1>. QED  BY <1>1, <1>2 DEF Shifted

LEMMA OctetHigh ==
  ASSUME NEW x \in SUBSET Long!Bit, \A i \in x : i >= 8
  PROVE  ShiftedByOctet(x) = Long!ShiftR(x, 8)
  <1>. DEFINE R(n) == Long!ShiftR(x, n)
  <1>1. R(0) = x
    <2>1. \A i \in Long!Bit : i + 0 = i
      BY DEF Long!Bit
    <2>. QED  BY <2>1 DEF Long!ShiftR
  <1>2. \A n \in 0 .. 7 : Shifted(R(n)) = R(n + 1)
    BY ShiftedHigh
  <1>. HIDE DEF R
  <1>3. /\ Shifted(R(0)) = R(0 + 1) /\ Shifted(R(1)) = R(1 + 1) /\ Shifted(R(2)) = R(2 + 1)
        /\ Shifted(R(3)) = R(3 + 1) /\ Shifted(R(4)) = R(4 + 1) /\ Shifted(R(5)) = R(5 + 1)
        /\ Shifted(R(6)) = R(6 + 1) /\ Shifted(R(7)) = R(7 + 1)
    BY <1>2
  <1>4. ShiftedByOctet(x) = R(8)
    BY <1>1, <1>3 DEF ShiftedByOctet
  <1>. QED  BY <1>4 DEF R

\* One look-up is eight shifts.
LEMMA LookUpIsShifts ==
  ASSUME NEW crc \in SUBSET Long!Bit, NEW octet \in SUBSET (0 .. 7)
  PROVE  /\ UPDC32(octet, crc) = ShiftedByOctet(Long!Xor(crc, octet))
         /\ UPDC32(octet, crc) \in SUBSET Long!Bit
  <1>. DEFINE w == Long!Xor(crc, octet)
              low == w \cap (0 .. 7)
              high == w \ (0 .. 7)
  <1>1. 0 .. 7 \subseteq Long!Bit
    BY DEF Long!Bit
  <1>2. /\ w \in SUBSET Long!Bit /\ low \in SUBSET Long!Bit /\ high \in SUBSET Long!Bit
        /\ w = Long!Xor(low, high)
    BY <1>1 DEF Long!Xor
  <1>3. \A i \in high : i >= 8
    BY <1>2 DEF Long!Bit
  <1>4. Long!ShiftR(high, 8) = Long!ShiftR(crc, 8)
    <2>1. ASSUME NEW i \in Long!Bit PROVE i + 8 \in high <=> i + 8 \in crc
      BY DEF Long!Xor, Long!Bit
    <2>. HIDE DEF high
    <2>. QED  BY <2>1 DEF Long!ShiftR
  <1>5. UPDC32(octet, crc) = Long!Xor(ShiftedByOctet(low), Long!ShiftR(crc, 8))
    BY DEF UPDC32, crc_32_tab
  <1>. HIDE DEF w, low, high
  <1>6. ShiftedByOctet(w) = Long!Xor(ShiftedByOctet(low), ShiftedByOctet(high))
    BY <1>2, OctetXor
  <1>7. ShiftedByOctet(high) = Long!ShiftR(high, 8)
    BY <1>2, <1>3, OctetHigh
  <1>8. ShiftedByOctet(w) \in SUBSET Long!Bit
    BY <1>2, ShiftedTyped DEF ShiftedByOctet
  <1>. QED  BY <1>4, <1>5, <1>6, <1>7, <1>8 DEF w

CrcOK ==
  /\ oldcrc32 = serial /\ oldcrc32 \in SUBSET Long!Bit
  /\ seed \in [low : Nat, high : Nat]

LEMMA RandomTyped ==
  ASSUME NEW s \in [low : Nat, high : Nat]
  PROVE  rand_beebs(s) \in [low : Nat, high : Nat]
  <1>. DEFINE P == 2^16
              Q == 2^15
              l == s.low * 20077 + 12345
              h == s.high * 20077 + ((s.low * 16838) % Q) + (l \div P)
  <1>1. P \in Nat /\ P >= 1 /\ Q \in Nat /\ Q >= 1
    BY PowerGrows
  <1>2. rand_beebs(s) = [low |-> l % P, high |-> h % Q]
    BY DEF rand_beebs
  <1>3. s.low \in Nat /\ s.high \in Nat
    OBVIOUS
  <1>. HIDE DEF P, Q
  <1>4. l \in Nat /\ (s.low * 16838) % Q \in Nat
    BY <1>1, <1>3
  <1>. HIDE DEF l
  <1>5. l \div P \in Nat /\ l % P \in Nat
    BY <1>1, <1>4
  <1>6. h \in Nat
    BY <1>3, <1>4, <1>5
  <1>. HIDE DEF h
  <1>7. h % Q \in Nat
    BY <1>1, <1>6
  <1>. QED  BY <1>2, <1>5, <1>7

\* Looking up eight bits in the table gives the same sum as shifting bit by bit,
\* whatever the seed gave before and however many octets there are (UPDC32,
\* crc_32.c:216).
THEOREM TableSumsSerially == CrcSpec => []TableIsSerial
  <1>1. CrcInit => CrcOK
    BY DEF CrcInit, CrcOK, Long!Bit
  <1>2. ASSUME CrcOK, [crc32pseudo]_crcVars PROVE CrcOK'
    <2>1. CASE crc32pseudo
      <3>. DEFINE random == rand_beebs(seed)
                  h == random.high % 256
                  octet == Long!FromNat(h)
      <3>1. random \in [low : Nat, high : Nat]
        BY <1>2, RandomTyped DEF CrcOK
      <3>2. h \in 0 .. 255
        BY <3>1
      <3>3. /\ seed' = random /\ oldcrc32' = UPDC32(octet, oldcrc32)
            /\ serial' = ShiftedByOctet(Long!Xor(serial, octet))
        BY <2>1 DEF crc32pseudo
      <3>. HIDE DEF random, h
      <3>4. octet \in SUBSET (0 .. 7)
        BY <3>2, OctetOfNat
      <3>. HIDE DEF octet
      <3>5. /\ UPDC32(octet, oldcrc32) = ShiftedByOctet(Long!Xor(oldcrc32, octet))
            /\ UPDC32(octet, oldcrc32) \in SUBSET Long!Bit
        BY <1>2, <3>4, LookUpIsShifts DEF CrcOK
      <3>. QED  BY <1>2, <3>1, <3>3, <3>5 DEF CrcOK
    <2>2. CASE UNCHANGED crcVars
      BY <1>2, <2>2 DEF CrcOK, crcVars
    <2>. QED  BY <1>2, <2>1, <2>2
  <1>3. CrcOK => TableIsSerial
    BY DEF CrcOK, TableIsSerial
  <1>. QED  BY <1>1, <1>2, <1>3, PTL DEF CrcSpec
=============================================================================
