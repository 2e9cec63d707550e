------------------------- MODULE SyringePumpProofs -------------------------
(***************************************************************************)
(* Theorems about SyringePump, for every input that the harness may feed,  *)
(* every size of its buffer and every menu of volumes. What the loops of   *)
(* readSerial and toUInt compute follows by induction over the natural     *)
(* numbers, in the form of a lemma about sets of numbers.                  *)
(***************************************************************************)
EXTENDS SyringePump, SequenceTheorems, WellFoundedInduction, TLAPS

-----------------------------------------------------------------------------
(* Induction.                                                              *)

LEMMA Least ==
  ASSUME NEW T, T \subseteq Nat, T # {}
  PROVE  \E x \in T : \A y \in T : x <= y
  <1>. DEFINE R == {ss \in Nat \X Nat : ss[1] < ss[2]}
  <1>1. IsWellFoundedOn(R, Nat)
    BY NatLessThanWellFounded, Zenon DEF OpToRel
  <1>2. ASSUME NEW x \in Nat, NEW y \in Nat, x < y
        PROVE  <<x, y>> \in R
    <2>. DEFINE pair == <<x, y>>
    <2>1. pair[1] = x /\ pair[2] = y /\ pair \in Nat \X Nat
      OBVIOUS
    <2>. HIDE DEF pair
    <2>2. pair \in R
      BY <1>2, <2>1
    <2>. QED  BY <2>2 DEF pair
  <1>. HIDE DEF R
  <1>3. \E x \in T : \A y \in T : ~ (<<y, x>> \in R)
    BY <1>1, WFMin, Zenon
  <1>4. PICK x \in T : \A y \in T : ~ (<<y, x>> \in R)
    BY <1>3
  <1>5. ASSUME NEW y \in T PROVE x <= y
    <2>1. ~ (y < x)
      BY <1>2, <1>4
    <2>. QED  BY <2>1
  <1>. QED  BY <1>5

LEMMA Induction ==
  ASSUME NEW S, S \subseteq Nat, 0 \in S, \A n \in S : n + 1 \in S
  PROVE  S = Nat
  <1>1. SUFFICES ASSUME Nat \ S # {} PROVE FALSE
    OBVIOUS
  <1>2. PICK x \in Nat \ S : \A y \in Nat \ S : x <= y
    BY <1>1, Least
  <1>3. x # 0 /\ x - 1 \in Nat
    BY <1>2
  <1>. QED  BY <1>2, <1>3

\* The loop that makes the step G[n, result] for each n in 1 .. N.
Loop(f, v0, N, G) ==
  f[0] = v0 /\ \A n \in 1 .. N : f[n] = G[<<n, f[n - 1]>>]

\* A loop has a result, at each of its steps.
LEMMA LoopRuns ==
  ASSUME NEW N \in Nat, NEW V, NEW v0 \in V, NEW G \in [(1 .. N) \X V -> V]
  PROVE  \E f \in [0 .. N -> V] : Loop(f, v0, N, G)
  <1>. DEFINE S == {m \in Nat : m <= N => \E f \in [0 .. m -> V] : Loop(f, v0, m, G)}
  <1>1. 0 \in S
    <2>1. [i \in 0 .. 0 |-> v0] \in [0 .. 0 -> V] /\ Loop([i \in 0 .. 0 |-> v0], v0, 0, G)
      BY DEF Loop
    <2>. QED  BY <2>1
  <1>2. ASSUME NEW m \in S PROVE m + 1 \in S
    <2>1. SUFFICES ASSUME m + 1 <= N
                   PROVE  \E f \in [0 .. m + 1 -> V] : Loop(f, v0, m + 1, G)
      OBVIOUS
    <2>2. PICK f \in [0 .. m -> V] : Loop(f, v0, m, G)
      BY <1>2, <2>1
    <2>. DEFINE last == G[<<m + 1, f[m]>>]
                g == [i \in 0 .. m + 1 |-> IF i <= m THEN f[i] ELSE last]
    <2>3. last \in V
      <3>1. f[m] \in V /\ m + 1 \in 1 .. N
        BY <2>1
      <3>. QED  BY <3>1
    <2>4. g \in [0 .. m + 1 -> V]
      BY <2>3
    <2>5. \A i \in 0 .. m : g[i] = f[i]
      OBVIOUS
    <2>6. g[m + 1] = last
      OBVIOUS
    <2>. HIDE DEF g
    <2>7. ASSUME NEW n \in 1 .. m + 1 PROVE g[n] = G[<<n, g[n - 1]>>]
      <3>1. CASE n <= m
        <4>1. n \in 0 .. m /\ n - 1 \in 0 .. m /\ n \in 1 .. m
          BY <3>1
        <4>2. g[n] = f[n] /\ g[n - 1] = f[n - 1]
          BY <2>5, <4>1
        <4>3. f[n] = G[<<n, f[n - 1]>>]
          BY <2>2, <4>1 DEF Loop
        <4>. QED  BY <4>2, <4>3
      <3>2. CASE n = m + 1
        <4>1. g[m] = f[m] /\ n - 1 = m
          BY <2>5, <3>2
        <4>2. g[n] = G[<<n, f[m]>>]
          BY <2>6, <3>2
        <4>. QED  BY <4>1, <4>2
      <3>. QED  BY <3>1, <3>2
    <2>8. g[0] = v0
      BY <2>2, <2>5 DEF Loop
    <2>. QED  BY <2>4, <2>7, <2>8 DEF Loop
  <1>3. S = Nat
    <2>. HIDE DEF S
    <2>. QED  BY <1>1, <1>2, Induction DEF S
  <1>. QED  BY <1>3

\* It has only one.
LEMMA LoopIsUnique ==
  ASSUME NEW N \in Nat, NEW v0, NEW G, NEW f, NEW g,
         Loop(f, v0, N, G), Loop(g, v0, N, G)
  PROVE  \A n \in 0 .. N : f[n] = g[n]
  <1>. DEFINE S == {m \in Nat : m <= N => f[m] = g[m]}
  <1>1. 0 \in S
    BY DEF Loop
  <1>2. ASSUME NEW m \in S PROVE m + 1 \in S
    <2>1. SUFFICES ASSUME m + 1 <= N PROVE f[m + 1] = g[m + 1]
      OBVIOUS
    <2>2. f[m] = g[m] /\ m + 1 \in 1 .. N /\ (m + 1) - 1 = m
      BY <2>1
    <2>. QED  BY <2>2 DEF Loop
  <1>3. S = Nat
    <2>. HIDE DEF S
    <2>. QED  BY <1>1, <1>2, Induction DEF S
  <1>. QED  BY <1>3

-----------------------------------------------------------------------------
(* readSerial and toUInt.                                                  *)

\* What is kept of a sequence of characters is one.
LEMMA PrintableTyped ==
  ASSUME NEW chars \in Seq(Int)
  PROVE  Printable(chars) \in Seq(Int)
  <1>. DEFINE N == Len(chars)
              V == Seq(Int)
              Body(r) == [n \in 0 .. N |->
                            IF n = 0 THEN << >>
                            ELSE IF chars[n] >= SPACE THEN Append(r[n - 1], chars[n]) ELSE r[n - 1]]
              read == CHOOSE r : r = Body(r)
              G == [p \in (1 .. N) \X V |->
                      IF chars[p[1]] >= SPACE THEN Append(p[2], chars[p[1]]) ELSE p[2]]
  <1>1. N \in Nat /\ \A n \in 1 .. N : chars[n] \in Int
    BY LenProperties, ElementOfSeq
  <1>2. \A n \in 1 .. N : \A v \in V : Append(v, chars[n]) \in V
    BY <1>1, AppendProperties
  <1>3. ASSUME NEW n \in 1 .. N, NEW v \in V
        PROVE  /\ G[<<n, v>>] \in V
               /\ G[<<n, v>>] = IF chars[n] >= SPACE THEN Append(v, chars[n]) ELSE v
    BY <1>2
  <1>4. G \in [(1 .. N) \X V -> V]
    BY <1>2
  <1>5. PICK f \in [0 .. N -> V] : Loop(f, << >>, N, G)
    <2>. HIDE DEF N, V, G
    <2>1. << >> \in V
      BY DEF V
    <2>. QED  BY <1>1, <1>4, <2>1, LoopRuns
  <1>6. f = Body(f)
    <2>1. ASSUME NEW n \in 1 .. N PROVE f[n] = Body(f)[n]
      <3>1. n \in 0 .. N /\ n - 1 \in 0 .. N /\ n # 0
        BY <1>1
      <3>2. f[n] = G[<<n, f[n - 1]>>] /\ f[n - 1] \in V
        BY <1>5, <3>1 DEF Loop
      <3>3. f[n] = IF chars[n] >= SPACE THEN Append(f[n - 1], chars[n]) ELSE f[n - 1]
        BY <1>3, <3>2
      <3>. QED  BY <3>1, <3>3
    <2>2. f[0] = Body(f)[0] /\ 0 \in 0 .. N
      BY <1>1, <1>5 DEF Loop
    <2>3. \A n \in 0 .. N : f[n] = Body(f)[n]
      <3>1. \A n \in 0 .. N : n = 0 \/ n \in 1 .. N
        BY <1>1
      <3>. HIDE DEF Body, N
      <3>. QED  BY <2>1, <2>2, <3>1
    <2>4. f = [n \in 0 .. N |-> f[n]]
      BY <1>5
    <2>5. Body(f) = [n \in 0 .. N |-> Body(f)[n]]
      OBVIOUS
    <2>. HIDE DEF Body
    <2>. QED  BY <2>3, <2>4, <2>5
  <1>7. read = Body(read)
    <2>. HIDE DEF Body
    <2>. QED  BY <1>6, Zenon
  <1>8. Printable(chars) = read[N]
    BY DEF Printable
  <1>. HIDE DEF read, G
  <1>. DEFINE S == {m \in Nat : m <= N => read[m] \in V}
  <1>9. 0 \in S
    <2>1. read[0] = Body(read)[0]
      <3>. HIDE DEF Body
      <3>. QED  BY <1>7
    <2>2. read[0] = << >>
      BY <1>1, <2>1
    <2>3. << >> \in V
      OBVIOUS
    <2>. HIDE DEF V
    <2>. QED  BY <2>2, <2>3
  <1>10. ASSUME NEW m \in S PROVE m + 1 \in S
    <2>1. SUFFICES ASSUME m + 1 <= N PROVE read[m + 1] \in V
      OBVIOUS
    <2>2. read[m] \in V /\ m + 1 \in 1 .. N /\ (m + 1) - 1 = m /\ m + 1 \in 0 .. N
      BY <1>1, <2>1
    <2>3. read[m + 1] = Body(read)[m + 1]
      <3>. HIDE DEF Body
      <3>. QED  BY <1>7
    <2>4. read[m + 1] = IF chars[m + 1] >= SPACE THEN Append(read[m], chars[m + 1]) ELSE read[m]
      BY <2>2, <2>3
    <2>. QED  BY <1>2, <2>2, <2>4
  <1>11. S = Nat
    <2>. HIDE DEF S
    <2>. QED  BY <1>9, <1>10, Induction DEF S
  <1>. QED  BY <1>1, <1>8, <1>11

\* What toUInt does with one digit.
DigitStep(input, len) == [p \in (1 .. len) \X Nat |-> 10 * p[2] + (input[p[1]] - 48)]

\* A number is what its digits give, one after the other.
LEMMA NumberOfDigits ==
  ASSUME NEW input, NEW len \in Nat, \A i \in 1 .. len : IsDigit(input[i])
  PROVE  \E f \in [0 .. len -> Nat] :
           Loop(f, 0, len, DigitStep(input, len)) /\ toUInt(input, len) = f[len]
  <1>. DEFINE Body(r) == [n \in 0 .. len |->
                            IF n = 0 THEN 0 ELSE 10 * r[n - 1] + (input[n] - 48)]
              result == CHOOSE r : r = Body(r)
              G == DigitStep(input, len)
  <1>1. \A n \in 1 .. len : \A v \in Nat : 10 * v + (input[n] - 48) \in Nat
    BY DEF IsDigit
  <1>2. ASSUME NEW n \in 1 .. len, NEW v \in Nat
        PROVE  G[<<n, v>>] = 10 * v + (input[n] - 48)
    BY DEF DigitStep
  <1>3. G \in [(1 .. len) \X Nat -> Nat]
    BY <1>1 DEF DigitStep
  <1>4. PICK f \in [0 .. len -> Nat] : Loop(f, 0, len, G)
    <2>. HIDE DEF G
    <2>. QED  BY <1>3, LoopRuns
  <1>. HIDE DEF G
  <1>5. f = Body(f)
    <2>1. ASSUME NEW n \in 1 .. len PROVE f[n] = Body(f)[n]
      <3>1. n \in 0 .. len /\ n - 1 \in 0 .. len /\ n # 0
        OBVIOUS
      <3>2. f[n] = G[<<n, f[n - 1]>>] /\ f[n - 1] \in Nat
        BY <1>4, <3>1 DEF Loop
      <3>3. f[n] = 10 * f[n - 1] + (input[n] - 48)
        BY <1>2, <3>2
      <3>. QED  BY <3>1, <3>3
    <2>2. f[0] = Body(f)[0]
      BY <1>4 DEF Loop
    <2>3. \A n \in 0 .. len : f[n] = Body(f)[n]
      <3>1. \A n \in 0 .. len : n = 0 \/ n \in 1 .. len
        OBVIOUS
      <3>. HIDE DEF Body
      <3>. QED  BY <2>1, <2>2, <3>1
    <2>4. f = [n \in 0 .. len |-> f[n]]
      BY <1>4
    <2>5. Body(f) = [n \in 0 .. len |-> Body(f)[n]]
      OBVIOUS
    <2>. HIDE DEF Body
    <2>. QED  BY <2>3, <2>4, <2>5
  <1>6. result = Body(result)
    <2>. HIDE DEF Body
    <2>. QED  BY <1>5, Zenon
  <1>7. toUInt(input, len) = result[len]
    BY DEF toUInt
  <1>. HIDE DEF result
  <1>. DEFINE S == {m \in Nat : m <= len => result[m] = f[m]}
  <1>8. 0 \in S
    <2>1. result[0] = Body(result)[0]
      <3>. HIDE DEF Body
      <3>. QED  BY <1>6
    <2>2. result[0] = 0 /\ f[0] = 0
      BY <1>4, <2>1 DEF Loop
    <2>. QED  BY <2>2
  <1>9. ASSUME NEW m \in S PROVE m + 1 \in S
    <2>1. SUFFICES ASSUME m + 1 <= len PROVE result[m + 1] = f[m + 1]
      OBVIOUS
    <2>2. result[m] = f[m] /\ m + 1 \in 1 .. len /\ (m + 1) - 1 = m /\ m + 1 \in 0 .. len
      BY <2>1
    <2>3. result[m + 1] = Body(result)[m + 1] /\ f[m + 1] = Body(f)[m + 1]
      <3>. HIDE DEF Body
      <3>. QED  BY <1>5, <1>6
    <2>4. Body(result)[m + 1] = Body(f)[m + 1]
      BY <2>2
    <2>. QED  BY <2>3, <2>4
  <1>10. S = Nat
    <2>. HIDE DEF S
    <2>. QED  BY <1>8, <1>9, Induction DEF S
  <1>11. result[len] = f[len]
    BY <1>10
  <1>. QED  BY <1>4, <1>7, <1>11 DEF G

LEMMA NumberTyped ==
  ASSUME NEW input, NEW len \in Nat
  PROVE  toUInt(input, len) \in Nat
  <1>1. CASE \A i \in 1 .. len : IsDigit(input[i])
    <2>1. len \in 0 .. len
      OBVIOUS
    <2>. QED  BY <1>1, <2>1, NumberOfDigits
  <1>2. CASE ~ \A i \in 1 .. len : IsDigit(input[i])
    BY <1>2 DEF toUInt
  <1>. QED  BY <1>1, <1>2

\* The number depends on the characters of the line alone.
LEMMA SameNumber ==
  ASSUME NEW a, NEW b, NEW len \in Nat, \A i \in 1 .. len : a[i] = b[i]
  PROVE  toUInt(a, len) = toUInt(b, len)
  <1>1. CASE \A i \in 1 .. len : IsDigit(a[i])
    <2>1. \A i \in 1 .. len : IsDigit(b[i])
      BY <1>1
    <2>2. DigitStep(a, len) = DigitStep(b, len)
      BY DEF DigitStep
    <2>3. PICK f \in [0 .. len -> Nat] :
            Loop(f, 0, len, DigitStep(a, len)) /\ toUInt(a, len) = f[len]
      BY <1>1, NumberOfDigits
    <2>4. PICK g \in [0 .. len -> Nat] :
            Loop(g, 0, len, DigitStep(b, len)) /\ toUInt(b, len) = g[len]
      BY <2>1, NumberOfDigits
    <2>5. \A n \in 0 .. len : f[n] = g[n]
      BY <2>2, <2>3, <2>4, LoopIsUnique
    <2>. QED  BY <2>3, <2>4, <2>5
  <1>2. CASE ~ \A i \in 1 .. len : IsDigit(a[i])
    <2>1. ~ \A i \in 1 .. len : IsDigit(b[i])
      BY <1>2
    <2>. QED  BY <1>2, <2>1 DEF toUInt
  <1>. QED  BY <1>1, <1>2

-----------------------------------------------------------------------------
(* The volume in use.                                                      *)

VolumesOK ==
  /\ mLBolus \in Nat /\ plunger \in Int /\ lowest \in Int
  /\ mLBolusStepIdx \in DOMAIN mLBolusSteps
  /\ lowest <= plunger
  /\ UsedSinceLowest

LEMMA StepTyped ==
  ASSUME mLBolusStepIdx \in DOMAIN mLBolusSteps
  PROVE  /\ StepAt(mLBolusStepIdx) \in Nat
         /\ Len(mLBolusSteps) \in Nat /\ mLBolusStepIdx \in 1 .. Len(mLBolusSteps)
         /\ DOMAIN mLBolusSteps = 1 .. Len(mLBolusSteps)
  BY PumpAssumption, ElementOfSeq, LenProperties DEF StepAt

\* The motor pulls past zero where the display does not.
LEMMA BolusKeepsVolumes ==
  ASSUME VolumesOK, NEW direction, NEW amount \in Nat, Bolus(direction, amount)
  PROVE  /\ plunger' \in Int /\ lowest' \in Int /\ lowest' <= plunger'
         /\ UsedSinceLowest'
  BY DEF VolumesOK, UsedSinceLowest, Bolus, UsedAfterPull, Lesser

LEMMA KeyKeepsVolumes ==
  ASSUME VolumesOK, NEW key, doKeyAction(key)
  PROVE  VolumesOK'
  <1>1. StepAt(mLBolusStepIdx) \in Nat /\ mLBolus \in Nat
    BY StepTyped DEF VolumesOK
  <1>2. CASE key = "SELECT"
    BY <1>2 DEF doKeyAction, InMain, InMenu, VolumesOK, UsedSinceLowest, volumes
  <1>3. CASE InMain(key)
    <2>1. CASE \E direction \in {"PULL", "PUSH"} : Bolus(direction, mLBolus) /\ UNCHANGED mLBolus
      BY <1>1, <1>3, <2>1, BolusKeepsVolumes DEF InMain, menu, VolumesOK
    <2>2. CASE /\ key = "UP" \/ key = "DOWN"
               /\ UNCHANGED <<mLUsed, plunger, lowest>>
      BY <1>1, <1>3, <2>2 DEF InMain, menu, VolumesOK, UsedSinceLowest
    <2>. QED  BY <1>3, <2>1, <2>2 DEF InMain
  <1>4. CASE InMenu(key)
    <2>1. mLBolusStepIdx' \in DOMAIN mLBolusSteps
      BY <1>4, StepTyped DEF InMenu, Lesser, VolumesOK
    <2>. QED  BY <1>4, <2>1 DEF InMenu, volumes, VolumesOK, UsedSinceLowest
  <1>. QED  BY <1>2, <1>3, <1>4 DEF doKeyAction

LEMMA VolumesStep ==
  ASSUME VolumesOK, serialStrLen \in Nat, [PumpNext]_pumpVars
  PROVE  VolumesOK'
  <1>1. ASSUME NEW cmd \in Lines, process_command(cmd) PROVE VolumesOK'
    BY <1>1 DEF process_command, volumes, menu, VolumesOK, UsedSinceLowest
  <1>2. ASSUME NEW voltage, readKey(voltage) PROVE VolumesOK'
    <2>1. CASE doKeyAction(get_key(voltage))
      BY <2>1, KeyKeepsVolumes
    <2>2. CASE UNCHANGED <<volumes, menu>>
      BY <2>2 DEF volumes, menu, VolumesOK, UsedSinceLowest
    <2>. QED  BY <1>2, <2>1, <2>2 DEF readKey
  <1>3. ASSUME NEW amount \in Nat, Bolus("PUSH", amount), UNCHANGED <<mLBolus, menu>>
        PROVE  VolumesOK'
    BY <1>3, BolusKeepsVolumes DEF menu, VolumesOK
  <1>4. ASSUME NEW level, checkTrigger(level) \/ checkBigTrigger(level) PROVE VolumesOK'
    <2>1. mLBolus \in Nat /\ mLBigBolus \in Nat
      BY PumpAssumption DEF VolumesOK
    <2>2. CASE UNCHANGED <<volumes, menu>>
      BY <2>2 DEF volumes, menu, VolumesOK, UsedSinceLowest
    <2>. QED  BY <1>3, <1>4, <2>1, <2>2 DEF checkTrigger, checkBigTrigger
  <1>5. CASE readSerial
    BY <1>5 DEF readSerial, volumes, menu, VolumesOK, UsedSinceLowest
  <1>6. CASE processSerial
    <2>1. toUInt(serialStr, serialStrLen) \in Nat /\ mLBolus \in Nat
      BY NumberTyped DEF VolumesOK
    <2>2. CASE \E direction \in {"PULL", "PUSH"} : Bolus(direction, mLBolus) /\ UNCHANGED mLBolus
      BY <1>6, <2>1, <2>2, BolusKeepsVolumes DEF processSerial, menu, VolumesOK
    <2>3. CASE /\ mLBolus' \in Nat
               /\ UNCHANGED <<mLUsed, plunger, lowest>>
      BY <1>6, <2>3 DEF processSerial, menu, VolumesOK, UsedSinceLowest
    <2>. QED  BY <1>6, <2>1, <2>2, <2>3 DEF processSerial
  <1>7. CASE Return \/ UNCHANGED pumpVars
    BY <1>7 DEF Return, pumpVars, volumes, menu, VolumesOK, UsedSinceLowest
  <1>. QED  BY <1>1, <1>2, <1>4, <1>5, <1>6, <1>7 DEF PumpNext

-----------------------------------------------------------------------------
(* The serial line.                                                        *)

\* serialStr begins with the characters of the line; without any, its first
\* character is that of the last line that had one.
SerialOK ==
  /\ serial_buf \in Seq(Int) /\ line \in Seq(Int) /\ lastLine \in Seq(Int)
  /\ serialStr \in [1 .. LineSize -> Int]
  /\ serialStrLen = Len(line) /\ serialStrLen <= LineSize
  /\ pc \in {"readKey", "checkTrigger", "checkBigTrigger", "readSerial"} =>
       serialStrLen + Len(Printable(serial_buf)) <= LineSize
  /\ \A i \in 1 .. serialStrLen : serialStr[i] = line[i]
  /\ line = << >> => serialStr[1] = FirstOf(lastLine)

LEMMA CommandKeepsLine ==
  ASSUME SerialOK, NEW cmd \in Lines, process_command(cmd)
  PROVE  SerialOK'
  <1>1. cmd \in Seq(Int)
    BY PumpAssumption
  <1>2. /\ serial_buf' = cmd /\ serialStrLen + Len(Printable(cmd)) <= LineSize
        /\ UNCHANGED <<serialStr, serialStrLen, line, lastLine>>
    BY DEF process_command
  <1>3. Len(Printable(serial_buf))' = Len(Printable(cmd))
    BY <1>2
  <1>. QED  BY <1>1, <1>2, <1>3 DEF SerialOK

LEMMA OthersKeepLine ==
  ASSUME SerialOK, UNCHANGED serial,
         pc' \in {"checkTrigger", "checkBigTrigger", "readSerial"}
           => pc \in {"readKey", "checkTrigger", "checkBigTrigger"},
         pc' # "readKey" \/ UNCHANGED pc
  PROVE  SerialOK'
  <1>1. UNCHANGED <<serial_buf, serialStr, serialStrLen, line, lastLine>>
    BY DEF serial
  <1>2. Len(Printable(serial_buf))' = Len(Printable(serial_buf))
    BY <1>1
  <1>3. SerialOK => SerialOK'
    BY <1>1, <1>2 DEF SerialOK
  <1>. QED  BY <1>3

LEMMA ReadKeepsLine ==
  ASSUME SerialOK, readSerial
  PROVE  SerialOK'
  <1>. DEFINE text == Printable(serial_buf)
  <1>1. text \in Seq(Int)
    BY PrintableTyped DEF SerialOK
  <1>. HIDE DEF text
  <1>2. /\ serialStr' = [i \in 1 .. LineSize |->
                           IF i - serialStrLen \in DOMAIN text THEN text[i - serialStrLen]
                           ELSE serialStr[i]]
        /\ serialStrLen' = serialStrLen + Len(text)
        /\ line' = line \o text /\ serial_buf' = << >> /\ UNCHANGED lastLine
        /\ pc' \in {"processSerial", "process_command"}
        /\ serialStrLen + Len(text) <= LineSize
    BY DEF readSerial, SerialOK, text
  <1>3. /\ Len(text) \in Nat /\ DOMAIN text = 1 .. Len(text)
        /\ \A i \in 1 .. Len(text) : text[i] \in Int
    BY <1>1, LenProperties, ElementOfSeq
  <1>4. /\ line' \in Seq(Int) /\ Len(line') = Len(line) + Len(text)
        /\ \A i \in 1 .. Len(line) + Len(text) :
             line'[i] = IF i <= Len(line) THEN line[i] ELSE text[i - Len(line)]
    BY <1>1, <1>2, ConcatProperties DEF SerialOK
  <1>5. Len(line) \in Nat /\ serialStrLen = Len(line) /\ serialStr \in [1 .. LineSize -> Int]
        /\ LineSize \in Nat
    BY LenProperties, PumpAssumption DEF SerialOK
  <1>6. serialStr' \in [1 .. LineSize -> Int]
    BY <1>2, <1>3, <1>5
  <1>7. serialStrLen' = Len(line') /\ serialStrLen' <= LineSize
    BY <1>2, <1>4, <1>5
  <1>8. ASSUME NEW i \in 1 .. serialStrLen' PROVE serialStr'[i] = line'[i]
    <2>1. i \in 1 .. LineSize /\ i \in 1 .. Len(line) + Len(text)
      BY <1>2, <1>5, <1>7
    <2>2. CASE i <= Len(line)
      <3>1. i - serialStrLen \notin DOMAIN text
        BY <1>3, <1>5, <2>2
      <3>2. serialStr[i] = line[i]
        BY <1>5, <2>1, <2>2 DEF SerialOK
      <3>. QED  BY <1>2, <1>4, <2>1, <2>2, <3>1, <3>2
    <2>3. CASE ~ i <= Len(line)
      <3>1. i - serialStrLen \in DOMAIN text
        BY <1>3, <1>5, <2>1, <2>3
      <3>. QED  BY <1>2, <1>4, <1>5, <2>1, <2>3, <3>1
    <2>. QED  BY <2>2, <2>3
  <1>9. line' = << >> => serialStr'[1] = FirstOf(lastLine)'
    <2>1. SUFFICES ASSUME line' = << >> PROVE serialStr'[1] = FirstOf(lastLine')
      BY DEF FirstOf
    <2>2. Len(line) = 0 /\ Len(text) = 0
      <3>1. Len(line') = 0
        BY <2>1
      <3>. QED  BY <1>3, <1>4, <1>5, <3>1
    <2>3. line = << >> /\ 1 \in 1 .. LineSize /\ DOMAIN text = {}
      <3>1. line = << >>
        BY <2>2, EmptySeq DEF SerialOK
      <3>. QED  BY <1>3, <2>2, <3>1, PumpAssumption
    <2>4. serialStr'[1] = serialStr[1]
      BY <1>2, <2>3
    <2>. QED  BY <1>2, <2>3, <2>4 DEF SerialOK, FirstOf
  <1>10. /\ serial_buf' \in Seq(Int) /\ lastLine' \in Seq(Int)
         /\ pc' \notin {"readKey", "checkTrigger", "checkBigTrigger", "readSerial"}
    BY <1>2, EmptySeq DEF SerialOK
  <1>11. /\ (\A i \in 1 .. serialStrLen : serialStr[i] = line[i])'
         /\ (line = << >> => serialStr[1] = FirstOf(lastLine))'
    BY <1>8, <1>9
  <1>. QED  BY <1>4, <1>6, <1>7, <1>10, <1>11 DEF SerialOK

LEMMA ProcessKeepsLine ==
  ASSUME SerialOK, processSerial
  PROVE  SerialOK'
  <1>1. /\ serialStrLen' = 0 /\ line' = << >> /\ pc' = "process_command"
        /\ lastLine' = IF line = << >> THEN lastLine ELSE line
        /\ UNCHANGED <<serial_buf, serialStr>>
    BY DEF processSerial, LineDone
  <1>2. lastLine' \in Seq(Int) /\ line' \in Seq(Int) /\ Len(line') = 0
    BY <1>1 DEF SerialOK
  <1>3. serialStr[1] = FirstOf(lastLine')
    <2>1. CASE line = << >>
      BY <1>1, <2>1 DEF SerialOK, FirstOf
    <2>2. CASE line # << >>
      <3>1. Len(line) \in Nat /\ Len(line) # 0
        BY <2>2, LenProperties, EmptySeq DEF SerialOK
      <3>2. serialStr[1] = line[1]
        BY <3>1 DEF SerialOK
      <3>. QED  BY <1>1, <2>2, <3>2 DEF FirstOf
    <2>. QED  BY <2>1, <2>2
  <1>. QED  BY <1>1, <1>2, <1>3, PumpAssumption DEF SerialOK, FirstOf

LEMMA SerialStep ==
  ASSUME SerialOK, [PumpNext]_pumpVars
  PROVE  SerialOK'
  <1>1. ASSUME NEW cmd \in Lines, process_command(cmd) PROVE SerialOK'
    BY <1>1, CommandKeepsLine
  <1>2. ASSUME NEW voltage, readKey(voltage) PROVE SerialOK'
    BY <1>2, OthersKeepLine DEF readKey
  <1>3. ASSUME NEW level, checkTrigger(level) \/ checkBigTrigger(level) PROVE SerialOK'
    BY <1>3, OthersKeepLine DEF checkTrigger, checkBigTrigger
  <1>4. CASE readSerial \/ processSerial
    BY <1>4, ReadKeepsLine, ProcessKeepsLine
  <1>5. CASE Return
    BY <1>5, OthersKeepLine DEF Return
  <1>6. CASE UNCHANGED pumpVars
    <2>1. UNCHANGED <<pc, serial>>
      BY <1>6 DEF pumpVars
    <2>2. UNCHANGED <<pc, serial_buf, serialStr, serialStrLen, line, lastLine>>
      BY <2>1 DEF serial
    <2>3. Len(Printable(serial_buf))' = Len(Printable(serial_buf))
      BY <2>2
    <2>. QED  BY <2>2, <2>3 DEF SerialOK
  <1>. QED  BY <1>1, <1>2, <1>3, <1>4, <1>5, <1>6 DEF PumpNext

\* What processSerial does is what its line says.
LEMMA LineDecides ==
  ASSUME SerialOK, processSerial
  PROVE  Obeys(line)
  <1>. DEFINE first == FirstOf(IF line = << >> THEN lastLine ELSE line)
              number == toUInt(line, Len(line))
  <1>1. serialStr[1] = first
    <2>1. CASE line = << >>
      BY <2>1 DEF SerialOK
    <2>2. CASE line # << >>
      <3>1. Len(line) \in Nat /\ Len(line) # 0
        BY <2>2, LenProperties, EmptySeq DEF SerialOK
      <3>2. serialStr[1] = line[1]
        BY <3>1 DEF SerialOK
      <3>. QED  BY <2>2, <3>2 DEF FirstOf
    <2>. QED  BY <2>1, <2>2
  <1>2. toUInt(serialStr, serialStrLen) = number
    <2>1. Len(line) \in Nat /\ serialStrLen = Len(line)
          /\ \A i \in 1 .. Len(line) : serialStr[i] = line[i]
      BY LenProperties DEF SerialOK
    <2>. QED  BY <2>1, SameNumber
  <1>. HIDE DEF first, number
  <1>3. \/ /\ first = PLUS /\ plunger' = plunger + mLBolus /\ mLBolus' = mLBolus
        \/ /\ first = MINUS /\ plunger' = plunger - mLBolus /\ mLBolus' = mLBolus
        \/ /\ first \notin {PLUS, MINUS} /\ plunger' = plunger
           /\ mLBolus' = IF number # 0 THEN number ELSE mLBolus
    BY <1>1, <1>2 DEF processSerial, Bolus
  <1>4. PLUS # MINUS
    BY DEF PLUS, MINUS
  <1>5. CASE first = PLUS
    <2>1. plunger' = plunger + mLBolus /\ mLBolus' = mLBolus
      BY <1>3, <1>4, <1>5
    <2>. QED  BY <1>4, <1>5, <2>1 DEF Obeys, first
  <1>6. CASE first = MINUS
    <2>1. plunger' = plunger - mLBolus /\ mLBolus' = mLBolus
      BY <1>3, <1>4, <1>6
    <2>. QED  BY <1>4, <1>6, <2>1 DEF Obeys, first
  <1>7. CASE first \notin {PLUS, MINUS}
    <2>1. plunger' = plunger /\ mLBolus' = IF number # 0 THEN number ELSE mLBolus
      BY <1>3, <1>7
    <2>. QED  BY <1>7, <2>1 DEF Obeys, first, number
  <1>. QED  BY <1>5, <1>6, <1>7

-----------------------------------------------------------------------------
(* The keypad.                                                             *)

\* The keypad is known to be released when the last call of readKey found no
\* key; time has passed since an action that no release has followed.
KeypadOK ==
  /\ sinceLastPress \in Nat /\ released \in BOOLEAN
  /\ prevKey = "NONE" => released
  /\ released \/ sinceLastPress >= 1

LEMMA KeypadStep ==
  ASSUME KeypadOK, [PumpNext]_pumpVars
  PROVE  KeypadOK'
  <1>1. ASSUME NEW voltage, readKey(voltage) PROVE KeypadOK'
    <2>1. keyRepeatDelay \in Nat
      BY PumpAssumption
    <2>2. \/ /\ prevKey' # "NONE" /\ sinceLastPress' = 1 /\ released' = FALSE
          \/ /\ sinceLastPress' = NextCall(sinceLastPress)
             /\ released' \in BOOLEAN /\ (prevKey' = "NONE" => released')
      <3>1. prevKey' = get_key(voltage)
        BY <1>1 DEF readKey
      <3>2. CASE ProcessThisKey(get_key(voltage))
        BY <1>1, <3>1, <3>2 DEF readKey, ProcessThisKey
      <3>3. CASE ~ProcessThisKey(get_key(voltage))
        <4>1. /\ released' = (released \/ get_key(voltage) = "NONE")
              /\ sinceLastPress' = NextCall(sinceLastPress)
          BY <1>1, <3>3 DEF readKey
        <4>. QED  BY <3>1, <4>1
      <3>. QED  BY <3>2, <3>3
    <2>3. NextCall(sinceLastPress) \in Nat /\ NextCall(sinceLastPress) >= 1
      BY <2>1 DEF NextCall, Lesser, KeypadOK
    <2>4. /\ sinceLastPress' \in Nat /\ sinceLastPress' >= 1 /\ released' \in BOOLEAN
          /\ prevKey' = "NONE" => released'
      <3>1. sinceLastPress' \in Nat /\ sinceLastPress' >= 1
        BY <2>2, <2>3
      <3>2. released' \in BOOLEAN /\ (prevKey' = "NONE" => released')
        BY <2>2
      <3>. QED  BY <3>1, <3>2
    <2>. QED  BY <2>4 DEF KeypadOK
  <1>2. CASE UNCHANGED keypad
    BY <1>2 DEF keypad, KeypadOK
  <1>. QED
    BY <1>1, <1>2 DEF PumpNext, process_command, checkTrigger, checkBigTrigger,
                      readSerial, processSerial, Return, pumpVars

\* What NoBounce asks of a step that acts.
ActsAgain ==
  (released /\ sinceLastPress > keyDebounce) \/ sinceLastPress > keyRepeatDelay

LEMMA NoBounceOnStep ==
  ASSUME KeypadOK, [PumpNext]_pumpVars, KeyActed
  PROVE  ActsAgain \/ UNCHANGED pumpVars
  <1>1. ASSUME NEW voltage, readKey(voltage) PROVE ActsAgain
    <2>1. keyRepeatDelay \in Nat
      BY PumpAssumption
    <2>2. CASE ProcessThisKey(get_key(voltage))
      BY <2>2 DEF ProcessThisKey, KeypadOK, ActsAgain
    <2>3. CASE ~ProcessThisKey(get_key(voltage))
      <3>1. released' = FALSE /\ sinceLastPress' = 1
        BY DEF KeyActed
      <3>2. /\ released' = (released \/ get_key(voltage) = "NONE")
            /\ sinceLastPress' = NextCall(sinceLastPress)
        BY <1>1, <2>3 DEF readKey
      <3>. QED  BY <2>1, <3>1, <3>2 DEF NextCall, Lesser, KeypadOK, ActsAgain
    <2>. QED  BY <2>2, <2>3
  <1>2. ASSUME pc # "readKey" PROVE FALSE
    BY <1>2 DEF KeyActed
  <1>. QED
    BY <1>1, <1>2 DEF PumpNext, process_command, checkTrigger, checkBigTrigger,
                      readSerial, processSerial, Return

-----------------------------------------------------------------------------

PumpInv == VolumesOK /\ SerialOK /\ KeypadOK

LEMMA PumpInvInit == PumpInit => PumpInv
  <1>. SUFFICES ASSUME PumpInit PROVE PumpInv
    OBVIOUS
  <1>1. VolumesOK
    BY PumpAssumption DEF PumpInit, VolumesOK, UsedSinceLowest
  <1>2. KeypadOK
    BY DEF PumpInit, KeypadOK
  <1>3. SerialOK
    BY EmptySeq, PumpAssumption DEF PumpInit, SerialOK, FirstOf
  <1>. QED  BY <1>1, <1>2, <1>3 DEF PumpInv

LEMMA PumpInvStep == PumpInv /\ [PumpNext]_pumpVars => PumpInv'
  <1>. SUFFICES ASSUME PumpInv, [PumpNext]_pumpVars PROVE PumpInv'
    OBVIOUS
  <1>1. VolumesOK /\ SerialOK /\ KeypadOK
    BY DEF PumpInv
  <1>2. serialStrLen \in Nat
    BY <1>1, LenProperties DEF SerialOK
  <1>. QED  BY <1>1, <1>2, VolumesStep, SerialStep, KeypadStep DEF PumpInv

\* mLUsed, which the display shows and bolus clamps at zero, is the volume that
\* was pushed since the plunger was at its lowest, whatever mixture of serial
\* lines, keys and triggers moves the pump.
THEOREM UsedIsSinceLowest == PumpSpec => []UsedSinceLowest
  <1>1. PumpInv => UsedSinceLowest
    BY DEF PumpInv, VolumesOK
  <1>. QED  BY <1>1, PumpInvInit, PumpInvStep, PTL DEF PumpSpec

\* processSerial acts on the characters of its own line, however readSerial
\* came by them and whatever earlier lines left behind in serialStr.
THEOREM LinesAreObeyed == PumpSpec => LineObeyed
  <1>1. PumpInv => (processSerial => Obeys(line))
    BY LineDecides DEF PumpInv
  <1>. QED  BY <1>1, PumpInvInit, PumpInvStep, PTL DEF PumpSpec, LineObeyed

\* readKey acts twice only on a key that was released in between, with keyDebounce
\* gone by, or held for longer than keyRepeatDelay.
THEOREM KeysDoNotBounce == PumpSpec => NoBounce
  <1>1. PumpInv /\ [PumpNext]_pumpVars =>
          [KeyActed => ActsAgain]_pumpVars
    BY NoBounceOnStep DEF PumpInv
  <1>. QED  BY <1>1, PumpInvInit, PumpInvStep, PTL DEF PumpSpec, NoBounce, ActsAgain

=============================================================================
