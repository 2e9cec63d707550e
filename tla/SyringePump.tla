---------------------------- MODULE SyringePump ----------------------------
(***************************************************************************)
(* The case study that C-FLAT attests, test-applications/syringe: the main *)
(* loop of an open syringe pump with its keypad, its two triggers and its  *)
(* serial line, and the harness that feeds it a command per loop.          *)
(*                                                                         *)
(* Volumes are microlitres; the rounding of float is left out. Characters  *)
(* are their ASCII codes. The hardware stubs of the harness return one     *)
(* value each; here keypad and pins return any value the constants allow.  *)
(***************************************************************************)
EXTENDS Integers, Sequences

CONSTANTS
  Lines,           \* what the harness may feed, sequences of characters
  KeyVoltages,     \* what analogRead may return
  PinLevels,       \* what digitalRead may return: subset of {HIGH, LOW}
  mLBolusSteps,    \* the menu: a sequence of volumes, 9 in the code
  FirstBolus,      \* initial mLBolus, 500 in the code
  FirstStepIdx,    \* initial mLBolusStepIdx, counted from 1; 4 in the code
  mLBigBolus,
  keyRepeatDelay,
  keyDebounce,
  LineSize,        \* the array serialStr[LineSize]
  MaxVolume        \* bound of the model: plunger travel and size of a bolus

ASSUME PumpAssumption ==
  /\ Lines \subseteq Seq(Int)
  /\ mLBolusSteps \in Seq(Nat) /\ FirstStepIdx \in DOMAIN mLBolusSteps
  /\ {FirstBolus, mLBigBolus, MaxVolume, keyRepeatDelay, keyDebounce} \subseteq Nat
  /\ LineSize \in Nat \ {0}

VARIABLES
  pc,                                  \* the next function of run_one_loop
  mLBolus, mLUsed, mLBolusStepIdx, uiState,
  prevKey, sinceLastPress,             \* currentTime - lastKeyRepeatAt
  prevTrigger, prevBigTrigger,
  serial_buf, serialStr, serialStrLen, serialStrReady,
  plunger, lowest,                     \* for the properties: where the plunger is,
                                       \* and the farthest it was ever pulled back
  line, lastLine,                      \* for the properties: the characters since the
                                       \* last line, and the last one that was not empty
  released                             \* for the properties: no key since the last action

volumes == <<mLBolus, mLUsed, plunger, lowest>>
menu == <<mLBolusStepIdx, uiState>>
keypad == <<prevKey, sinceLastPress, released>>
triggers == <<prevTrigger, prevBigTrigger>>
serial == <<serial_buf, serialStr, serialStrLen, serialStrReady, line, lastLine>>
pumpVars == <<pc, volumes, menu, keypad, triggers, serial>>

HIGH == 0
LOW == 1
Keys == <<"RIGHT", "UP", "DOWN", "LEFT", "SELECT">>
adc_key_val == <<30, 150, 360, 535, 760>>
PLUS == 43
MINUS == 45
SPACE == 32
IsDigit(c) == c \in 48 .. 57

PumpInit ==
  /\ pc = "process_command"
  /\ mLBolus = FirstBolus /\ mLUsed = 0
  /\ plunger = 0 /\ lowest = 0
  /\ mLBolusStepIdx = FirstStepIdx /\ uiState = "MAIN"
  /\ prevKey = "NONE" /\ sinceLastPress = 0 /\ released = TRUE
  /\ prevTrigger = HIGH /\ prevBigTrigger = HIGH
  /\ serial_buf = << >>
  /\ serialStr = [i \in 1 .. LineSize |-> 0]
  /\ serialStrLen = 0 /\ serialStrReady = FALSE
  /\ line = << >> /\ lastLine = << >>

-----------------------------------------------------------------------------
(* The motor.                                                              *)

Lesser(a, b) == IF a < b THEN a ELSE b
UsedUnclamped(amount) == mLUsed - amount   \* mutant: pulling back below zero
UsedAfterPull(amount) == IF mLUsed - amount > 0 THEN mLUsed - amount ELSE 0

\* bolus: the motor makes as many steps in either direction, even where mLUsed
\* is clamped. The fraction of a step that a bolus loses is left out.
Bolus(direction, amount) ==
  /\ mLUsed' = IF direction = "PUSH" THEN mLUsed + amount ELSE UsedAfterPull(amount)
  /\ plunger' = IF direction = "PUSH" THEN plunger + amount ELSE plunger - amount
  /\ lowest' = Lesser(lowest, plunger')

-----------------------------------------------------------------------------
(* The keypad.                                                             *)

get_key(voltage) ==
  LET above == {k \in 1 .. 5 : voltage < adc_key_val[k]}
  IN IF above = {} THEN "NONE" ELSE Keys[CHOOSE k \in above : \A j \in above : k <= j]

RepeatsAtOnce(key) == key # "NONE" /\ sinceLastPress > keyDebounce   \* mutant
ProcessThisKey(key) ==
  /\ key # "NONE"
  /\ \/ prevKey = key /\ sinceLastPress > keyRepeatDelay
     \/ prevKey = "NONE" /\ sinceLastPress > keyDebounce

StepAt(idx) == mLBolusSteps[idx]

InMain(key) ==
  /\ UNCHANGED menu
  /\ \/ key = "LEFT" /\ Bolus("PULL", mLBolus) /\ UNCHANGED mLBolus
     \/ key = "RIGHT" /\ Bolus("PUSH", mLBolus) /\ UNCHANGED mLBolus
     \/ /\ key = "UP"
        /\ mLBolus' = mLBolus + StepAt(mLBolusStepIdx)
        /\ UNCHANGED <<mLUsed, plunger, lowest>>
     \/ /\ key = "DOWN"
        /\ mLBolus' = IF mLBolus > StepAt(mLBolusStepIdx)
                      THEN mLBolus - StepAt(mLBolusStepIdx) ELSE 0
        /\ UNCHANGED <<mLUsed, plunger, lowest>>

InMenu(key) ==
  /\ mLBolusStepIdx' = CASE key = "UP" -> Lesser(mLBolusStepIdx + 1, Len(mLBolusSteps))
                         [] key = "DOWN" -> IF mLBolusStepIdx > 1 THEN mLBolusStepIdx - 1 ELSE 1
                         [] OTHER -> mLBolusStepIdx
  /\ UNCHANGED <<uiState, volumes>>

\* SELECT changes the mode first; in the new mode SELECT itself does nothing.
doKeyAction(key) ==
  \/ /\ key = "SELECT"
     /\ uiState' = IF uiState = "MAIN" THEN "BOLUS_MENU" ELSE "MAIN"
     /\ UNCHANGED <<mLBolusStepIdx, volumes>>
  \/ key # "SELECT" /\ uiState = "MAIN" /\ InMain(key)
  \/ key # "SELECT" /\ uiState = "BOLUS_MENU" /\ InMenu(key)

\* millis() counts the calls of readKey; no comparison tells values beyond
\* keyRepeatDelay apart.
NextCall(since) == Lesser(since + 1, keyRepeatDelay + 1)

readKey(voltage) ==
  LET key == get_key(voltage) IN
  /\ pc = "readKey"
  /\ pc' = "checkTrigger"
  /\ prevKey' = key
  /\ IF ProcessThisKey(key)
     THEN doKeyAction(key) /\ sinceLastPress' = 1 /\ released' = FALSE
     ELSE /\ UNCHANGED <<volumes, menu>>
          /\ sinceLastPress' = NextCall(sinceLastPress)
          /\ released' = (released \/ key = "NONE")
  /\ UNCHANGED <<triggers, serial>>

-----------------------------------------------------------------------------
(* The triggers: checkTriggers reads one pin, then the other.              *)

checkTrigger(level) ==
  /\ pc = "checkTrigger"
  /\ pc' = "checkBigTrigger"
  /\ IF level = HIGH /\ prevTrigger = LOW
     THEN Bolus("PUSH", mLBolus) /\ UNCHANGED mLBolus
     ELSE UNCHANGED volumes
  /\ prevTrigger' = level
  /\ UNCHANGED <<prevBigTrigger, menu, keypad, serial>>

\* mLBolus is mLBigBolus during this bolus, and then what it was.
checkBigTrigger(level) ==
  /\ pc = "checkBigTrigger"
  /\ pc' = "readSerial"
  /\ IF level = HIGH /\ prevBigTrigger = LOW
     THEN Bolus("PUSH", mLBigBolus) /\ UNCHANGED mLBolus
     ELSE UNCHANGED volumes
  /\ prevBigTrigger' = level
  /\ UNCHANGED <<prevTrigger, menu, keypad, serial>>

-----------------------------------------------------------------------------
(* The serial line.                                                        *)

Printable(chars) ==
  LET read[n \in 0 .. Len(chars)] ==
        IF n = 0 THEN << >>
        ELSE IF chars[n] >= SPACE THEN Append(read[n - 1], chars[n]) ELSE read[n - 1]
  IN read[Len(chars)]

\* Everything that is available is read; control characters between commands
\* are dropped, so that two commands that arrive together become one line.
readSerial ==
  LET text == Printable(serial_buf) IN
  /\ pc = "readSerial"
  /\ serialStr' = [i \in 1 .. LineSize |->
                     IF i - serialStrLen \in DOMAIN text THEN text[i - serialStrLen]
                     ELSE serialStr[i]]
  /\ serialStrLen' = serialStrLen + Len(text)
  /\ serialStrReady' = (serialStrReady \/ text # serial_buf)
  /\ line' = line \o text
  /\ serial_buf' = << >>
  /\ pc' = IF serialStrReady' THEN "processSerial" ELSE "process_command"
  /\ UNCHANGED <<lastLine, volumes, menu, keypad, triggers>>

\* toUInt: 0 when any character is not a digit.
toUInt(input, len) ==
  LET result[n \in 0 .. len] ==
        IF n = 0 THEN 0 ELSE 10 * result[n - 1] + (input[n] - 48)
  IN IF \A i \in 1 .. len : IsDigit(input[i]) THEN result[len] ELSE 0

\* result is an int: ten digits in a row may overflow it, which is undefined.
\* Bound of the model: nine digits fit every int of 32 bits.
MaxDigits == 9
FitsInt(input, len) ==
  len > MaxDigits => \E i \in 1 .. MaxDigits + 1 : ~IsDigit(input[i])

LineKept == UNCHANGED serialStrLen   \* mutant: the line is not discarded
LineDone == serialStrLen' = 0

\* The characters themselves stay in serialStr, and the first one decides even
\* when the line is empty.
processSerial ==
  LET number == toUInt(serialStr, serialStrLen) IN
  /\ pc = "processSerial"
  /\ \/ serialStr[1] = PLUS /\ Bolus("PUSH", mLBolus) /\ UNCHANGED mLBolus
     \/ serialStr[1] = MINUS /\ Bolus("PULL", mLBolus) /\ UNCHANGED mLBolus
     \/ /\ serialStr[1] \notin {PLUS, MINUS}
        /\ FitsInt(serialStr, serialStrLen)
        /\ mLBolus' = IF number # 0 THEN number ELSE mLBolus
        /\ UNCHANGED <<mLUsed, plunger, lowest>>
  /\ serialStrReady' = FALSE
  /\ LineDone
  /\ line' = << >>
  /\ lastLine' = IF line = << >> THEN lastLine ELSE line
  /\ pc' = "process_command"
  /\ UNCHANGED <<serial_buf, serialStr, menu, keypad, triggers>>

\* feed_serial: the harness calls run_one_loop once for every command; the
\* attestation follows when the loop is over. readSerial writes to serialStr
\* without a look at its size: commands whose characters do not fit are
\* undefined behaviour, and left out. Volumes are bounded here, too.
process_command(cmd) ==
  /\ pc = "process_command"
  /\ serialStrLen + Len(Printable(cmd)) <= LineSize
  /\ plunger \in -MaxVolume .. MaxVolume /\ mLBolus <= MaxVolume
  /\ serial_buf' = cmd
  /\ pc' = "readKey"
  /\ UNCHANGED <<serialStr, serialStrLen, serialStrReady, line, lastLine,
                 volumes, menu, keypad, triggers>>

\* main ends after its last command.
Return ==
  /\ pc \in {"process_command", "returned"}
  /\ pc' = "returned"
  /\ UNCHANGED <<volumes, menu, keypad, triggers, serial>>

PumpNext ==
  \/ \E cmd \in Lines : process_command(cmd)
  \/ \E voltage \in KeyVoltages : readKey(voltage)
  \/ \E level \in PinLevels : checkTrigger(level) \/ checkBigTrigger(level)
  \/ readSerial \/ processSerial
  \/ Return

PumpSpec == PumpInit /\ [][PumpNext]_pumpVars

-----------------------------------------------------------------------------
(* Properties.                                                             *)

\* mLUsed, which is on display, is clamped at zero while the motor goes on
\* pulling (bolus). Whatever mixture of serial line, keys and triggers moves
\* the pump, mLUsed is the volume pushed since the plunger was at its lowest.
UsedSinceLowest == mLUsed = plunger - lowest

\* A line does what its own characters say, however it was split over reads and
\* whatever lines were in serialStr before; an empty line acts as the last line
\* that was not empty when that one was a bolus, and is invalid otherwise.
FirstOf(l) == IF l = << >> THEN 0 ELSE l[1]
Obeys(l) ==
  CASE FirstOf(IF l = << >> THEN lastLine ELSE l) = PLUS ->
         plunger' = plunger + mLBolus /\ mLBolus' = mLBolus
    [] FirstOf(IF l = << >> THEN lastLine ELSE l) = MINUS ->
         plunger' = plunger - mLBolus /\ mLBolus' = mLBolus
    [] OTHER ->
         plunger' = plunger /\ mLBolus' = IF toUInt(l, Len(l)) # 0 THEN toUInt(l, Len(l)) ELSE mLBolus

LineObeyed == [][processSerial => Obeys(line)]_pumpVars

\* Between two key actions the keypad was released and keyDebounce has passed, or
\* the key was held for longer than keyRepeatDelay: a contact that opens and closes
\* again makes no second action, and neither does sliding from one key to another,
\* which readKey does not see as a release.
KeyActed == pc = "readKey" /\ released' = FALSE /\ sinceLastPress' = 1
NoBounce ==
  [][KeyActed => \/ released /\ sinceLastPress > keyDebounce
                 \/ sinceLastPress > keyRepeatDelay]_pumpVars

=============================================================================
