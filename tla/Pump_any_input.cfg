\* All keys, both triggers and every kind of line; a bolus of up to 3 units.
CONSTANTS
  Lines <- MCLines
  mLBolusSteps <- MCSteps
  KeyVoltages = {0, 100, 200, 400, 600, 999}
  PinLevels = {0, 1}
  FirstBolus = 1
  FirstStepIdx = 1
  mLBigBolus = 2
  keyRepeatDelay = 3
  keyDebounce = 2
  LineSize = 2
  MaxVolume = 1
SPECIFICATION PumpSpec
INVARIANTS
  UsedSinceLowest
PROPERTIES
  LineObeyed
  NoBounce
