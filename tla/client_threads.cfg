CONSTANTS
  w1 = w1
  w2 = w2
  Worker <- Workers2
  Calls = 2
  Rounds = 2
  Interval = 2
  MaxAttempts = 3
  Backoff = 1
  MaxBackoff = 3
  RetryAfters <- AfterTwoOrFive
SPECIFICATION Spec
INVARIANTS TypeOK FailsOnlyExhausted
PROPERTIES ClientSpacing RoundsEnd
