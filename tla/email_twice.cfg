SPECIFICATION Spec
CONSTANTS
  r1 = r1  r2 = r2
  Runner <- TwoRunners
  MaxEmails = 1
  MaxAttempts = 2
  BatchLimit = 1
  MaxMishaps = 0
INVARIANT RepeatsHaveAReason
CHECK_DEADLOCK FALSE
