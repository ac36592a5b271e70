SPECIFICATION FairSpec
CONSTANTS
  r1 = r1  r2 = r2
  Runner <- TwoRunners
  MaxEmails = 2
  MaxAttempts = 2
  BatchLimit = 1
  MaxMishaps = 1
INVARIANTS TypeOK SentWasDelivered CopiesAreAccounted ErrorMeansExhausted
PROPERTIES ImplementsOutbox QueueDrains
CHECK_DEADLOCK FALSE
