SPECIFICATION FairSpec
CONSTANTS
  CreditTypes <- MCCreditTypes
  NoCredit = 0
  LinePackets = 2
INVARIANTS TypeOK ControlAssertions RepeatIsCredited AcceptedOnce ProgressBarsRetry
PROPERTY TransactionCompletes
