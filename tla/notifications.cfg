SPECIFICATION FairSpec
CONSTANTS
  Events = {1, 2}
  Instances <- HookOrMails
  Workers = {w1, w2}
  MaxAttempts = 2
INVARIANTS
  OneMessageUnlessLost
  MailsAreSpaced
PROPERTIES
  DeliveriesEnd
CHECK_DEADLOCK FALSE
