SPECIFICATION MailsSpec
CONSTANTS
  MaxLetters = 2
  MaxAborts = 1
INVARIANT SplitsAreSilent
CHECK_DEADLOCK FALSE
