SPECIFICATION FairSpec
CONSTANTS
  MaxOutages = 2
PROPERTY JoinsAgain
CHECK_DEADLOCK FALSE
