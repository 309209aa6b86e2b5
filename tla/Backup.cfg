SPECIFICATION FairSpec
CONSTANTS
  Nothing = Nothing
  MaxWrites = 2
  MaxFaults = 2
  MaxCrashes = 2
INVARIANTS
  RusticReadsThisRun
  CleanWhenDone
  PasswordsRemoved
PROPERTIES
  EveryWriteSaved
  LogSpec
