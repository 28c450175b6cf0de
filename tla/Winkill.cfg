\* One pid, used twice; two winkill.exe at a time and the Tcl extension.
CONSTANTS
  Pids = {p1}
  Users = {u1, u2}
  MaxStarts = 2
  MaxSends = 2
  MaxInterps = 2
SPECIFICATION FairSpec
INVARIANTS TypeOK NothingUnasked NoMoreInterruptsThanSends LostOnlyInRace CacheIsCurrent
PROPERTY BitsAreTaken
CHECK_DEADLOCK FALSE
