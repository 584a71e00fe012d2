SPECIFICATION FairSpec
CONSTANT Unused = Unused
CHECK_DEADLOCK FALSE
INVARIANTS
  EndsAsItSays TerminalShowsWhatGoesOn
PROPERTIES
  StopsWhatRuns PassesOnTheExitCode
