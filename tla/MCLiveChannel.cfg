SPECIFICATION Spec
CONSTANTS
  t1 = t1
  t2 = t2
  s1 = s1
  s2 = s2
  None = None
  Tabs = {t1, t2}
  Subs = {s1, s2}
  TabOf <- MCTabOf
  EngineIds = {1, 2, 3, 4, 5}
  Kinds = {"replay", "compare", "token", "silent"}
  Ring = 1
  MaxVersion <- MCMaxVersion
  MaxOf <- MCMaxOf
  MaxFaults = 1
  MaxWire = 1
CHECK_DEADLOCK FALSE
CONSTRAINT DroppedFeedAlone
SYMMETRY Symmetry
INVARIANT SettledMeansTaken
INVARIANT SettledShowsState
INVARIANT EngineHoldsWhatIsWatched
PROPERTY FeedHasNoHiddenGap
