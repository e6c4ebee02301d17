CONSTANTS
  Daemons = {"d1", "d2"}
  InvalidSlugs = {9}
  Scenes <- MCScenes
SPECIFICATION FairSpec
INVARIANTS
  PlanIsSound
  PresenceIsExact
  SessionIsSettled
PROPERTIES
  DirectoryIsShared
  GoneIsNoticed
