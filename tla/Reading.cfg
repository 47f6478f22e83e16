SPECIFICATION ReadingSpec
CONSTANTS
  None = None
  o1 = o1
  o2 = o2
  o3 = o3
  small = small
  large = large
  h1 = h1
  h2 = h2
  c1 = c1
  c2 = c2
  Handles = {h1, h2}
  MaxCommits = 3
  MaxViews = 3
INVARIANTS
  HandlesAgree
  ReplayIsSound
  PublishersVerified
  MarksAreEarned
  CheckpointsCoverKnown
PROPERTIES
  OpenSucceeds
  CursorCompletes
CHECK_DEADLOCK FALSE
