\* Three pages, two per click; a stamp, a failure or a crash, and a late sync, at
\* any point; the button is clicked for ever.
SPECIFICATION FairSpec
CONSTANTS
  None = None
  Pages = 3
  PagesPerClick = 2
  Lock = 1
  Click = {c1}
  Writer = {w1}
  Sync = {s1, s2}
  MaxMarks = 1
  MaxFailures = 1
  MaxLate = 1
INVARIANTS
  TypeOK
  CursorCovers
PROPERTIES
  LockFrees
  EveryPagePulled
