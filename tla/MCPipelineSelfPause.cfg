\* A question whose answer is echoed.
SPECIFICATION Spec
CONSTANTS
  t1 = t1  t2 = t2  t3 = t3  t4 = t4
  None = None
  Task <- MCTask
  Kind <- TwoQuestions
  HumanReply = {}
  Photos = 0
  Pause = 2
  Cooldown = 2
  Echoes = TRUE
  MaxRunning = 1
  MaxTime = 1
  MaxLost = 0
  MaxToggles = 0
  MaxCrashes = 0
\* The chat comes to rest when its tasks and replies are done and the clock is used up.
CHECK_DEADLOCK FALSE
INVARIANTS
  OnlyPeoplePause
