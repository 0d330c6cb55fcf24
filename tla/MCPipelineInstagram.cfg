\* Instagram: a photo and a question, echoes in any order, one person, the AI
\* setting, a lost answer and a crash.
SPECIFICATION Spec
CONSTANTS
  t1 = t1  t2 = t2  t3 = t3  t4 = t4
  None = None
  Task <- MCTask
  Kind <- PhotoAndQuestion
  HumanReply = {h1}
  Photos = 0
  Pause = 2
  Cooldown = 2
  Echoes = TRUE
  MaxRunning = 2
  MaxTime = 2
  MaxLost = 1
  MaxToggles = 1
  MaxCrashes = 1
\* The chat comes to rest when its tasks and replies are done and the clock is used up.
CHECK_DEADLOCK FALSE
INVARIANTS
  TypeOK
  OwnReplyLabelled
  AttentionKept
  PersonSilencesBot
  AiOffIsQuiet
  SentReplyKept
