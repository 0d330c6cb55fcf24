\* WhatsApp, where nothing is echoed: two photos and two price questions, one
\* after the other; the chat's campaign has a photo of its own.
SPECIFICATION FairSpec
CONSTANTS
  t1 = t1  t2 = t2  t3 = t3  t4 = t4
  None = None
  Task <- MCFour
  Kind <- PhotosAndPrices
  HumanReply = {h1}
  Photos = 1
  Pause = 2
  Cooldown = 2
  Echoes = FALSE
  MaxRunning = 1
  MaxTime = 1
  MaxLost = 0
  MaxToggles = 0
  MaxCrashes = 0
\* The chat comes to rest when its tasks and replies are done and the clock is used up.
CHECK_DEADLOCK FALSE
INVARIANTS
  PhotoFlagged
  HandoverOnce
  PhotosOnce
PROPERTIES
  PhotoIsRaised
