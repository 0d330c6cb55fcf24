\* One request with a photo and a later text of the same chat.
SPECIFICATION Spec
CONSTANTS
  a = a  b = b  a1 = a1  a2 = a2  a3 = a3  b1 = b1  b2 = b2  b3 = b3
  n1 = n1  n2 = n2  p1 = p1  p2 = p2
  None = None
  Sender <- MCSender
  Message <- MCMessage
  Phone <- NoPhones
  Account <- OneAccount
  From <- MCFrom
  To <- MCTo
  Echo <- NoEcho
  Opening <- NoOpening
  PhoneIn <- MCPhoneIn
  SentAt <- MCSentAt
  Batch <- PhotoThenText
  Page <- NoPages
  Platform = "instagram"
  Worker = {w1, w2}
  MaxDeliveries = 1
  MaxPages = 0
  MaxDbErrors = 0
  MaxCrashes = 0
SYMMETRY MCSymmetry
\* Once every batch is answered or its deliveries are used up, nothing is left to do.
CHECK_DEADLOCK FALSE
INVARIANTS
  PhotoReachesPipeline
