\* WhatsApp, two numbers: a body of one and two of both; redelivery, a
\* failing statement and a crash.
SPECIFICATION Spec
CONSTANTS
  a = a  b = b  a1 = a1  a2 = a2  a3 = a3  b1 = b1  b2 = b2  b3 = b3
  n1 = n1  n2 = n2  p1 = p1  p2 = p2
  None = None
  Sender <- MCSender
  Message <- MCMessage
  Phone <- NoPhones
  Account <- TwoAccounts
  From <- MCFrom
  To <- WaTo
  Echo <- NoEcho
  Opening <- NoOpening
  PhoneIn <- MCPhoneIn
  SentAt <- MCSentAt
  Batch <- WaBatches
  Page <- NoPages
  Platform = "whatsapp"
  Worker = {w1, w2}
  MaxDeliveries = 2
  MaxPages = 0
  MaxDbErrors = 1
  MaxCrashes = 1
SYMMETRY MCSymmetry
\* Once every batch is answered or its deliveries are used up, nothing is left to do.
CHECK_DEADLOCK FALSE
INVARIANTS
  AckedIsStored
  NewChatAnnounced
