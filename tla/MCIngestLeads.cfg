\* Instagram: one chat, two messages with numbers and one without, delivered in any order, and
\* a page of the history sync that holds the two.
SPECIFICATION FairSpec
CONSTANTS
  a = a  b = b  a1 = a1  a2 = a2  a3 = a3  b1 = b1  b2 = b2  b3 = b3
  n1 = n1  n2 = n2  p1 = p1  p2 = p2
  None = None
  Sender <- OneSender
  Message <- LeadMessage
  Phone <- LeadPhones
  Account <- OneAccount
  From <- LeadFrom
  To <- LeadTo
  Echo <- NoEcho
  Opening <- NoOpening
  PhoneIn <- LeadPhoneIn
  SentAt <- LeadSentAt
  Batch <- LeadBatches
  Page <- LeadPages
  Platform = "instagram"
  Worker = {w1, w2}
  MaxDeliveries = 1
  MaxPages = 1
  MaxDbErrors = 0
  MaxCrashes = 0
\* Once every batch is answered or its deliveries are used up, nothing is left to do.
CHECK_DEADLOCK FALSE
INVARIANTS
  ToldOnce
  NumberMeansLead
PROPERTIES
  EveryRequestEnds
