\* Instagram: two requests over two chats in opposite order, one with two messages
\* of a chat, the other with a referral without a message and an echo; redelivery, a failing
\* statement and a crash.
SPECIFICATION Spec
CONSTANTS
  a = a  b = b  a1 = a1  a2 = a2  a3 = a3  b1 = b1  b2 = b2  b3 = b3
  n1 = n1  n2 = n2  p1 = p1  p2 = p2
  None = None
  Sender <- MCSender
  Message <- MCMessage
  Phone <- NoPhones
  Account <- OneAccount
  From <- MCFrom
  To <- MCTo
  Echo <- OneEcho
  Opening <- OneOpening
  PhoneIn <- MCPhoneIn
  SentAt <- MCSentAt
  Batch <- CrossBatches
  Page <- NoPages
  Platform = "instagram"
  Worker = {w1, w2}
  MaxDeliveries = 2
  MaxPages = 0
  MaxDbErrors = 1
  MaxCrashes = 1
SYMMETRY MCSymmetry
\* Once every batch is answered or its deliveries are used up, nothing is left to do.
CHECK_DEADLOCK FALSE
INVARIANTS
  TypeOK
  AnsweredOnce
  ReplyOnlyToStored
  ToldOnce
  WholeBatch
  NoChatForgotten
PROPERTIES
  ImplementsQueue
