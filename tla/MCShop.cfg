\* One upload, two posts, two campaigns, one ad that two chats open from; two
\* requests at a time.
SPECIFICATION Spec
CONSTANTS
  None = None  Gone = Gone
  Photo = {x}
  Post = {p1, p2}
  Campaign = {c, d}
  Ad = {a}
  Chat = {h1, h2}
  Request = {r1, r2}
  MaxEdits = 2
SYMMETRY MCSymmetry
\* Requests may be used up.
CHECK_DEADLOCK FALSE
INVARIANTS
  TypeOK
  UploadsCanBeSent
  PanelIsConsistent
  AdToldOnce
