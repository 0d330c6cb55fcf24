\* Three people, two workspaces, one address in two spellings; two requests at a
\* time.
SPECIFICATION Spec
CONSTANTS
  None = None
  bob = bob  Bob = Bob
  User = {u1, u2, u3}
  Tenant = {x, y}
  Address <- MCAddress
  Lower <- MCLower
  Invited = {"admin"}
  Body <- MCBody
  MaxEdits = 3
  Request = {r1, r2}
SYMMETRY MCSymmetry
\* A workspace whose people are all set inactive is left alone for ever.
CHECK_DEADLOCK FALSE
INVARIANTS
  TypeOK
  WorkspaceHasOwner
  ConfirmedByOwnLink
  NoStaleWrite
  LinkNamesARow
  SignedUpOnce
