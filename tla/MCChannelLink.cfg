\* Two workspaces and a third by sign-up, four channels, two requests at a time,
\* two chats with the Instagram account and one with a Page, of which a seed reads
\* the newest message of the newest chat.
SPECIFICATION Spec
CONSTANTS
  None = None
  ig = ig  p1 = p1  p2 = p2  wa = wa  x = x  y = y  z = z
  Channel <- MCChannel
  Platform <- MCPlatform
  InstagramOf <- MCInstagramOf
  Workspace = {a, b, c}
  Existing = {a, b}
  Message <- MCMessage
  To <- MCTo
  Chat <- MCChat
  Threads = 1
  PerThread = 1
  Request = {r1, r2}
  MaxRequests = 2
SYMMETRY MCSymmetry
\* Once the requests are used up and their tasks are done, nothing is left to do.
CHECK_DEADLOCK FALSE
INVARIANTS
  TypeOK
  ToldIsConnected
  NoGap
PROPERTIES
  ChannelNeverMoves
