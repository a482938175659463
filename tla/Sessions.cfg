CONSTANTS
  JNO_MAX = 4
  NoPolicy = NoPolicy
  NoData = NoData
  Cells = {x1, x2, x3}
  a1 = a1
  a2 = a2
  b1 = b1
  c1 = c1
  Peers <- MCPeers
  Keys = {"a", "b", "c"}
  KeyOf <- MCKeyOf
  JnoOf <- MCJnoOf
  Macs = {m1}
  Group = Group
  Sizes = {60, 2036}
  Incoming <- MCIncoming
  RawConfigs <- MCRawConfigs
  Null = Null
  Tap = Tap
SPECIFICATION Spec
SYMMETRY Symmetry
CHECK_DEADLOCK FALSE
INVARIANT SessionsTypeOK
INVARIANT SessionsAgree
INVARIANT AdmittedOnly
INVARIANT UsesLiveSessions
INVARIANT LearntFromPeer
INVARIANT SentIsUnderstood
