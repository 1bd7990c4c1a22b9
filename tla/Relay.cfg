SPECIFICATION Spec
CONSTANTS
  Keys = {k1}
  Conns = {c1, c2}
  Admins = {a1, a2}
  NoAdmin = NoAdmin
  MaxSessions = 1
  MaxHandshakes = 2
  MaxCommands = 4
  MaxCrashes = 1
INVARIANTS
  RevokedCancelled
  AckDurable
  AtMostOneLateFrame
  PermitsAccounted
PROPERTIES
  RevokedEnds
  HandshakesEnd
