SPECIFICATION FairSpec
CONSTANTS
  Addr = {h1, h2}
  Conn <- MCConn
  MaxHubs = 1
  MaxHandshakes = 2
INVARIANTS AssertsHold HubsWithinLimit
PROPERTIES HandshakeEnds DeadHubLeaves
