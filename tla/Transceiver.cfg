SPECIFICATION FairSpec
CONSTANTS
  a = a
  b = b
  c = c
  NoMsg = NoMsg
  Msg = {a, b, c}
  Id <- MCId
  Total <- MCTotal
  OwnParts = 2
  OwnId = 2
  SignedChar = FALSE
  Byte = 2
  Lifetime = 2
  MaxQueue = 2
INVARIANTS OnlyTwinsMix PoolAccounts
PROPERTIES AsksAnswered IncompleteLeaves
