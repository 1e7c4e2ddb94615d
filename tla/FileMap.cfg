SPECIFICATION Spec
CONSTANTS
  NoRange = NoRange
  Size = 7
  VerSize = 4
  MaxLength = 2
  Available <- MCAvailable
INVARIANTS WellFormed NeverStranded
PROPERTY BytesSpec
