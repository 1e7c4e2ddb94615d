SPECIFICATION FilesSpec
CONSTANTS
  o1 = o1  o2 = o2  o3 = o3
  i1 = i1  c1 = c1  c2 = c2
  a1 = a1  a2 = a2  a3 = a3
  Owner <- MCOwner
  Path <- MCPath
  File <- MCFile
  MayMove <- MCMoves
  NoFile = NoFile
  NoPath = NoPath
SYMMETRY OwnerSymmetry
INVARIANTS KeepsAccess InTable
PROPERTY DroppedWithLast
