SPECIFICATION Spec
CONSTANTS
  Arguments <- MCArguments
  Values <- MCValues_
  Cuts = {2}
  Base = 9
  SizeOf <- MCSizeOf
  Signature <- MCSignature
  SizeT = 1000
  MaxBytes = 12
  MaxGarbled = 4
  Variables = {x, y}
  Blocks = {b1, b2, b3}
  Nowhere = Nowhere
  Plain = {"Integer"}
  Objects = {"String", "List"}
  MaxElements = 2
SYMMETRY Symmetry
INVARIANTS SerializerTypeOK ReadsInside VariantTypeOK EachPayloadOwned DefinedUnlessOverlap
PROPERTIES ImplementsTape AssignmentCopies
