SPECIFICATION SchemaSpec
CONSTANTS
  a = a
  b = b
  c = c
  Files <- MCFiles
  ContentsOf <- MCContentsOf
  Arguments <- MCArguments
INVARIANTS
  SchemaTypeInvariant
  OkIsSound
  OkNamesItsImports
  ViolationIsReal
PROPERTIES
  CommandEnds
CHECK_DEADLOCK FALSE
