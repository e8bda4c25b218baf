SPECIFICATION FormSpec
CONSTANTS
  Kinds = {"student", "organization"}
  Callsigns <- MCCallsigns
  Licence <- MCLicence
  DistrictOf <- MCDistrictOf
  Typed <- MCTyped
  None = None
  MaxEdits = 2
  MaxLookups = 2
  MaxSaves = 1
INVARIANTS
  MarksAreTrue
  CoordinateCreditIsTrueIfKept
PROPERTIES
  OneLicensee
