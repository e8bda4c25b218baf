SPECIFICATION Spec
CONSTANTS
  p = p
  q = q
  f1 = f1
  f2 = f2
  n1 = n1
  n2 = n2
  n3 = n3
  s1 = s1
  s2 = s2
  s3 = s3
  handmade = handmade
  hard = hard
  soft = soft
  Absent = Absent
  None = None
  Programs = {p, q}
  Images = 3
  Shipped <- MCShipped
  Keyed = {q}
  Says <- MCSays
  Candidates <- MCCandidates
  MaxWrites = 2
INVARIANTS
  NothingIsStranded
PROPERTIES
  BootsChangeNoAnswer
  WorkHereStands
  ConsentMovesWhatWasRead
