CONSTANTS
  Players = {p1, p2, p3, p4, p5}
  GroupIds = {g1, g2}
  NoGroup = NoGroup
SPECIFICATION Spec
INVARIANTS
  TypeOK
  PointersAgree
  RostersAgree
PROPERTIES
  ImplementsParties
