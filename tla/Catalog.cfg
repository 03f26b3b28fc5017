SPECIFICATION Spec
CONSTANTS
  Uids = {u1, u2}
  Vers = {1, 2}
  BatchSize = 2
  MaxRows = 3
  None = None
SYMMETRY Symmetry
PROPERTIES
  NoNewOrphans
  ReadersAreServed
  IgnoreKeepsObjects
