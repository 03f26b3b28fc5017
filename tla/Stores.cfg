SPECIFICATION Spec
CONSTANTS
  Datasets = {sample, d1}
  Sample = sample
  Marks = {m1}
  Io = {TRUE, FALSE}
  None = None
  Torn = Torn
PROPERTIES
  RegistryReplacedWhole
  SaveChangesWhatItNames
