CONSTANTS
  a = a  b = b  c = c  t0 = t0  t1 = t1
  Uid <- MCUid
  Bad = {c}
  Epoch = {t0}
  BaseEpoch = t0
  View <- MCView
  MaxVisible = {0, 1, 3}
  Catalog <- MCCatalog
  FallbackCap = 2
  MaxGenerated = 2
  Mode = {"debug_objects", "point_cloud", "native_viewer"}
  Edit = {"move_out", "delete", "adopt"}
SPECIFICATION Spec
PROPERTIES LookupCoversSector RegenerateAgreesWithSync
