CONSTANTS
  a = a  b = b  c = c  t0 = t0  t1 = t1
  Uid <- MCUid
  Bad = {c}
  Epoch = {t0}
  BaseEpoch = t0
  View <- MCSyncView
  MaxVisible = {0, 1, 3}
  Catalog <- MCCatalog
  FallbackCap = 2
  MaxGenerated = 2
  Mode = {"debug_objects", "instances"}
  Edit = {"tag", "copy", "move_out", "delete"}
SPECIFICATION Spec
INVARIANTS InstancesHaveTemplate
PROPERTIES SyncConverges SyncSparesKept SyncIdempotent SyncHonoursCap
