CONSTANTS
  Replicas = {0, 1}
  Templates = {old}
  Foreign = foreign
  MaxPods = 1
  Absent = Absent
  Outside <- MCAlone
  MaxChanges = 3
SPECIFICATION ReconcilerSpec
INVARIANTS
  ReconcilerTypeOK
  ObservedMeansApplied
PROPERTIES
  StatusConverges
  OwnedObjectsGo
CHECK_DEADLOCK FALSE
