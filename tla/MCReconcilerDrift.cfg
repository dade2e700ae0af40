CONSTANTS
  Replicas = {0, 1}
  Templates = {old}
  Foreign = foreign
  MaxPods = 1
  Absent = Absent
  Outside <- MCDrift
  MaxChanges = 3
SPECIFICATION ReconcilerSpec
PROPERTIES
  DriftRepaired
  Quiesces
CHECK_DEADLOCK FALSE
