CONSTANTS
  Replicas = {1}
  Templates = {old, new}
  Foreign = foreign
  MaxPods = 1
  Absent = Absent
  Outside <- MCEdit
  MaxChanges = 3
SPECIFICATION ReconcilerSpec
PROPERTIES
  ProgressingWhileUpdating
CHECK_DEADLOCK FALSE
