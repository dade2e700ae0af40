CONSTANT
  MaxLost = 3
SPECIFICATION PodSpec
INVARIANTS
  DeathIsNoticed
PROPERTIES
  KilledForCause
  EverySilenceEnds
