SPECIFICATION Spec
CONSTANTS
  Steps = 2
  MaxResumes = 3
  Absent = Absent
  Torn = Torn
CHECK_DEADLOCK FALSE
INVARIANTS ModeMatchesTraining IdentityKeptUnbroken
