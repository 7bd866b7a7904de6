SPECIFICATION Spec
CONSTANTS
  centos7 = centos7
  ol7 = ol7
  ol8 = ol8
  v1 = v1
  v2 = v2
  v3 = v3
  Jobs = 2
  Tarballs <- MCTarballs
  Names <- MCNames
  Extracted <- MCDistinct
  Unmovable <- MCTarballs
INVARIANTS
  BtfGenTypeOK
  OneJobPerSlot
  NoJobSurvives
  OutputIsTailored
PROPERTIES
  AllFilesDone
CHECK_DEADLOCK FALSE
