\* A grid of 2 by 2 divisions, 8 levels, up to 31 samples on 10 columns.
SPECIFICATION Spec
CONSTANTS
  Pad = 2
  SubDivLen = 1
  TDivs = 2
  VDivs = 2
  Half = 4
  MaxSamples = 31
  Values <- MCValues
INVARIANTS
  InImage
  Unbroken
  OnTheLine
  LabelRight
PROPERTIES
  NoDrift
CHECK_DEADLOCK FALSE
