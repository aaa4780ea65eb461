CONSTANTS
  Arrays <- MCArrays
  Sizes <- MCSizes
  Walks <- MCWalks
  Planes <- MCPlanes
  Images <- MCImages
  Headers <- MCHeaders
  Lengths <- MCLengths
  Obets <- MCObets
  Times <- MCTimes
  Data <- MCData
  Jobs <- MCJobs
  Grids <- MCGrids
SPECIFICATION Spec
INVARIANT MedianIsMiddle
INVARIANT SamplesCoherent
INVARIANT SubsampledInPlace
INVARIANT PgmShiftTold
INVARIANT ProfileWhole
INVARIANT TicksContinue
INVARIANT DatesAgree
INVARIANT CrcIsRemainder
INVARIANT JpWhole
INVARIANT PacketLengths
