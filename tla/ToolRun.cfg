SPECIFICATION RunnerSpec
CONSTANTS
  PipeSize = 2
  MaxLines = 4
  Unset = Unset
INVARIANTS
  OutcomeIsTheChilds
PROPERTIES
  OnlyAHangHolds
  TimeoutEndsWhatItCovers
