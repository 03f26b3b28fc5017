SPECIFICATION Spec
CONSTANTS
  intro = intro
  close = close
  pan = pan
  hold = hold
  Steps <- MCSteps
  Look <- MCLook
  Blank = "blank"
  MaxSteps = 3
  Chapters <- MCChapters
  Uids = {"sirius"}
  Nothing = "none"
SYMMETRY Symmetry
INVARIANTS
  CardIsNearest
  NothingLeftOfTheShow
PROPERTIES
  PausedPictureHolds
