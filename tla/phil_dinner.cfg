CONSTANTS
  N = 4
  Seats = 3
  Food = 4
  NoOne = NoOne
SPECIFICATION LiveSpec
INVARIANTS
  ForksHeld
  SeatsBalance
  SomebodyCanMove
PROPERTIES
  DinnerServed
  DinnerEnds
