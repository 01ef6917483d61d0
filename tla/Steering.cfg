\* Three snakes in an arena with walls and on a torus of odd width, where heads may
\* meet in one cell; one connection comes and goes, and that snake goes straight on.
SPECIFICATION Spec
CONSTANTS
  Width = 5
  Height = 4
  NumSnakes = 3
  FoodCount = 1
  TicksPerMove = 1
  Steered = {0, 1}
  Unsteady = {2}
  MaxTick = 2
INVARIANTS BodiesHold ResultRanks NoSeatAdvantage BotSurvives PredictionHolds
CHECK_DEADLOCK FALSE
