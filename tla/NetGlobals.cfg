SPECIFICATION NetSpec
CONSTANTS
  N = 2
  Lo <- McLo
  Hi <- McHi
  Tune <- McTune
  Relax <- McRelax
  Env = {0, 2, 9, unset}
  Unset = unset
  GameValues = {2, 7}
  MaxMatches = 2
INVARIANTS WritesOnlyWhatIsAsked
PROPERTIES OursWins
CHECK_DEADLOCK FALSE
