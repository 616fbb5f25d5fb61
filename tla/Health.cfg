SPECIFICATION HealthSpec
CONSTANTS
  Second = 2
  Tenth = 1
  Defaults <- MCDefaults
  Files <- MCFiles
  MaxDown = 9
INVARIANTS
  HealthInv
  HealthIsFresh
