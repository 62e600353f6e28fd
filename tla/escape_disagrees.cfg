SPECIFICATION EsSpec
CONSTANTS
  MaxLosses = 2
  MaxWeather = 1
INVARIANTS EsAgree
CHECK_DEADLOCK FALSE
