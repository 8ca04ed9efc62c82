SPECIFICATION FairSpec
CONSTANTS
  d1 = d1
  d2 = d2
  d3 = d3
  Docs = {d1, d2, d3}
  Stuck = {d1, d2}
  Limit = 2
  Interval = 2
  FirstCheck = 1
  BaseDelay = 2
  MaxDelay = 4
  StaleAfter = 3
  MaxChecks = 2
  MaxAttempts = 2
  Patience = 21
  MaxDeaths = 1
PROPERTIES EveryRowEnds
