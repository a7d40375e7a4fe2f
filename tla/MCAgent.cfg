SPECIFICATION Spec
CONSTANTS
  Modes = {FALSE, TRUE}
  Bodies <- MCBodiesBad
  BadWG = {wBad}
  MaxGen = 2
  MaxKey = 3
  MaxFails = 1
  MaxChan = 1
  Restore = {FALSE}
  None = None
  NoRules = NoRules
  w1 = w1
  w2 = w2
  wBad = wBad
  r1 = r1
  r2 = r2
INVARIANTS TunnelTruthful NewestKept InterfaceStaysOurs
CHECK_DEADLOCK FALSE
