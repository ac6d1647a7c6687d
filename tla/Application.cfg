CONSTANTS
  Calls = {c1, c2}
  Subagents = {c2}
  Main = main
  First = first
  Second = second
  Tasks = {main, first, second}
  Attempts = 2
  NoTransport = none
  Order <- MCOrder
  Early = {}
  Channels = {"telegram"}
  Mcp = "mcp"
  Offers <- MCOffers
SPECIFICATION Spec
INVARIANTS OnlyEnabledServe StoppedIsQuiet
PROPERTY StopEnds
CHECK_DEADLOCK FALSE
