SPECIFICATION FairSpec
CONSTANTS
  c1 = c1  c2 = c2  x = x  v1 = v1  v2 = v2
  Vars = {x}
  Vals = {v1}
  Undef = Undef
  Clients <- One
  Asks <- AskOne
  NoRequest = NoRequest
  NoAnswer = NoAnswer
  NoConn = NoConn
  EmptyConn = EmptyConn
  Unset = Unset
  Tmax = 16
  Interval = Unset
  NbMax = 2
  Events = {"term", "hup", "kill", "drop"}
  MaxSignals = 2
  Spaced = FALSE
PROPERTIES CommandReturns ServerEnds
