SPECIFICATION Spec
CONSTANTS
  c1 = c1  c2 = c2  x = x  v1 = v1  v2 = v2
  Vars = {x}
  Vals = {v1, v2}
  Undef = Undef
  Clients <- Two
  Asks <- AskUnsaved
  NoRequest = NoRequest
  NoAnswer = NoAnswer
  NoConn = NoConn
  EmptyConn = EmptyConn
  Unset = Unset
  Tmax = 2
  Interval = 1
  NbMax = 2
  Events = {}
  MaxSignals = 2
  Spaced = FALSE
INVARIANTS AnsweredSurvives
