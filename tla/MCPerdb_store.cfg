SPECIFICATION Spec
CONSTANTS
  c1 = c1  c2 = c2  x = x  v1 = v1  v2 = v2
  Vars = {x}
  Vals = {v1, v2}
  Undef = Undef
  Clients <- Two
  Asks <- AskTwo
  NoRequest = NoRequest
  NoAnswer = NoAnswer
  NoConn = NoConn
  EmptyConn = EmptyConn
  Unset = Unset
  Tmax = 2
  Interval = 1
  NbMax = 2
  Events = {"term"}
  MaxSignals = 2
  Spaced = TRUE
INVARIANTS TypeOK OneServer ConnNamesServer
PROPERTIES OnlyOwnConn SavedOnExit ImplementsStore
