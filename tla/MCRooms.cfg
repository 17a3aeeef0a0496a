CONSTANTS
  None = None
  a1 = a1
  a2 = a2
  Operators = {ana}
  Agents = {a1, a2}
  Levels = {0, 1}
  Texts = {hello}
  MaxGroups = 2
  MaxLogins = 2
  MaxAsked = 1
  MaxSaid = 1
  MaxChanges = 2
  MaxFailures = 1
SPECIFICATION Spec
CHECK_DEADLOCK FALSE
SYMMETRY Symmetry
INVARIANTS MembersCleared RosterIsLive SaidOnce
PROPERTIES ClosingSweeps
