CONSTANTS
  None = None
  Blank = Blank
  Operator = "ana"
  MeetingIds <- OneMeeting
  Humans <- MCHumans
  Names <- MCNames
  Agendas <- MCAgendas
  Templates <- MCTemplates
  Visitors <- MCVisitors
  MaxSeats = 1
  MaxChain = 2
  MaxCrashes = 0
  MaxFailures = 0
SPECIFICATION Spec
CHECK_DEADLOCK FALSE
INVARIANT SignedMinutesStand
