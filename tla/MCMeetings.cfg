CONSTANTS
  None = None
  Blank = Blank
  Operator = "ana"
  MeetingIds <- OneMeeting
  Humans <- MCHumans
  Names <- MCNames
  Agendas <- MCAgendas
  Templates <- MCTemplates
  Visitors <- EveryVisitor
  MaxSeats = 1
  MaxChain = 3
  MaxCrashes = 1
  MaxFailures = 1
SPECIFICATION Spec
CHECK_DEADLOCK FALSE
INVARIANTS QuorumStands MinutesComplete RatificationsOnRecord
PROPERTIES RatifiedAsSeen
