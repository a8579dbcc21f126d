SPECIFICATION Spec
CONSTANTS
  e1 = e1
  e2 = e2
  Enrollments = {e1, e2}
  Scenes <- OneAtATime
  PageSize = 2
  MaxCommands = 2
  MaxStreams = 2
  MaxRotations = 2
  NotificationCapacity = 1
INVARIANTS ViewTrue BellSound CommandsAgreed
CHECK_DEADLOCK FALSE
