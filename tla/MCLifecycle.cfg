SPECIFICATION Spec
CHECK_DEADLOCK FALSE
INVARIANT StateIsTrue
PROPERTY TimerNotWiped
PROPERTY AdapterReports
PROPERTY RequestsAnswered
PROPERTY CleanupEnds
