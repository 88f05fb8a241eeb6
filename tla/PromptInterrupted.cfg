SPECIFICATION InteractiveSpec
PROPERTIES SignalTerminates
CHECK_DEADLOCK FALSE
