\* All acyclic graphs on four services, up to the names of the services.
SPECIFICATION Spec
CONSTANTS
  a = a  b = b  c = c  d = d
  Registry <- FourServices
  Targets = {b, d}
  Graphs <- AllGraphs
  Operations = {"StopServiceWithDeps", "RestartService", "StartService"}
  MaxTries = 2
  Crashes = TRUE
INVARIANTS NeverRefused StoppedAll RestartedOnce
CHECK_DEADLOCK FALSE
