\* win32traceutil in a service and in two processes of a user's session, one of
\* them elevated, any of which may end and be started again; or those two
\* opening and closing the map at will.
SPECIFICATION Spec
CONSTANTS
  service = service  shell = shell  tool = tool  s0 = s0  s1 = s1
  Procs <- AllProcs
  Sessions = {s0, s1}
  SessionOf <- SessionOfAll
  Elevated = {service, tool}
  Global = Global
  Objects = {1, 2, 3, 4, 5}
  Values = {1, 2}
  Direct = {shell, tool}
INVARIANTS Reachable SessionAgrees
PROPERTY TextKept
