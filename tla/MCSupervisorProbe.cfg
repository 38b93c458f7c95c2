SPECIFICATION Spec
CONSTANTS
  c1 = c1
  c2 = c2
  p1 = p1
  p2 = p2
  Callers = {c1, c2}
  Pids = {p1, p2}
  Main = Main
  None = None
  MaxWaiters = 2
  BusyTimeout = 1
  RequestTimeout = 1
  StartupTimeout = 1
SYMMETRY Symmetric
PROPERTY ProbeGetsItsTime
