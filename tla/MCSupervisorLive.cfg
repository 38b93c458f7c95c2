SPECIFICATION FairSpec
CONSTANTS
  c1 = c1
  c2 = c2
  p1 = p1
  Callers = {c1, c2}
  Pids = {p1}
  Main = Main
  None = None
  MaxWaiters = 1
  BusyTimeout = 1
  RequestTimeout = 1
  StartupTimeout = 1
PROPERTIES RequestReturns LostReaped
