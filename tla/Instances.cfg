\* Two lives of one instance; `client stop` polls twice.
CONSTANTS
  p1 = p1
  p2 = p2
  Procs = {p1, p2}
  NoProc = NoProc
  MaxPolls = 2
SPECIFICATION Spec
INVARIANTS OneHolder RunningReachable StopSpares StoppedMeansDown
PROPERTIES StopReturns
