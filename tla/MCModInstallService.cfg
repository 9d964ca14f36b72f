\* Two calling threads, two requests: requests, late cancels and stale
\* migration answers meet every phase of the worker.
SPECIFICATION Spec
CONSTANTS
  Callers = {ui, uri}
  MaxGen = 2
  MaxPlans = 2
SYMMETRY CallerSymmetry
INVARIANTS
  ConsentedReplacement
  TimelyCancelHonoured
  TerminalMeansFinished
PROPERTY
  NoRequestSkipped
