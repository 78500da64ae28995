CONSTANTS
  Controller = {c1, c2}
  Job = {j1}
  Run = {r1, r2}
  Registered <- Everywhere
  OnDemand = {j1}
  MaxStops = 2
  Null = Null
SPECIFICATION FairSpec
INVARIANTS OneRunningRow MapMatchesGoroutines
PROPERTIES FinalStatusStable OnlyLiveRunPostpones RunsAreResolved JobsRunAgain InterruptedIsCanceled
