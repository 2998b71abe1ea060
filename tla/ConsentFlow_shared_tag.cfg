SPECIFICATION ConsentSpec
CONSTANTS
  automaticDns = automaticDns
  staticDns = staticDns
  dji = dji
  up = up
  Action <- MCAction
  Ground <- MCGround
  ReadyOn <- MCReadyOn
  Target <- MCTarget
  Writable <- MCTarget
  NoTarget = NoTarget
  TagOf <- MCSharedTag
  PlanLifetime = 2
  EvidenceTTL = 3
  PreparedPlanWait = 1
  QueueCapacity = 2
  MaxClock = 4
  MaxEpoch = 1
  MaxRevision = 2
  MaxPlans = 2
  MaxJobs = 0
  MaxClicks = 2
INVARIANTS
  ConsentIsForThisAction
