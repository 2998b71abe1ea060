SPECIFICATION FairConsentSpec
CONSTANTS
  automaticDns = automaticDns
  staticDns = staticDns
  dji = dji
  up = up
  Action <- MCAction
  Ground <- MCGround
  ReadyOn <- MCReadyOn
  Target <- MCTarget
  Writable <- MCTarget
  NoTarget = NoTarget
  TagOf <- MCOwnTag
  PlanLifetime = 1
  EvidenceTTL = 3
  PreparedPlanWait = 1
  QueueCapacity = 2
  MaxClock = 3
  MaxEpoch = 1
  MaxRevision = 1
  MaxPlans = 2
  MaxJobs = 0
  MaxClicks = 2
INVARIANTS
  ConsentIsForThisAction
  ResultShownOnce
PROPERTIES
  DialogSlotFreed
